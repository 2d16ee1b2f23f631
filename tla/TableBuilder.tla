---------------------------- MODULE TableBuilder ----------------------------
(***************************************************************************)
(* table/table_builder.cpp: the entries of a table are cut into blocks,    *)
(* each written to the file with a trailer; and what table/format.cpp and  *)
(* Table::Open make of that file.                                          *)
(*                                                                         *)
(* A file is a sequence of cells: an entry, a restart array, a filter, a   *)
(* trailer or a footer is one cell, and sizes and offsets count cells.  An *)
(* Append may fail after any prefix of its data has reached the file.      *)
(***************************************************************************)
EXTENDS Integers, Sequences, SequencesExt

CONSTANTS
  Keys,          \* the keys, numbered in the order of the comparator
  OptionSets,    \* Options a caller passes: [comparator, block_size, filter_policy, compression]
  MaxEntries,    \* bound: calls of Add
  OK, IOError, Corruption, NULL,
  kNoCompression, kSnappyCompression

ASSUME ConstantsAssumption ==
  /\ Keys \subseteq Int /\ MaxEntries \in Nat
  /\ \A o \in OptionSets : o.block_size \in Nat \ {0}
  /\ OK \notin {IOError, Corruption}

VARIABLES
  rep,           \* TableBuilder::Rep
  file,          \* what has reached the file
  handles,       \* the handles Finish keeps in locals: filter, metaindex, index
  pc,            \* "open", the next block of a Finish in progress, or how it was closed
  opened,        \* what Table::Open of the finished file returned, NULL before
  added          \* history: the entries given to Add

vars == <<rep, file, handles, pc, opened, added>>

-----------------------------------------------------------------------------
(* Blocks in the file.                                                     *)

Raw(block) == block \o <<[kind |-> "restarts"]>>

Trailer(data, type) == [kind |-> "trailer", type |-> type, crc |-> data]

\* What the file makes of the Appends of one block: how many cells of it reach
\* the file, and whether every Append reported success.
Outcomes(data) ==
  {[reach |-> n, ok |-> FALSE] : n \in 0..Len(data) + 1}
    \cup {[reach |-> Len(data) + 1, ok |-> TRUE]}

\* Defect: the trailer is not counted.
AfterWriteUncounted(r, data, w) ==
  [r EXCEPT !.status = IF w.ok THEN OK ELSE IOError,
            !.offset = IF w.ok THEN @ + Len(data) ELSE @]

\* WriteRawBlock, as the builder and as the file see it.
AfterWrite(r, data, w) ==
  [r EXCEPT !.status = IF w.ok THEN OK ELSE IOError,
            !.offset = IF w.ok THEN @ + Len(data) + 1 ELSE @]

Written(data, type, w) ==
  file' = file \o SubSeq(data \o <<Trailer(data, type)>>, 1, w.reach)

Handle(r, data) == [offset |-> r.offset, size |-> Len(data)]

\* ReadBlock with verify_checksums.  A block marked as compressed is not
\* decompressed: its contents come back empty, with status OK.
ReadBlock(f, h) ==
  LET cells == SubSeq(f, h.offset + 1, h.offset + h.size + 1)
      data == SubSeq(cells, 1, h.size)
      trailer == cells[h.size + 1]
  IN IF Len(cells) # h.size + 1
       THEN [status |-> Corruption, data |-> << >>]
     ELSE IF ~("crc" \in DOMAIN trailer /\ trailer.crc = data)
       THEN [status |-> Corruption, data |-> << >>]
     ELSE [status |-> OK,
           data |-> IF trailer.type = kNoCompression THEN data ELSE << >>]

\* The entries of the block h: all its cells but the restart array.
EntriesAt(h) == Front(ReadBlock(file, h).data)

-----------------------------------------------------------------------------
NewFilter(policy) == IF policy = NULL THEN NULL
                     ELSE [policy |-> policy, blocks |-> <<[offset |-> 0, keys |-> {}]>>]

Init ==
  /\ \E o \in OptionSets :
       rep = [options |-> o, offset |-> 0, status |-> OK,
              data_block |-> << >>, index_block |-> << >>, last_key |-> NULL,
              closed |-> FALSE, filter_block |-> NewFilter(o.filter_policy),
              pending_index_entry |-> FALSE, pending_handle |-> NULL]
  /\ file = << >> /\ pc = "open" /\ opened = NULL /\ added = << >>
  /\ handles = [filter |-> NULL, metaindex |-> NULL, index |-> NULL]

ok == rep.status = OK

\* Defect: the filter is not told of the new block.
StartBlockIgnored(r) == r

\* The filter f with a block started at the offset, and with k in its last block.
Started(f, offset) == [f EXCEPT !.blocks = Append(@, [offset |-> offset, keys |-> {}])]

WithKey(f, k) == [f EXCEPT !.blocks[Len(f.blocks)].keys = @ \cup {k}]

\* filter_block->StartBlock(offset) and filter_block->AddKey(k), if there is one
StartBlock(r) ==
  IF r.filter_block = NULL THEN r ELSE [r EXCEPT !.filter_block = Started(@, r.offset)]

AddKey(r, k) ==
  IF r.filter_block = NULL THEN r ELSE [r EXCEPT !.filter_block = WithKey(@, k)]

\* Defect: pending_handle is a local of Flush.
WriteBlockNoHandle(r, w) == [AfterWrite(r, Raw(r.data_block), w) EXCEPT !.data_block = << >>]

\* Defect: WriteBlock does not Reset the block.
WriteBlockNoReset(r, w) ==
  LET data == Raw(r.data_block)
  IN [AfterWrite(r, data, w) EXCEPT !.pending_handle = Handle(r, data)]

\* WriteBlock of the data block, with the outcome w.
WriteBlock(r, w) ==
  LET data == Raw(r.data_block)
  IN [AfterWrite(r, data, w) EXCEPT !.data_block = << >>, !.pending_handle = Handle(r, data)]

\* The builder when Flush has written its data block with the outcome w and
\* file->Flush() has returned s.
AfterFlush(r, w, s) ==
  LET written == WriteBlock(r, w)
  IN StartBlock(IF w.ok THEN [written EXCEPT !.pending_index_entry = TRUE, !.status = s]
                ELSE written)

\* Defect: an earlier error does not keep Flush from writing.
FlushesAnyway(r) == r.data_block # << >>

\* Flush goes past its early returns.
Flushes(r) == r.status = OK /\ r.data_block # << >>

\* Flush of the builder r.
FlushOf(r) ==
  IF Flushes(r)
    THEN \E w \in Outcomes(Raw(r.data_block)), s \in {OK, IOError} :
           /\ rep' = AfterFlush(r, w, s)
           /\ Written(Raw(r.data_block), r.options.compression, w)
    ELSE rep' = r /\ UNCHANGED file

-----------------------------------------------------------------------------
\* FindShortestSeparator: a key in [from, limit).
Separators(from, limit) == {s \in Keys : from <= s /\ s < limit}

\* What Finish looks for: a key that is not before the last one.
Successors(from) == {s \in Keys : from <= s}

\* The last key gives way to s, and the index entry of its block is added.
WithIndexEntry(r, s) ==
  [r EXCEPT !.last_key = s,
            !.index_block = Append(@, [key |-> s, value |-> r.pending_handle]),
            !.pending_index_entry = FALSE]

WithEntry(r, e) ==
  [AddKey(r, e.key) EXCEPT !.last_key = e.key, !.data_block = Append(@, e)]

\* Add flushes a block that has come to its size.
FlushWhenFull(r) ==
  IF Len(r.data_block) >= r.options.block_size
    THEN FlushOf(r)
    ELSE rep' = r /\ UNCHANGED file

Add(k) ==
  LET e == [key |-> k, value |-> Len(added)]
  IN /\ ~rep.closed /\ pc = "open" /\ Len(added) < MaxEntries
     /\ added # << >> => k > rep.last_key
     /\ IF rep.pending_index_entry
          THEN \E s \in Separators(rep.last_key, k) :
                 FlushWhenFull(WithEntry(WithIndexEntry(rep, s), e))
          ELSE FlushWhenFull(WithEntry(rep, e))
     /\ added' = Append(added, e)
     /\ UNCHANGED <<handles, pc, opened>>

Flush ==
  /\ pc = "open"
  /\ FlushOf(rep)
  /\ UNCHANGED <<handles, pc, opened, added>>

\* Options may change; another comparator is refused.
ChangeOptions(o) ==
  /\ pc = "open"
  /\ o.comparator = rep.options.comparator
  /\ rep' = [rep EXCEPT !.options = o]
  /\ UNCHANGED <<file, handles, pc, opened, added>>

Abandon ==
  /\ pc = "open"
  /\ rep' = [rep EXCEPT !.closed = TRUE]
  /\ pc' = "abandoned"
  /\ UNCHANGED <<file, handles, opened, added>>

-----------------------------------------------------------------------------
(* Finish: Flush, and then up to three blocks.                             *)

Finish ==
  /\ pc = "open"
  /\ FlushOf([rep EXCEPT !.closed = TRUE])
  /\ pc' = "filter"
  /\ UNCHANGED <<handles, opened, added>>

\* The next block of Finish, if everything before it went well.
FinishBlock(r, at, data, type, then) ==
  /\ IF ok
       THEN \E w \in Outcomes(data) :
              /\ rep' = AfterWrite(r, data, w)
              /\ Written(data, type, w)
              /\ handles' = [handles EXCEPT ![at] = Handle(r, data)]
       ELSE UNCHANGED <<rep, file, handles>>
  /\ pc' = then
  /\ UNCHANGED <<opened, added>>

FinishFilter ==
  /\ pc = "filter"
  /\ IF rep.filter_block = NULL
       THEN pc' = "metaindex" /\ UNCHANGED <<rep, file, handles, opened, added>>
       ELSE FinishBlock(rep, "filter", <<[kind |-> "filter", blocks |-> rep.filter_block.blocks]>>,
                        kNoCompression, "metaindex")

\* The metaindex block names the filter after the policy in the options.
FinishMetaindex ==
  /\ pc = "metaindex"
  /\ LET meta == IF rep.filter_block = NULL THEN << >>
                 ELSE <<[key |-> rep.options.filter_policy, value |-> handles.filter]>>
     IN FinishBlock(rep, "metaindex", Raw(meta), rep.options.compression, "index")

\* Defect: the last block stays without an index entry.
LastEntryNever(r) == FALSE

\* if (r->pending_index_entry), in a Finish that has met no error
LastEntry(r) == r.pending_index_entry /\ r.status = OK

FinishIndex ==
  /\ pc = "index"
  /\ \E r \in IF LastEntry(rep)
               THEN {WithIndexEntry(rep, s) : s \in Successors(rep.last_key)}
               ELSE {rep} :
       FinishBlock([r EXCEPT !.index_block = << >>], "index", Raw(r.index_block),
                   r.options.compression, "finished")

IsFooter(cell) == "index" \in DOMAIN cell

\* Table::Open of the finished file: it looks for a footer at the end, and
\* reads the index block that the footer names.
Open ==
  /\ pc = "finished" /\ opened = NULL
  /\ opened' = IF file = << >> \/ ~IsFooter(Last(file)) THEN Corruption
               ELSE ReadBlock(file, Last(file).index).status
  /\ UNCHANGED <<rep, file, handles, pc, added>>

Next ==
  \/ \E k \in Keys : Add(k)
  \/ \E o \in OptionSets : ChangeOptions(o)
  \/ Flush \/ Abandon
  \/ Finish \/ FinishFilter \/ FinishMetaindex \/ FinishIndex
  \/ Open

Spec == Init /\ [][Next]_vars

-----------------------------------------------------------------------------
\* BlockHandles; no block is empty, as it ends with its restart array.
Handles == [offset : Nat, size : Nat \ {0}]

\* Types; every handle that will be read has been set.
TypeOK ==
  /\ rep.options \in OptionSets /\ rep.offset \in Nat
  /\ rep.status \in {OK, IOError} /\ rep.closed \in BOOLEAN
  /\ rep.last_key \in Keys \cup {NULL}
  /\ rep.pending_index_entry => rep.pending_handle \in Handles
  /\ \A n \in DOMAIN rep.index_block :
       rep.index_block[n].key \in Keys /\ rep.index_block[n].value \in Handles
  /\ pc \in {"open", "abandoned", "filter", "metaindex", "index", "finished"}
  /\ opened \in {NULL, OK, Corruption}

\* The assertions at table_builder.cpp:91 and :121, at whatever point a write
\* has failed.
AssertionsHold == rep.pending_index_entry => rep.data_block = << >>

\* FileSize() is the size of the file until a write fails, and what a failed
\* write left behind lies past it.
OffsetExact == /\ rep.offset <= Len(file)
               /\ ok => rep.offset = Len(file)

\* Once an error is detected it stays, and nothing more is written.
ErrorFreezes == [][~ok => UNCHANGED <<rep.status, rep.offset, file>>]_vars

\* The index entries: in the file when Finish has written them, before that in
\* the builder, with the entry that is still pending.
Index == IF pc = "finished" /\ ok THEN EntriesAt(handles.index)
         ELSE IF rep.pending_index_entry
           THEN Append(rep.index_block, [key |-> rep.last_key, value |-> rep.pending_handle])
         ELSE rep.index_block

\* The block that the index sends a reader of k to: that of the first index
\* entry that is not before k.
Sought(k) == LET S == {n \in DOMAIN Index : Index[n].key >= k}
             IN IF S = {} THEN << >>
                ELSE EntriesAt(Index[CHOOSE n \in S : \A m \in S : n <= m].value)

\* As long as nothing has failed, every entry that was added is in the block
\* being filled or in the block of the file that the index names for its key.
EntriesReachable ==
  ok => \A n \in DOMAIN added :
          \/ added[n] \in ToSet(rep.data_block)
          \/ added[n] \in ToSet(Sought(added[n].key))

\* The filter knows every key of a block under the offset of that block.
FilterCovers ==
  rep.filter_block # NULL =>
    \A n \in DOMAIN Index : \A e \in ToSet(EntriesAt(Index[n].value)) :
      \E b \in ToSet(rep.filter_block.blocks) :
        b.offset = Index[n].value.offset /\ e.key \in b.keys

\* A table whose Finish met no error can be opened.
FinishedTableOpens == ok /\ opened # NULL => opened = OK
=============================================================================
