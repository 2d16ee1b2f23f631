------------------------------- MODULE Table --------------------------------
(***************************************************************************)
(* table/table.cpp and ReadBlock of table/format.cpp: opening a table, and *)
(* who owns the buffers that are read on the way.  Tables are opened and   *)
(* deleted one after the other; what a read yields, and whether it is what *)
(* was once written, may differ from call to call.                         *)
(***************************************************************************)
EXTENDS Integers

CONSTANTS
  Policies,      \* filter policies
  MaxReads,      \* bound: calls of ReadBlock
  OK, IOError, Corruption, NULL,
  Mapped,        \* memory of the file itself, which Read may hand out
  Wild,          \* a pointer that was never set
  kNoCompression, kSnappyCompression, Unknown

Options == [paranoid_checks : BOOLEAN, filter_policy : Policies \cup {NULL}]

\* A Block, or any other use of BlockContents; a buffer is a number.
Block == [data : Nat \cup {Mapped, NULL}, owned_ : BOOLEAN, intact : BOOLEAN]

\* A FilterBlockReader.
Filter == [policy : Policies, data : Nat \cup {Mapped, NULL}, intact : BOOLEAN]

Rep == [options : Options, index_block : Block, filter_data : Nat \cup {NULL},
        filter : Filter \cup {NULL}]

ASSUME ConstantsAssumption ==
  /\ MaxReads \in Nat
  /\ {NULL, Mapped, Wild} \cap Nat = {} /\ Mapped # NULL /\ Wild # NULL
  /\ NULL \notin Block /\ NULL \notin Filter /\ NULL \notin Rep
  /\ OK \notin {IOError, Corruption, NULL} /\ NULL \notin Policies
  /\ kNoCompression # kSnappyCompression /\ Unknown \notin {kNoCompression, kSnappyCompression}

VARIABLES
  heap,          \* the buffers that are allocated, numbered as they were
  made,          \* how many there have been
  table,         \* *table: its Rep, or NULL
  options,       \* those of the Open in progress
  meta,          \* the local of ReadMeta, or NULL
  pc,            \* "none", the next step of an Open, or "open"
  returned,      \* what the last Open returned, NULL before
  compressed     \* history: the buffers in which ReadBlock found a compressed block

vars == <<heap, made, table, options, meta, pc, returned, compressed>>

-----------------------------------------------------------------------------
(* ReadBlock.                                                              *)

\* What Read may do for a block: its status, whether all bytes came, whether
\* they are what was written, what the type byte says, and where they are.
Outcomes ==
  [status : {OK, IOError}, whole : BOOLEAN, intact : BOOLEAN,
   type : {kNoCompression, kSnappyCompression, Unknown}, mapped : BOOLEAN]

\* Defect: the checksums are never asked for.
VerifiesNever(o) == FALSE

\* opt.verify_checksums in Open, ReadMeta and ReadFilter.
Verifies(o) == o.paranoid_checks

buf == made + 1

ReadStatus(o) ==
  IF o.status # OK THEN o.status
  ELSE IF ~o.whole \/ (Verifies(options) /\ ~o.intact) \/ o.type = Unknown THEN Corruption
  ELSE OK

\* Defect: the buffer is not deleted when the file has handed out its own.
KeepsBufferMapped(o) == ReadStatus(o) = OK

\* ReadBlock deletes its buffer on every error, and when the file has handed
\* out memory of its own; not when the block is compressed.
KeepsBuffer(o) ==
  ReadStatus(o) = OK /\ (o.type = kSnappyCompression \/ ~o.mapped)

\* Defect: the slice is that of the buffer that was deleted.
DataOfBuffer(o) == IF o.type = kSnappyCompression THEN NULL ELSE buf

\* Where result->data points; NULL for the empty slice.
Data(o) ==
  IF o.type = kSnappyCompression THEN NULL
  ELSE IF o.mapped THEN Mapped
  ELSE buf

Contents(o) ==
  [data |-> Data(o), owned_ |-> o.type = kNoCompression /\ ~o.mapped, intact |-> o.intact]

\* The heap after a ReadBlock with the outcome o.
ReadBlock(o) ==
  /\ made < MaxReads
  /\ made' = buf
  /\ heap' = IF KeepsBuffer(o) THEN heap \cup {buf} ELSE heap
  /\ compressed' = IF KeepsBuffer(o) /\ o.type = kSnappyCompression
                     THEN compressed \cup {buf} ELSE compressed

\* What ~Block deletes.
OwnedBy(block) == IF block.owned_ THEN {block.data} ELSE {}

-----------------------------------------------------------------------------
Init ==
  /\ heap = {} /\ made = 0 /\ compressed = {}
  /\ table = NULL /\ meta = NULL /\ pc = "none" /\ returned = NULL
  /\ options \in Options

Return(s) == returned' = s /\ pc' = IF s = OK THEN "open" ELSE "none"

\* Open, as far as the footer: it is there, or it is not, or it is not read.
OpenFooter(o, s) ==
  /\ pc = "none"
  /\ options' = o
  /\ IF s = OK THEN pc' = "index" /\ UNCHANGED returned ELSE Return(s)
  /\ UNCHANGED <<heap, made, table, meta, compressed>>

\* Defect: filter_data keeps what it happens to be.
NewRepUnset(block) ==
  [options |-> options, index_block |-> block, filter_data |-> Wild, filter |-> NULL]

NewRep(block) ==
  [options |-> options, index_block |-> block, filter_data |-> NULL, filter |-> NULL]

OpenIndex(o) ==
  /\ pc = "index"
  /\ ReadBlock(o)
  /\ IF ReadStatus(o) # OK
       THEN Return(ReadStatus(o)) /\ UNCHANGED table
       ELSE /\ table' = NewRep(Contents(o))
            /\ IF options.filter_policy = NULL THEN Return(OK)
               ELSE pc' = "meta" /\ UNCHANGED returned
  /\ UNCHANGED <<options, meta>>

\* ReadMeta, as far as its Seek: the filter is found, or it is not; in an
\* empty block nothing is.
ReadMeta(o, found) ==
  /\ pc = "meta"
  /\ ReadBlock(o)
  /\ found => ReadStatus(o) = OK /\ Data(o) # NULL
  /\ IF ReadStatus(o) # OK
       THEN Return(OK) /\ UNCHANGED meta
       ELSE /\ meta' = Contents(o)
            /\ pc' = (IF found THEN "filter" ELSE "end")
            /\ UNCHANGED returned
  /\ UNCHANGED <<table, options>>

\* ReadFilter, when the handle can be decoded.
ReadFilter(o) ==
  /\ pc = "filter"
  /\ ReadBlock(o)
  /\ IF ReadStatus(o) # OK THEN UNCHANGED table
     ELSE table' = [table EXCEPT
            !.filter_data = IF Contents(o).owned_ THEN Data(o) ELSE @,
            !.filter = [policy |-> options.filter_policy, data |-> Data(o),
                        intact |-> o.intact /\ meta.intact]]
  /\ pc' = "end"
  /\ UNCHANGED <<options, meta, returned>>

\* ReadFilter, when it cannot.
ReadFilterNot ==
  /\ pc = "filter"
  /\ pc' = "end"
  /\ UNCHANGED <<heap, made, table, options, meta, returned, compressed>>

\* delete iter, delete meta, and the return of Open.
EndMeta ==
  /\ pc = "end"
  /\ heap' = heap \ OwnedBy(meta)
  /\ meta' = NULL
  /\ Return(OK)
  /\ UNCHANGED <<made, table, options, compressed>>

\* Table::~Table and Rep::~Rep.
Delete ==
  /\ pc = "open"
  /\ heap' = heap \ (OwnedBy(table.index_block) \cup {table.filter_data})
  /\ table' = NULL /\ pc' = "none"
  /\ UNCHANGED <<made, options, meta, returned, compressed>>

Next ==
  \/ \E o \in Options, s \in {OK, IOError, Corruption} : OpenFooter(o, s)
  \/ \E o \in Outcomes : OpenIndex(o) \/ ReadFilter(o)
  \/ \E o \in Outcomes, found \in BOOLEAN : ReadMeta(o, found)
  \/ ReadFilterNot \/ EndMeta \/ Delete

Spec == Init /\ [][Next]_vars

-----------------------------------------------------------------------------
\* Types; and Open has given out a table exactly when it has returned OK.
TypeOK ==
  /\ made \in 0..MaxReads /\ heap \subseteq 1..made /\ compressed \subseteq heap
  /\ table \in Rep \cup {NULL} /\ meta \in Block \cup {NULL}
  /\ options \in Options
  /\ pc \in {"none", "index", "meta", "filter", "end", "open"}
  /\ returned \in {OK, IOError, Corruption, NULL}
  /\ table = NULL <=> pc \in {"none", "index"}
  /\ meta = NULL <=> pc \notin {"filter", "end"}
  /\ pc = "open" => returned = OK

\* The owners of buffers: the two members of a Rep that its destructor deletes,
\* and the metaindex block.
IndexBuffer == IF table = NULL THEN {} ELSE OwnedBy(table.index_block)
FilterBuffer == IF table = NULL THEN {} ELSE {table.filter_data} \ {NULL}
MetaBuffer == IF meta = NULL THEN {} ELSE OwnedBy(meta)

\* However an Open ends, every buffer has one owner that will delete it, once;
\* but nobody owns those in which ReadBlock found a compressed block.
BuffersOwned ==
  /\ heap = IndexBuffer \cup FilterBuffer \cup MetaBuffer \cup compressed
  /\ IndexBuffer \cap (FilterBuffer \cup MetaBuffer) = {}
  /\ FilterBuffer \cap MetaBuffer = {}
  /\ compressed \cap (IndexBuffer \cup FilterBuffer \cup MetaBuffer) = {}

\* The filter and the index of a table lie in memory that is there as long as
\* the table is, though the metaindex block through which the filter was found
\* is gone.
DataAlive ==
  table # NULL =>
    /\ table.index_block.data \in heap \cup {Mapped, NULL}
    /\ table.filter # NULL => table.filter.data \in heap \cup {Mapped, NULL}

\* With paranoid_checks nothing of an open table stems from altered bytes: not
\* its index, not its filter, and not the block by which the filter was found.
ParanoidTrust ==
  table # NULL /\ table.options.paranoid_checks =>
    table.index_block.intact /\ (table.filter # NULL => table.filter.intact)
=============================================================================
