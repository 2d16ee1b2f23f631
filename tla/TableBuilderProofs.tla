-------------------------- MODULE TableBuilderProofs --------------------------
(***************************************************************************)
(* The builder of a table, for any keys, options and number of entries:    *)
(* its types and assertions, FileSize(), and errors that stay; then what   *)
(* the index and the filter say of the blocks in the file.                 *)
(***************************************************************************)
EXTENDS TableBuilder, SequenceTheorems, TLAPS

\* Cells are of many kinds; what matters here is that there is a sequence of
\* them, and how long it is.
IsSeq(s) == \E S : s \in Seq(S)

\* What a builder holds, whatever its filter is.
IsRep(r) ==
  r \in [options : OptionSets, offset : Nat, status : {OK, IOError},
         data_block : Seq([key : Keys, value : Nat]),
         index_block : Seq([key : Keys, value : Handles]),
         last_key : Keys \cup {NULL}, closed : BOOLEAN,
         filter_block : {r.filter_block},
         pending_index_entry : BOOLEAN, pending_handle : Handles \cup {NULL}]

\* A builder with an index entry to write has nothing to write before it, and
\* knows the last key that the entry is to cover.
BuilderOK(r) ==
  /\ IsRep(r)
  /\ r.pending_index_entry => r.pending_handle \in Handles /\ r.data_block = << >>
  /\ r.pending_index_entry \/ r.data_block # << >> => r.last_key \in Keys

OffsetOK(r) ==
  /\ IsSeq(file)
  /\ r.offset <= Len(file)
  /\ r.status = OK => r.offset = Len(file)

Inv ==
  /\ BuilderOK(rep) /\ OffsetOK(rep)
  /\ added \in Seq([key : Keys, value : Nat])
  /\ pc \in {"open", "abandoned", "filter", "metaindex", "index", "finished"}
  /\ opened \in {NULL, OK, Corruption}

-----------------------------------------------------------------------------
LEMMA Concatenated ==
  ASSUME NEW s, NEW t, IsSeq(s), IsSeq(t)
  PROVE  IsSeq(s \o t) /\ Len(s \o t) = Len(s) + Len(t) /\ Len(s) \in Nat /\ Len(t) \in Nat
<1>1. PICK S : s \in Seq(S)
  BY DEF IsSeq
<1>2. PICK T : t \in Seq(T)
  BY DEF IsSeq
<1>3. s \in Seq(S \cup T) /\ t \in Seq(S \cup T)
  BY <1>1, <1>2
<1>4. s \o t \in Seq(S \cup T) /\ Len(s \o t) = Len(s) + Len(t)
  BY <1>3
<1>5. QED
  BY <1>1, <1>2, <1>4 DEF IsSeq

LEMMA Prefixed ==
  ASSUME NEW s, IsSeq(s), NEW n \in 0..Len(s)
  PROVE  IsSeq(SubSeq(s, 1, n)) /\ Len(SubSeq(s, 1, n)) = n
<1>1. PICK S : s \in Seq(S)
  BY DEF IsSeq
<1>2. SubSeq(s, 1, n) \in Seq(S) /\ Len(SubSeq(s, 1, n)) = n
  BY <1>1
<1>3. QED
  BY <1>2 DEF IsSeq

LEMMA OneCell == ASSUME NEW x PROVE IsSeq(<<x>>) /\ Len(<<x>>) = 1
<1>1. <<x>> \in Seq({x}) /\ Len(<<x>>) = 1
  OBVIOUS
<1>2. QED
  BY <1>1 DEF IsSeq

\* A raw block is never empty: it ends with its restart array.
LEMMA RawLength ==
  ASSUME NEW s, IsSeq(s)
  PROVE  IsSeq(Raw(s)) /\ Len(Raw(s)) \in Nat \ {0}
BY OneCell, Concatenated DEF Raw

\* A block that is written in part leaves the offset; one that is written whole
\* brings it to the end of the file.
LEMMA WriteExact ==
  ASSUME NEW r, IsRep(r), r.status = OK, r.offset = Len(file), IsSeq(file),
         NEW data, IsSeq(data), NEW type, NEW w \in Outcomes(data),
         Written(data, type, w),
         NEW q, q = AfterWrite(r, data, w)
  PROVE  /\ IsSeq(file') /\ IsRep(q) /\ q.offset <= Len(file')
         /\ q.status = OK => q.offset = Len(file')
         /\ q.data_block = r.data_block /\ q.index_block = r.index_block
         /\ q.last_key = r.last_key /\ q.options = r.options
         /\ q.pending_index_entry = r.pending_index_entry
         /\ q.pending_handle = r.pending_handle
         /\ w.ok \in BOOLEAN
<1>1. /\ w.reach \in 0..Len(data) + 1 /\ w.ok \in BOOLEAN /\ Len(data) \in Nat
      /\ w.ok => w.reach = Len(data) + 1
  <2>1. Len(data) \in Nat
    BY Concatenated
  <2>2. CASE \E n \in 0..Len(data) + 1 : w = [reach |-> n, ok |-> FALSE]
    BY <2>1, <2>2
  <2>3. CASE w = [reach |-> Len(data) + 1, ok |-> TRUE]
    BY <2>1, <2>3
  <2>4. QED
    BY <2>2, <2>3 DEF Outcomes
<1>2. IsSeq(file') /\ Len(file') = Len(file) + w.reach /\ Len(file) \in Nat
  <2>1. LET cells == data \o <<Trailer(data, type)>>
        IN  IsSeq(cells) /\ Len(cells) = Len(data) + 1
    BY OneCell, Concatenated
  <2>2. LET cells == SubSeq(data \o <<Trailer(data, type)>>, 1, w.reach)
        IN  IsSeq(cells) /\ Len(cells) = w.reach
    BY <1>1, <2>1, Prefixed
  <2>3. QED
    BY <2>2, Concatenated DEF Written
<1> DEFINE st == IF w.ok THEN OK ELSE IOError
           off == IF w.ok THEN r.offset + Len(data) + 1 ELSE r.offset
<1>3. /\ st \in {OK, IOError} /\ off \in Nat /\ off <= Len(file')
      /\ st = OK => off = Len(file')
  <2>1. CASE w.ok
    <3>1. st = OK /\ off = Len(file) + Len(data) + 1
      BY <2>1
    <3>2. w.reach = Len(data) + 1 /\ Len(file') = Len(file) + w.reach
      BY <1>1, <1>2, <2>1
    <3> HIDE DEF st, off
    <3>3. QED
      BY <1>1, <1>2, <3>1, <3>2
  <2>2. CASE ~w.ok
    BY <1>1, <1>2, <2>2, ConstantsAssumption
  <2>3. QED
    BY <1>1, <2>1, <2>2
<1>4. q = [r EXCEPT !.status = st, !.offset = off]
  BY DEF AfterWrite
<1> HIDE DEF st, off
<1>5. /\ q.status = st /\ q.offset = off
      /\ q.data_block = r.data_block /\ q.index_block = r.index_block
      /\ q.last_key = r.last_key /\ q.options = r.options
      /\ q.pending_index_entry = r.pending_index_entry
      /\ q.pending_handle = r.pending_handle
  BY <1>4 DEF IsRep
<1>6. IsRep(q)
  BY <1>3, <1>4 DEF IsRep
<1>7. QED
  BY <1>1, <1>2, <1>3, <1>5, <1>6

\* StartBlock and AddKey change the filter only.
LEMMA FilterOnly ==
  ASSUME NEW r, IsRep(r), NEW k, NEW q \in {StartBlock(r), AddKey(r, k)}
  PROVE  /\ IsRep(q) /\ q.status = r.status /\ q.offset = r.offset
         /\ q.data_block = r.data_block /\ q.index_block = r.index_block
         /\ q.last_key = r.last_key /\ q.options = r.options
         /\ q.pending_index_entry = r.pending_index_entry
         /\ q.pending_handle = r.pending_handle
<1>1. CASE q = r
  BY <1>1
<1>2. ASSUME NEW f, q = [r EXCEPT !.filter_block = f]
      PROVE  /\ q.status = r.status /\ q.offset = r.offset
             /\ q.data_block = r.data_block /\ q.index_block = r.index_block
             /\ q.last_key = r.last_key /\ q.options = r.options
             /\ q.pending_index_entry = r.pending_index_entry
             /\ q.pending_handle = r.pending_handle /\ q.filter_block = f
  BY <1>2 DEF IsRep
<1>3. ASSUME NEW f, q = [r EXCEPT !.filter_block = f] PROVE IsRep(q)
  BY <1>2, <1>3 DEF IsRep
<1>4. CASE q = [r EXCEPT !.filter_block = Started(r.filter_block, r.offset)]
  BY <1>2, <1>3, <1>4
<1>5. CASE q = [r EXCEPT !.filter_block = WithKey(r.filter_block, k)]
  BY <1>2, <1>3, <1>5
<1>6. QED
  BY <1>1, <1>4, <1>5 DEF StartBlock, AddKey

\* Flush leaves a builder in order, whatever the file does; after an error it
\* does nothing.
LEMMA FlushKeeps ==
  ASSUME NEW r, BuilderOK(r), OffsetOK(r), FlushOf(r)
  PROVE  /\ BuilderOK(rep') /\ OffsetOK(rep)' /\ rep'.last_key = r.last_key
         /\ r.status # OK => rep' = r /\ file' = file
<1>1. CASE ~Flushes(r)
  BY <1>1 DEF FlushOf, OffsetOK
<1>2. CASE Flushes(r)
  <2> DEFINE data == Raw(r.data_block)
  <2>1. r.status = OK /\ r.last_key \in Keys /\ IsRep(r) /\ r.offset = Len(file)
        /\ IsSeq(file) /\ r.offset \in Nat
    BY <1>2 DEF Flushes, BuilderOK, OffsetOK, IsRep
  <2>2. IsSeq(data) /\ Len(data) \in Nat \ {0}
    <3>1. IsSeq(r.data_block)
      BY <2>1 DEF IsRep, IsSeq
    <3>2. QED
      BY <3>1, RawLength
  <2>3. PICK w \in Outcomes(data), s \in {OK, IOError} :
          rep' = AfterFlush(r, w, s) /\ Written(data, r.options.compression, w)
    BY <1>2 DEF FlushOf
  <2> DEFINE a == AfterWrite(r, data, w)
             b == WriteBlock(r, w)
             p == IF w.ok THEN [b EXCEPT !.pending_index_entry = TRUE, !.status = s] ELSE b
  <2>4. /\ IsSeq(file') /\ IsRep(a) /\ a.offset <= Len(file') /\ w.ok \in BOOLEAN
        /\ a.status = OK => a.offset = Len(file')
        /\ a.last_key = r.last_key
    BY <2>1, <2>2, <2>3, WriteExact
  <2>5. w.ok => a.status = OK
    BY <2>1 DEF AfterWrite, IsRep
  <2>6. b = [a EXCEPT !.data_block = << >>, !.pending_handle = Handle(r, data)]
    BY DEF WriteBlock
  <2>7. Handle(r, data) \in Handles
    BY <2>1, <2>2 DEF Handle, Handles
  <2> HIDE DEF a, b, data
  <2>8. /\ IsRep(b) /\ b.offset = a.offset /\ b.status = a.status /\ b.data_block = << >>
        /\ b.pending_handle \in Handles /\ b.last_key = r.last_key
    <3>1. /\ b.offset = a.offset /\ b.status = a.status /\ b.data_block = << >>
          /\ b.pending_handle = Handle(r, data) /\ b.last_key = a.last_key
      BY <2>4, <2>6 DEF IsRep
    <3>2. IsRep(b)
      <4>1. << >> \in Seq([key : Keys, value : Nat]) /\ Handle(r, data) \in Handles \cup {NULL}
        BY <2>7
      <4>2. QED
        BY <2>4, <2>6, <4>1 DEF IsRep
    <3>3. QED
      BY <2>4, <2>7, <3>1, <3>2
  <2>9. /\ IsRep(p) /\ p.offset = a.offset /\ (p.status = OK => a.status = OK)
        /\ p.data_block = << >> /\ p.pending_handle \in Handles /\ p.last_key = r.last_key
    <3>1. CASE w.ok
      BY <2>3, <2>5, <2>8, <3>1 DEF IsRep
    <3>2. CASE ~w.ok
      BY <2>8, <3>2
    <3>3. QED
      BY <2>4, <3>1, <3>2
  <2> HIDE DEF p
  <2>10. rep' = StartBlock(p)
    BY <2>3 DEF AfterFlush, p, b
  <2>11. BuilderOK(p)
    BY <2>1, <2>9 DEF BuilderOK
  <2>12. BuilderOK(rep') /\ rep'.offset = p.offset /\ rep'.status = p.status
         /\ rep'.last_key = p.last_key
    BY <2>9, <2>10, <2>11, FilterOnly DEF BuilderOK
  <2>13. QED
    BY <2>1, <2>4, <2>9, <2>12 DEF OffsetOK
<1>3. QED
  BY <1>1, <1>2

-----------------------------------------------------------------------------
\* What the builder has seen of the file does not change after an error.
Frozen ==
  rep.status # OK => rep'.status = rep.status /\ rep'.offset = rep.offset /\ file' = file

LEMMA IndexEntryOK ==
  ASSUME NEW r, BuilderOK(r), r.pending_index_entry, NEW s \in Keys,
         NEW q, q = WithIndexEntry(r, s)
  PROVE  /\ BuilderOK(q) /\ ~q.pending_index_entry
         /\ q.status = r.status /\ q.offset = r.offset
<1> DEFINE index == Append(r.index_block, [key |-> s, value |-> r.pending_handle])
<1>1. IsRep(r) /\ r.data_block = << >> /\ r.pending_handle \in Handles
  BY DEF BuilderOK
<1>2. index \in Seq([key : Keys, value : Handles])
  BY <1>1 DEF IsRep
<1>3. q = [r EXCEPT !.last_key = s, !.index_block = index, !.pending_index_entry = FALSE]
  BY DEF WithIndexEntry
<1> HIDE DEF index
<1>4. /\ q.status = r.status /\ q.offset = r.offset /\ q.data_block = r.data_block
      /\ q.pending_index_entry = FALSE /\ q.last_key = s
  BY <1>1, <1>3 DEF IsRep
<1>5. IsRep(q)
  BY <1>1, <1>2, <1>3 DEF IsRep
<1>6. QED
  BY <1>1, <1>4, <1>5 DEF BuilderOK

LEMMA EntryOK ==
  ASSUME NEW r, BuilderOK(r), ~r.pending_index_entry,
         NEW e \in [key : Keys, value : Nat], NEW q, q = WithEntry(r, e)
  PROVE  BuilderOK(q) /\ q.status = r.status /\ q.offset = r.offset
<1> DEFINE a == AddKey(r, e.key)
           data == Append(a.data_block, e)
<1>1. /\ IsRep(a) /\ a.status = r.status /\ a.offset = r.offset
      /\ a.pending_index_entry = r.pending_index_entry
  BY FilterOnly DEF BuilderOK
<1> HIDE DEF a
<1>2. data \in Seq([key : Keys, value : Nat])
  BY <1>1 DEF IsRep
<1>3. q = [a EXCEPT !.last_key = e.key, !.data_block = data] /\ e.key \in Keys
  BY DEF a, WithEntry
<1> HIDE DEF data
<1>4. /\ q.status = a.status /\ q.offset = a.offset /\ q.last_key = e.key
      /\ q.pending_index_entry = a.pending_index_entry
  BY <1>1, <1>3 DEF IsRep
<1>5. IsRep(q)
  BY <1>1, <1>2, <1>3 DEF IsRep
<1>6. QED
  BY <1>1, <1>4, <1>5 DEF BuilderOK

LEMMA AddInv == ASSUME Inv, NEW k \in Keys, Add(k) PROVE Inv' /\ Frozen
<1> DEFINE e == [key |-> k, value |-> Len(added)]
<1>1. /\ e \in [key : Keys, value : Nat] /\ added' = Append(added, e)
      /\ UNCHANGED <<handles, pc, opened>> /\ BuilderOK(rep) /\ OffsetOK(rep)
  BY DEF Add, Inv
<1>2. PICK r : /\ FlushWhenFull(WithEntry(r, e)) /\ BuilderOK(r) /\ ~r.pending_index_entry
               /\ r.status = rep.status /\ r.offset = rep.offset
  <2>1. CASE rep.pending_index_entry
    <3>1. PICK s \in Keys : FlushWhenFull(WithEntry(WithIndexEntry(rep, s), e))
      BY <2>1 DEF Add, Separators
    <3>2. QED
      BY <1>1, <2>1, <3>1, IndexEntryOK
  <2>2. CASE ~rep.pending_index_entry
    BY <1>1, <2>2 DEF Add
  <2>3. QED
    BY <2>1, <2>2
<1> DEFINE q == WithEntry(r, e)
<1>3. BuilderOK(q) /\ q.status = rep.status /\ q.offset = rep.offset
  BY <1>1, <1>2, EntryOK
<1>4. OffsetOK(q)
  BY <1>1, <1>3 DEF OffsetOK
<1>5. BuilderOK(rep') /\ OffsetOK(rep)' /\ Frozen
  <2>1. FlushOf(q) \/ (rep' = q /\ UNCHANGED file)
    BY <1>2 DEF FlushWhenFull
  <2> HIDE DEF q
  <2>2. CASE FlushOf(q)
    BY <1>3, <1>4, <2>2, FlushKeeps DEF Frozen
  <2>3. CASE rep' = q /\ UNCHANGED file
    BY <1>3, <1>4, <2>3 DEF Frozen, OffsetOK
  <2>4. QED
    BY <2>1, <2>2, <2>3
<1>6. QED
  BY <1>1, <1>5 DEF Inv

LEMMA FlushInv == ASSUME Inv, Flush PROVE Inv' /\ Frozen
BY FlushKeeps DEF Flush, Inv, Frozen

LEMMA ChangeOptionsInv ==
  ASSUME Inv, NEW o \in OptionSets, ChangeOptions(o) PROVE Inv' /\ Frozen
<1>1. /\ rep' = [rep EXCEPT !.options = o] /\ UNCHANGED <<file, handles, pc, opened, added>>
      /\ BuilderOK(rep) /\ IsRep(rep)
  BY DEF ChangeOptions, Inv, BuilderOK
<1>2. /\ rep'.status = rep.status /\ rep'.offset = rep.offset
      /\ rep'.data_block = rep.data_block /\ rep'.last_key = rep.last_key
      /\ rep'.pending_index_entry = rep.pending_index_entry
      /\ rep'.pending_handle = rep.pending_handle
  BY <1>1 DEF IsRep
<1>3. IsRep(rep')
  BY <1>1 DEF IsRep
<1>4. QED
  BY <1>1, <1>2, <1>3 DEF Inv, BuilderOK, OffsetOK, Frozen

\* Closing a builder changes nothing else of it.
LEMMA Closed ==
  ASSUME NEW q, BuilderOK(rep), OffsetOK(rep), q = [rep EXCEPT !.closed = TRUE]
  PROVE  BuilderOK(q) /\ OffsetOK(q) /\ q.status = rep.status /\ q.offset = rep.offset
<1>1. /\ q.status = rep.status /\ q.offset = rep.offset
      /\ q.data_block = rep.data_block /\ q.last_key = rep.last_key
      /\ q.pending_index_entry = rep.pending_index_entry
      /\ q.pending_handle = rep.pending_handle
  BY DEF BuilderOK, IsRep
<1>2. IsRep(q)
  BY DEF BuilderOK, IsRep
<1>3. QED
  BY <1>1, <1>2 DEF BuilderOK, OffsetOK

LEMMA AbandonInv == ASSUME Inv, Abandon PROVE Inv' /\ Frozen
<1>1. /\ rep' = [rep EXCEPT !.closed = TRUE] /\ pc' = "abandoned"
      /\ UNCHANGED <<file, handles, opened, added>>
  BY DEF Abandon
<1>2. BuilderOK(rep') /\ OffsetOK(rep') /\ rep'.status = rep.status /\ rep'.offset = rep.offset
  BY <1>1, Closed DEF Inv
<1>3. QED
  BY <1>1, <1>2 DEF Inv, OffsetOK, Frozen

LEMMA FinishInv == ASSUME Inv, Finish PROVE Inv' /\ Frozen
<1> DEFINE q == [rep EXCEPT !.closed = TRUE]
<1>1. FlushOf(q) /\ pc' = "filter" /\ UNCHANGED <<handles, opened, added>>
  BY DEF Finish
<1>2. BuilderOK(q) /\ OffsetOK(q) /\ q.status = rep.status /\ q.offset = rep.offset
  BY Closed DEF Inv
<1> HIDE DEF q
<1>3. BuilderOK(rep') /\ OffsetOK(rep)' /\ Frozen
  BY <1>1, <1>2, FlushKeeps DEF Frozen
<1>4. QED
  BY <1>1, <1>3 DEF Inv

\* A block of Finish, written from a builder r that differs from rep only in
\* its index entries.
LEMMA FinishBlockKeeps ==
  ASSUME Inv, NEW r, BuilderOK(r), r.status = rep.status, r.offset = rep.offset,
         NEW at, NEW data, IsSeq(data), NEW type,
         NEW then \in {"metaindex", "index", "finished"},
         FinishBlock(r, at, data, type, then)
  PROVE  Inv' /\ Frozen
<1>1. pc' = then /\ UNCHANGED <<opened, added>> /\ BuilderOK(rep) /\ OffsetOK(rep)
  BY DEF FinishBlock, Inv
<1>2. BuilderOK(rep') /\ OffsetOK(rep)' /\ Frozen
  <2>1. CASE ~ok
    BY <1>1, <2>1 DEF FinishBlock, OffsetOK, Frozen
  <2>2. CASE ok
    <3>1. PICK w \in Outcomes(data) :
            rep' = AfterWrite(r, data, w) /\ Written(data, type, w)
      BY <2>2 DEF FinishBlock
    <3>2. IsRep(r) /\ r.status = OK /\ r.offset = Len(file) /\ IsSeq(file)
      BY <1>1, <2>2 DEF ok, OffsetOK, BuilderOK
    <3>3. /\ IsSeq(file') /\ IsRep(rep') /\ rep'.offset <= Len(file')
          /\ rep'.status = OK => rep'.offset = Len(file')
          /\ rep'.data_block = r.data_block /\ rep'.last_key = r.last_key
          /\ rep'.pending_index_entry = r.pending_index_entry
          /\ rep'.pending_handle = r.pending_handle
      BY <3>1, <3>2, WriteExact
    <3>4. QED
      BY <2>2, <3>3 DEF BuilderOK, OffsetOK, Frozen, ok
  <2>3. QED
    BY <2>1, <2>2
<1>3. QED
  BY <1>1, <1>2 DEF Inv

LEMMA FinishFilterInv == ASSUME Inv, FinishFilter PROVE Inv' /\ Frozen
<1>1. CASE rep.filter_block = NULL
  BY <1>1 DEF FinishFilter, Inv, OffsetOK, Frozen
<1>2. CASE rep.filter_block # NULL
  <2> DEFINE data == <<[kind |-> "filter", blocks |-> rep.filter_block.blocks]>>
  <2>1. FinishBlock(rep, "filter", data, kNoCompression, "metaindex")
    BY <1>2 DEF FinishFilter
  <2>2. IsSeq(data)
    BY OneCell
  <2> HIDE DEF data
  <2>3. BuilderOK(rep)
    BY DEF Inv
  <2>4. QED
    BY <2>1, <2>2, <2>3, FinishBlockKeeps
<1>3. QED
  BY <1>1, <1>2

LEMMA FinishMetaindexInv == ASSUME Inv, FinishMetaindex PROVE Inv' /\ Frozen
<1> DEFINE meta == IF rep.filter_block = NULL THEN << >>
                   ELSE <<[key |-> rep.options.filter_policy, value |-> handles.filter]>>
<1>1. FinishBlock(rep, "metaindex", Raw(meta), rep.options.compression, "index")
  BY DEF FinishMetaindex
<1>2. IsSeq(meta)
  <2>1. IsSeq(<< >>)
    BY DEF IsSeq
  <2>2. QED
    BY <2>1, OneCell
<1> HIDE DEF meta
<1>3. IsSeq(Raw(meta)) /\ BuilderOK(rep)
  BY <1>2, RawLength DEF Inv
<1>4. QED
  BY <1>1, <1>3, FinishBlockKeeps

LEMMA FinishIndexInv == ASSUME Inv, FinishIndex PROVE Inv' /\ Frozen
<1>1. PICK r : /\ BuilderOK(r) /\ r.status = rep.status /\ r.offset = rep.offset
               /\ FinishBlock([r EXCEPT !.index_block = << >>], "index",
                              Raw(r.index_block), r.options.compression, "finished")
  <2>1. BuilderOK(rep)
    BY DEF Inv
  <2>2. CASE LastEntry(rep)
    <3>1. PICK s \in Successors(rep.last_key) :
            LET r == WithIndexEntry(rep, s) IN
              FinishBlock([r EXCEPT !.index_block = << >>], "index",
                          Raw(r.index_block), r.options.compression, "finished")
      BY <2>2 DEF FinishIndex
    <3>2. s \in Keys
      BY DEF Successors
    <3>3. QED
      BY <2>1, <2>2, <3>1, <3>2, IndexEntryOK DEF LastEntry
  <2>3. CASE ~LastEntry(rep)
    BY <2>1, <2>3 DEF FinishIndex
  <2>4. QED
    BY <2>2, <2>3
<1> DEFINE q == [r EXCEPT !.index_block = << >>]
<1>2. /\ q.status = r.status /\ q.offset = r.offset
      /\ q.data_block = r.data_block /\ q.last_key = r.last_key
      /\ q.pending_index_entry = r.pending_index_entry
      /\ q.pending_handle = r.pending_handle
  BY <1>1 DEF BuilderOK, IsRep
<1>3. IsRep(q)
  <2>1. IsRep(r) /\ << >> \in Seq([key : Keys, value : Handles])
    BY <1>1 DEF BuilderOK
  <2>2. QED
    BY <2>1 DEF IsRep
<1>4. IsSeq(Raw(r.index_block))
  <2>1. IsSeq(r.index_block)
    BY <1>1 DEF BuilderOK, IsRep, IsSeq
  <2>2. QED
    BY <2>1, RawLength
<1>5. FinishBlock(q, "index", Raw(r.index_block), r.options.compression, "finished")
  BY <1>1
<1> HIDE DEF q
<1>6. BuilderOK(q)
  BY <1>1, <1>2, <1>3 DEF BuilderOK
<1>7. QED
  BY <1>1, <1>2, <1>4, <1>5, <1>6, FinishBlockKeeps

LEMMA OpenInv == ASSUME Inv, Open PROVE Inv' /\ Frozen
<1>1. opened' \in {OK, Corruption} /\ UNCHANGED <<rep, file, handles, pc, added>>
  <2>1. ReadBlock(file, Last(file).index).status \in {OK, Corruption}
    BY DEF ReadBlock
  <2>2. QED
    BY <2>1 DEF Open
<1>2. QED
  BY <1>1 DEF Inv, OffsetOK, Frozen

LEMMA InitInv == Init => Inv
<1> SUFFICES ASSUME Init PROVE Inv
  OBVIOUS
<1>1. PICK o \in OptionSets :
        rep = [options |-> o, offset |-> 0, status |-> OK,
               data_block |-> << >>, index_block |-> << >>, last_key |-> NULL,
               closed |-> FALSE, filter_block |-> NewFilter(o.filter_policy),
               pending_index_entry |-> FALSE, pending_handle |-> NULL]
  BY DEF Init
<1>2. << >> \in Seq([key : Keys, value : Nat]) /\ << >> \in Seq([key : Keys, value : Handles])
  OBVIOUS
<1>3. BuilderOK(rep)
  BY <1>1, <1>2 DEF BuilderOK, IsRep
<1>4. OffsetOK(rep)
  BY <1>1 DEF Init, OffsetOK, IsSeq
<1>5. QED
  BY <1>3, <1>4 DEF Init, Inv

LEMMA NextInv == Inv /\ [Next]_vars => Inv' /\ Frozen
<1> SUFFICES ASSUME Inv, [Next]_vars PROVE Inv' /\ Frozen
  OBVIOUS
<1>1. CASE UNCHANGED vars
  BY <1>1 DEF vars, Inv, OffsetOK, Frozen
<1>2. QED
  BY <1>1, AddInv, ChangeOptionsInv, FlushInv, AbandonInv, FinishInv, FinishFilterInv,
     FinishMetaindexInv, FinishIndexInv, OpenInv DEF Next

LEMMA Invariance == Spec => []Inv
BY InitInv, NextInv, PTL DEF Spec

\* The types; every handle that will be read has been set.
THEOREM TypeCorrect == Spec => []TypeOK
<1>1. Inv => TypeOK
  <2> SUFFICES ASSUME Inv PROVE TypeOK
    OBVIOUS
  <2>1. IsRep(rep)
    BY DEF Inv, BuilderOK
  <2>2. \A n \in DOMAIN rep.index_block :
          rep.index_block[n].key \in Keys /\ rep.index_block[n].value \in Handles
    <3> DEFINE S == [key : Keys, value : Handles]
               index == rep.index_block
    <3>1. index \in Seq(S)
      BY <2>1 DEF IsRep
    <3>2. \A e \in S : e.key \in Keys /\ e.value \in Handles
      OBVIOUS
    <3> HIDE DEF S, index
    <3>3. \A n \in DOMAIN index : index[n] \in S
      BY <3>1
    <3>4. QED
      BY <3>2, <3>3 DEF index
  <2>3. /\ rep.options \in OptionSets /\ rep.offset \in Nat
        /\ rep.status \in {OK, IOError} /\ rep.closed \in BOOLEAN
        /\ rep.last_key \in Keys \cup {NULL}
    BY <2>1 DEF IsRep
  <2>4. QED
    BY <2>2, <2>3 DEF TypeOK, Inv, BuilderOK
<1>2. QED
  BY <1>1, Invariance, PTL

\* No call, and no failure of a write, brings the builder to where an assertion
\* of its next call fails.
THEOREM Asserted == Spec => []AssertionsHold
<1>1. Inv => AssertionsHold
  BY DEF Inv, BuilderOK, AssertionsHold
<1>2. QED
  BY <1>1, Invariance, PTL

\* FileSize() is the size of the file, or less when a write has failed.
THEOREM FileSizeExact == Spec => []OffsetExact
<1>1. Inv => OffsetExact
  BY DEF Inv, OffsetOK, OffsetExact, ok
<1>2. QED
  BY <1>1, Invariance, PTL

\* An error stays, and nothing is written after it.
THEOREM ErrorsStay == Spec => ErrorFreezes
<1>1. Frozen => (~ok => UNCHANGED <<rep.status, rep.offset, file>>)
  BY DEF Frozen, ok
<1>2. Inv /\ [Next]_vars => [~ok => UNCHANGED <<rep.status, rep.offset, file>>]_vars
  BY NextInv, <1>1
<1>3. QED
  BY <1>2, Invariance, PTL DEF Spec, ErrorFreezes

-----------------------------------------------------------------------------
(* Blocks that stand in the file.                                          *)

\* The block data stands in the file f where h says, with its trailer.
Stored(f, h, data) ==
  /\ h \in Handles /\ h.size = Len(data)
  /\ h.offset + h.size + 1 <= Len(f)
  /\ SubSeq(f, h.offset + 1, h.offset + h.size + 1)
       = data \o <<Trailer(data, kNoCompression)>>

\* What is written behind a block leaves it as it is.
LEMMA StoredKept ==
  ASSUME NEW f, IsSeq(f), NEW t, IsSeq(t), NEW h, NEW data, Stored(f, h, data)
  PROVE  Stored(f \o t, h, data)
<1>1. PICK S : f \in Seq(S) /\ t \in Seq(S)
  <2>1. PICK F : f \in Seq(F)
    BY DEF IsSeq
  <2>2. PICK T : t \in Seq(T)
    BY DEF IsSeq
  <2>3. f \in Seq(F \cup T) /\ t \in Seq(F \cup T)
    BY <2>1, <2>2
  <2>4. QED
    BY <2>3
<1>2. /\ h.offset \in Nat /\ h.size \in Nat /\ Len(f) \in Nat
      /\ h.offset + h.size + 1 <= Len(f)
  BY <1>1 DEF Stored, Handles
<1>3. SubSeq(f \o t, h.offset + 1, h.offset + h.size + 1)
        = SubSeq(f, h.offset + 1, h.offset + h.size + 1)
  <2>1. h.offset + 1 \in 1..Len(f) /\ h.offset + h.size + 1 \in 1..Len(f)
    BY <1>2
  <2>2. QED
    BY <1>1, <2>1, SubSeqOfConcat1
<1>4. Len(f \o t) \in Nat /\ Len(f \o t) >= Len(f)
  BY <1>1
<1>5. h.offset + h.size + 1 <= Len(f \o t)
  BY <1>2, <1>4
<1>6. QED
  BY <1>3, <1>5 DEF Stored

\* A block that is written whole stands where WriteRawBlock says.
LEMMA StoredNew ==
  ASSUME NEW f, IsSeq(f), NEW data, IsSeq(data), Len(data) # 0,
         NEW h, h = [offset |-> Len(f), size |-> Len(data)]
  PROVE  Stored(f \o (data \o <<Trailer(data, kNoCompression)>>), h, data)
<1> DEFINE t == data \o <<Trailer(data, kNoCompression)>>
<1>1. PICK S : f \in Seq(S) /\ t \in Seq(S)
  <2>1. PICK F : f \in Seq(F)
    BY DEF IsSeq
  <2>2. PICK T : t \in Seq(T)
    BY OneCell, Concatenated DEF IsSeq
  <2>3. f \in Seq(F \cup T) /\ t \in Seq(F \cup T)
    BY <2>1, <2>2
  <2>4. QED
    BY <2>3
<1>2. Len(f) \in Nat /\ Len(data) \in Nat \ {0} /\ Len(t) = Len(data) + 1
  BY OneCell, Concatenated
<1> HIDE DEF t
<1>3. SubSeq(f \o t, Len(f) + 1, Len(f) + Len(t)) = t
  <2>1. SubSeq(f \o t, Len(f) + 1, Len(f) + Len(t)) = SubSeq(t, 1, Len(t))
    <3>1. Len(f) + 1 \in Len(f) + 1..Len(f) + Len(t)
          /\ Len(f) + Len(t) \in Len(f) + 1..Len(f) + Len(t)
          /\ Len(f) + 1 - Len(f) = 1 /\ Len(f) + Len(t) - Len(f) = Len(t)
      BY <1>2
    <3> DEFINE m == Len(f) + 1
               n == Len(f) + Len(t)
    <3>2. SubSeq(f \o t, m, n) = SubSeq(t, m - Len(f), n - Len(f))
      <4>1. m \in Len(f) + 1..Len(f) + Len(t) /\ n \in Len(f) + 1..Len(f) + Len(t)
        BY <3>1
      <4> HIDE DEF m, n
      <4>2. QED
        BY <1>1, <4>1, SubSeqOfConcat2
    <3>3. QED
      BY <3>1, <3>2
  <2>2. QED
    BY <1>1, <2>1, SubSeqFull
<1>4. Len(f \o t) = Len(f) + Len(t)
  BY <1>1
<1>5. h \in Handles /\ h.offset = Len(f) /\ h.size = Len(data)
  BY <1>2 DEF Handles
<1>6. h.offset + h.size + 1 = Len(f) + Len(t)
  BY <1>2, <1>5
<1>7. QED
  BY <1>2, <1>3, <1>4, <1>5, <1>6 DEF Stored, t

\* Reading a block gives back the entries it was made of.
LEMMA StoredRead ==
  ASSUME NEW h, NEW b, IsSeq(b), Stored(file, h, Raw(b))
  PROVE  EntriesAt(h) = b
<1> DEFINE data == Raw(b)
           last == Trailer(data, kNoCompression)
           cells == data \o <<last>>
<1>1. /\ IsSeq(data) /\ Len(data) = Len(b) + 1 /\ Len(b) \in Nat
      /\ IsSeq(cells) /\ Len(cells) = Len(data) + 1
  BY OneCell, Concatenated DEF Raw
<1>2. PICK S : b \in Seq(S) /\ data \in Seq(S) /\ <<last>> \in Seq(S)
               /\ <<[kind |-> "restarts"]>> \in Seq(S)
  <2>1. PICK T : b \in Seq(T)
    BY DEF IsSeq
  <2> DEFINE R == T \cup {[kind |-> "restarts"], last}
  <2>2. /\ b \in Seq(R) /\ <<[kind |-> "restarts"]>> \in Seq(R) /\ <<last>> \in Seq(R)
    BY <2>1
  <2>3. data \in Seq(R)
    <3> HIDE DEF R, last
    <3>1. QED
      BY <2>2 DEF Raw
  <2> HIDE DEF R, last, data
  <2>4. QED
    BY <2>2, <2>3
<1>3. /\ SubSeq(file, h.offset + 1, h.offset + h.size + 1) = cells
      /\ h.size = Len(data)
  BY DEF Stored
<1>4. "crc" \in DOMAIN last /\ last.crc = data /\ last.type = kNoCompression
  BY DEF Trailer
<1> HIDE DEF last
<1>5. cells[Len(data) + 1] = last
  BY <1>1, <1>2
<1>6. SubSeq(cells, 1, Len(data)) = data
  <2>1. SubSeq(cells, 1, Len(data)) = SubSeq(data, 1, Len(data))
    <3>1. 1 \in 1..Len(data) /\ Len(data) \in 1..Len(data)
      BY <1>1
    <3> HIDE DEF data
    <3>2. QED
      BY <1>2, <3>1, SubSeqOfConcat1
  <2>2. QED
    BY <1>2, <2>1, SubSeqFull
<1>7. SubSeq(data, 1, Len(data) - 1) = b
  <2>1. Len(data) - 1 = Len(b)
    BY <1>1
  <2>2. CASE Len(b) = 0
    <3>1. b = << >> /\ SubSeq(data, 1, 0) = << >>
      BY <1>2, <2>2, SubSeqEmpty
    <3>2. QED
      BY <2>1, <2>2, <3>1
  <2>3. CASE Len(b) # 0
    <3>1. 1 \in 1..Len(b) /\ Len(b) \in 1..Len(b)
      BY <1>1, <2>3
    <3>2. SubSeq(data, 1, Len(b)) = SubSeq(b, 1, Len(b))
      BY <1>2, <3>1, SubSeqOfConcat1 DEF Raw
    <3>3. QED
      BY <1>2, <2>1, <3>2, SubSeqFull
  <2>4. QED
    BY <2>2, <2>3
<1>8. ReadBlock(file, h).data = data
  <2> HIDE DEF data
  <2>1. QED
    BY <1>1, <1>3, <1>4, <1>5, <1>6 DEF ReadBlock
<1>9. QED
  <2> HIDE DEF data
  <2>1. QED
    BY <1>7, <1>8 DEF EntriesAt, Front

-----------------------------------------------------------------------------
(* The index: each entry of the table is in the block that the first index *)
(* entry not before its key names, or in the block being filled.           *)

Entries == [key : Keys, value : Nat]

IndexEntries == [key : Keys, value : Handles]

LEMMA EntryKey ==
  ASSUME NEW a \in Seq(Entries), NEW m \in 1..Len(a)
  PROVE  a[m] \in Entries /\ a[m].key \in Keys /\ a[m].key \in Int
<1>1. a[m] \in Entries
  OBVIOUS
<1>2. QED
  BY <1>1, ConstantsAssumption DEF Entries

LEMMA IndexKey ==
  ASSUME NEW ix \in Seq(IndexEntries), NEW n \in 1..Len(ix)
  PROVE  ix[n] \in IndexEntries /\ ix[n].key \in Keys /\ ix[n].key \in Int
<1>1. ix[n] \in IndexEntries
  OBVIOUS
<1>2. QED
  BY <1>1, ConstantsAssumption DEF IndexEntries

\* The index a reader of the builder r goes by, while Finish has not written it.
IndexOf(r) ==
  IF r.pending_index_entry
    THEN Append(r.index_block, [key |-> r.last_key, value |-> r.pending_handle])
    ELSE r.index_block

\* The n-th entry of the index ix leads to the m-th entry of a, and is the first
\* one to do so.
Leads(f, a, ix, n, m) ==
  /\ \E b \in Seq(Entries) :
       Stored(f, ix[n].value, Raw(b)) /\ \E i \in 1..Len(b) : b[i] = a[m]
  /\ a[m].key <= ix[n].key
  /\ \A p \in 1..n - 1 : ix[p].key < a[m].key

Covers(f, a, ix, count) == \A m \in 1..count : \E n \in 1..Len(ix) : Leads(f, a, ix, n, m)

Sorted(a) == \A i, j \in 1..Len(a) : i < j => a[i].key < a[j].key

\* How many of the entries a the builder has put into blocks of the file.
Flushed(r, a) == Len(a) - Len(r.data_block)

DataOK(r, a) ==
  /\ Len(r.data_block) <= Len(a)
  /\ \A i \in 1..Len(r.data_block) : r.data_block[i] = a[Flushed(r, a) + i]

\* The index entries lie before what is still to come.
IndexOK(r, a) ==
  \A n \in 1..Len(r.index_block) :
    /\ a # << >> /\ r.index_block[n].key <= r.last_key
    /\ \A m \in Flushed(r, a) + 1..Len(a) : r.index_block[n].key < a[m].key

\* No entry is behind the last key, and an entry pends for something only.
LastOK(r, a) ==
  /\ a # << >> => r.last_key \in Keys /\ a[Len(a)].key <= r.last_key
  /\ r.pending_index_entry => a # << >>

Good(r, f, a) ==
  /\ a \in Seq(Entries) /\ Sorted(a) /\ DataOK(r, a)
  /\ Covers(f, a, IndexOf(r), Flushed(r, a))
  /\ IndexOK(r, a) /\ LastOK(r, a)

\* The blocks of f are in g as well.
Keeps(f, g) == \A h, data : Stored(f, h, data) => Stored(g, h, data)

LEMMA CoversKept ==
  ASSUME NEW f, NEW g, Keeps(f, g), NEW a, NEW ix, NEW count, Covers(f, a, ix, count)
  PROVE  Covers(g, a, ix, count)
<1>1. ASSUME NEW n, NEW m, Leads(f, a, ix, n, m) PROVE Leads(g, a, ix, n, m)
  BY <1>1 DEF Leads, Keeps
<1>2. QED
  BY <1>1 DEF Covers

\* Builders that differ in their status, offset, options or filter are alike.
LEMMA GoodKept ==
  ASSUME NEW f, NEW g, Keeps(f, g), NEW a, NEW r, Good(r, f, a), NEW q,
         q.data_block = r.data_block, q.index_block = r.index_block,
         q.last_key = r.last_key, q.pending_index_entry = r.pending_index_entry,
         q.pending_handle = r.pending_handle
  PROVE  Good(q, g, a)
<1>1. IndexOf(q) = IndexOf(r) /\ Flushed(q, a) = Flushed(r, a)
  BY DEF IndexOf, Flushed
<1>2. Covers(g, a, IndexOf(q), Flushed(q, a))
  BY <1>1, CoversKept DEF Good
<1>3. QED
  BY <1>1, <1>2 DEF Good, DataOK, IndexOK, LastOK

LEMMA IndexType == ASSUME NEW r, BuilderOK(r) PROVE IndexOf(r) \in Seq(IndexEntries)
<1>1. IsRep(r) /\ r.index_block \in Seq(IndexEntries)
  BY DEF BuilderOK, IsRep, IndexEntries
<1>2. CASE r.pending_index_entry
  <2>1. [key |-> r.last_key, value |-> r.pending_handle] \in IndexEntries
    BY <1>2 DEF BuilderOK, IndexEntries
  <2>2. QED
    BY <1>1, <1>2, <2>1 DEF IndexOf
<1>3. QED
  BY <1>1, <1>2 DEF IndexOf

\* A separator takes the place of the last key.
LEMMA IndexEntryGood ==
  ASSUME NEW r, BuilderOK(r), r.pending_index_entry, NEW f, NEW a, Good(r, f, a), a # << >>,
         NEW s \in Keys, r.last_key <= s, NEW q, q = WithIndexEntry(r, s)
  PROVE  Good(q, f, a) /\ q.last_key = s /\ q.options = r.options /\ q.data_block = << >>
         /\ q.index_block \in Seq(IndexEntries) /\ ~q.pending_index_entry
<1> DEFINE e == [key |-> s, value |-> r.pending_handle]
           last == [key |-> r.last_key, value |-> r.pending_handle]
           index == Append(r.index_block, e)
           old == Append(r.index_block, last)
           k == Len(r.index_block)
<1>1. /\ IsRep(r) /\ r.data_block = << >> /\ r.pending_handle \in Handles
      /\ r.last_key \in Keys /\ r.index_block \in Seq(IndexEntries) /\ a \in Seq(Entries)
  BY DEF BuilderOK, IsRep, IndexEntries, Good
<1>2. /\ index \in Seq(IndexEntries) /\ Len(index) = k + 1 /\ index[k + 1] = e
      /\ \A n \in 1..k : index[n] = r.index_block[n]
      /\ Len(old) = k + 1 /\ old[k + 1] = last
      /\ \A n \in 1..k : old[n] = r.index_block[n]
      /\ k \in Nat /\ IndexOf(r) = old
  <2>1. e \in IndexEntries /\ last \in IndexEntries
    BY <1>1 DEF IndexEntries
  <2>2. IndexOf(r) = old
    BY DEF IndexOf
  <2> HIDE DEF e, last
  <2>3. QED
    BY <1>1, <2>1, <2>2
<1>3. q = [r EXCEPT !.last_key = s, !.index_block = index, !.pending_index_entry = FALSE]
  BY DEF WithIndexEntry
<1> HIDE DEF index, old
<1>4. /\ q.data_block = << >> /\ q.index_block = index /\ q.last_key = s
      /\ q.pending_index_entry = FALSE /\ q.options = r.options
  BY <1>1, <1>3 DEF IsRep
<1>5. IndexOf(q) = index /\ Flushed(q, a) = Len(a) /\ Flushed(r, a) = Len(a)
      /\ Len(q.data_block) = 0 /\ Len(a) \in 1..Len(a) /\ Len(a) + 1 > Len(a)
  BY <1>1, <1>4 DEF IndexOf, Flushed
<1>6. Covers(f, a, index, Len(a))
  <2> SUFFICES ASSUME NEW m \in 1..Len(a) PROVE \E n \in 1..Len(index) : Leads(f, a, index, n, m)
    BY DEF Covers
  <2>1. PICK n \in 1..k + 1 : Leads(f, a, old, n, m)
    BY <1>2, <1>5 DEF Good, Covers
  <2>2. index[n].value = old[n].value
    BY <1>2
  <2>3. \A p \in 1..n - 1 : index[p] = old[p]
    BY <1>2
  <2>4. a[m].key <= index[n].key
    <3>1. a[m].key \in Int /\ r.last_key \in Int /\ s \in Int
      BY <1>1, EntryKey, ConstantsAssumption
    <3>2. CASE n = k + 1
      <4>1. old[n].key = r.last_key /\ index[n].key = s
        BY <1>2, <3>2
      <4>2. a[m].key <= old[n].key
        BY <2>1 DEF Leads
      <4>3. QED
        BY <3>1, <4>1, <4>2
    <3>3. CASE n # k + 1
      <4>1. index[n] = old[n]
        BY <1>2, <3>3
      <4>2. QED
        BY <2>1, <4>1 DEF Leads
    <3>4. QED
      BY <3>2, <3>3
  <2>5. Leads(f, a, index, n, m)
    BY <2>1, <2>2, <2>3, <2>4 DEF Leads
  <2>6. QED
    BY <1>2, <2>5
<1>7. IndexOK(q, a)
  <2> SUFFICES ASSUME NEW n \in 1..k + 1 PROVE index[n].key <= s
    BY <1>2, <1>4, <1>5 DEF IndexOK
  <2>1. CASE n = k + 1
    BY <1>2, <2>1, ConstantsAssumption
  <2>2. CASE n # k + 1
    <3>1. index[n] = r.index_block[n] /\ n \in 1..k /\ index[n].key \in Keys
      BY <1>1, <1>2, <2>2, IndexKey
    <3>2. index[n].key <= r.last_key
      BY <3>1 DEF Good, IndexOK
    <3>3. index[n].key \in Int /\ r.last_key \in Int /\ s \in Int
      BY <1>1, <3>1, ConstantsAssumption
    <3>4. QED
      BY <3>2, <3>3
  <2>3. QED
    BY <2>1, <2>2
<1>8. LastOK(q, a)
  <2>1. a[Len(a)].key <= r.last_key
    BY DEF Good, LastOK
  <2>2. a[Len(a)].key \in Int /\ r.last_key \in Int /\ s \in Int
    BY <1>1, <1>5, EntryKey, ConstantsAssumption
  <2>3. a[Len(a)].key <= s
    BY <2>1, <2>2
  <2>4. QED
    BY <1>4, <2>3 DEF LastOK
<1>9. DataOK(q, a)
  BY <1>4, <1>5 DEF DataOK
<1>10. QED
  BY <1>2, <1>4, <1>5, <1>6, <1>7, <1>8, <1>9 DEF Good

LEMMA Appended ==
  ASSUME NEW S, NEW s \in Seq(S), NEW x \in S, NEW t, t = Append(s, x)
  PROVE  /\ t \in Seq(S) /\ Len(s) \in Nat /\ Len(t) = Len(s) + 1 /\ t[Len(s) + 1] = x
         /\ \A i \in 1..Len(s) : t[i] = s[i]
         /\ t # << >>
OBVIOUS

\* An entry behind the last key goes into the data block.
LEMMA EntryGood ==
  ASSUME NEW r, BuilderOK(r), ~r.pending_index_entry, NEW f, NEW a, Good(r, f, a),
         NEW e \in Entries, a # << >> => r.last_key < e.key, NEW q, q = WithEntry(r, e)
  PROVE  Good(q, f, Append(a, e)) /\ q.options = r.options
         /\ q.index_block = r.index_block /\ q.data_block # << >>
<1> DEFINE b == AddKey(r, e.key)
           data == Append(r.data_block, e)
           z == Append(a, e)
           d == Len(r.data_block)
<1>1. /\ IsRep(r) /\ r.data_block \in Seq(Entries) /\ r.index_block \in Seq(IndexEntries)
      /\ a \in Seq(Entries) /\ e.key \in Keys /\ e.key \in Int /\ d \in Nat /\ Len(a) \in Nat
      /\ d <= Len(a)
  BY ConstantsAssumption DEF BuilderOK, IsRep, Entries, IndexEntries, Good, DataOK
<1>2. /\ IsRep(b) /\ b.data_block = r.data_block /\ b.index_block = r.index_block
      /\ b.pending_index_entry = r.pending_index_entry /\ b.options = r.options
      /\ b.pending_handle = r.pending_handle
  BY <1>1, FilterOnly
<1> HIDE DEF b
<1>3. /\ data \in Seq(Entries) /\ Len(data) = d + 1 /\ data[d + 1] = e
      /\ \A i \in 1..d : data[i] = r.data_block[i]
      /\ z \in Seq(Entries) /\ Len(z) = Len(a) + 1 /\ z[Len(a) + 1] = e
      /\ \A i \in 1..Len(a) : z[i] = a[i]
      /\ z # << >> /\ data # << >>
  <2>1. /\ data \in Seq(Entries) /\ Len(data) = d + 1 /\ data[d + 1] = e
        /\ \A i \in 1..d : data[i] = r.data_block[i]
        /\ data # << >>
    <3>1. data = Append(r.data_block, e)
      OBVIOUS
    <3> HIDE DEF data
    <3>2. QED
      BY <1>1, <3>1, Appended
  <2>2. /\ z \in Seq(Entries) /\ Len(z) = Len(a) + 1 /\ z[Len(a) + 1] = e
        /\ \A i \in 1..Len(a) : z[i] = a[i]
        /\ z # << >>
    <3>1. z = Append(a, e)
      OBVIOUS
    <3> HIDE DEF z
    <3>2. QED
      BY <1>1, <3>1, Appended
  <2> HIDE DEF data, z
  <2>3. QED
    BY <2>1, <2>2
<1>4. q = [b EXCEPT !.last_key = e.key, !.data_block = data]
  BY <1>2 DEF WithEntry, b
<1> HIDE DEF data, z
<1>5. /\ q.data_block = data /\ q.index_block = r.index_block /\ q.last_key = e.key
      /\ q.pending_index_entry = r.pending_index_entry /\ q.options = r.options
      /\ q.pending_handle = r.pending_handle
  BY <1>2, <1>4 DEF IsRep
<1>6. /\ IndexOf(q) = r.index_block /\ IndexOf(r) = r.index_block
      /\ Flushed(q, z) = Len(a) - d /\ Flushed(r, a) = Len(a) - d
  <2>1. IndexOf(q) = r.index_block /\ IndexOf(r) = r.index_block
    BY <1>5 DEF IndexOf
  <2>2. Flushed(q, z) = Len(z) - Len(data) /\ Flushed(r, a) = Len(a) - d
    BY <1>5 DEF Flushed
  <2>3. \A x, y \in Nat : (x + 1) - (y + 1) = x - y
    OBVIOUS
  <2>4. Len(z) - Len(data) = Len(a) - d
    BY <1>1, <1>3, <2>3
  <2>5. QED
    BY <2>1, <2>2, <2>4
<1>7. \A i \in 1..Len(a) : a[i].key \in Int /\ a[i].key < e.key
  <2> SUFFICES ASSUME NEW i \in 1..Len(a) PROVE a[i].key \in Int /\ a[i].key < e.key
    OBVIOUS
  <2>1. Len(a) \in 1..Len(a) /\ a # << >>
    BY <1>1
  <2>2. r.last_key \in Int /\ a[Len(a)].key <= r.last_key /\ r.last_key < e.key
    BY <2>1, ConstantsAssumption DEF Good, LastOK
  <2>3. a[i].key \in Int /\ a[Len(a)].key \in Int
    BY <1>1, <2>1, EntryKey
  <2>4. i = Len(a) \/ a[i].key < a[Len(a)].key
    BY <1>1, <2>1 DEF Good, Sorted
  <2>5. QED
    BY <1>1, <2>2, <2>3, <2>4
<1>8. Sorted(z)
  <2> SUFFICES ASSUME NEW i \in 1..Len(a) + 1, NEW j \in 1..Len(a) + 1, i < j
               PROVE  z[i].key < z[j].key
    BY <1>3 DEF Sorted
  <2>1. i \in 1..Len(a) /\ z[i] = a[i]
    BY <1>1, <1>3
  <2>2. CASE j = Len(a) + 1
    BY <1>3, <1>7, <2>1, <2>2
  <2>3. CASE j # Len(a) + 1
    <3>1. j \in 1..Len(a) /\ z[j] = a[j]
      BY <1>1, <1>3, <2>3
    <3>2. QED
      BY <2>1, <3>1 DEF Good, Sorted
  <2>4. QED
    BY <2>2, <2>3
<1>9. DataOK(q, z)
  <2> SUFFICES ASSUME NEW i \in 1..d + 1 PROVE data[i] = z[Len(a) - d + i]
    <3>1. Len(data) <= Len(z)
      <4>1. \A x, y \in Nat : y <= x => y + 1 <= x + 1
        OBVIOUS
      <4>2. QED
        BY <1>1, <1>3, <4>1
    <3> HIDE DEF d
    <3>2. \A i \in 1..Len(data) : data[i] = z[Flushed(q, z) + i]
      BY <1>3, <1>6
    <3>3. QED
      BY <1>5, <3>1, <3>2 DEF DataOK
  <2>1. CASE i = d + 1
    <3>1. Len(a) - d + i = Len(a) + 1
      <4>1. \A x, y \in Nat : x - y + (y + 1) = x + 1
        OBVIOUS
      <4> HIDE DEF d
      <4>2. QED
        BY <1>1, <2>1, <4>1
    <3>2. QED
      BY <1>3, <2>1, <3>1
  <2>2. CASE i # d + 1
    <3>1. i \in 1..d /\ Len(a) - d + i \in 1..Len(a)
      <4>1. \A x, y \in Nat : \A j \in 1..y : y <= x => x - y + j \in 1..x
        OBVIOUS
      <4>2. i \in 1..d
        BY <1>1, <2>2
      <4> HIDE DEF d
      <4>3. QED
        BY <1>1, <4>1, <4>2
    <3>2. r.data_block[i] = a[Len(a) - d + i]
      BY <1>6, <3>1 DEF Good, DataOK
    <3>3. QED
      BY <1>3, <3>1, <3>2
  <2>3. QED
    BY <2>1, <2>2
<1>10. Covers(f, z, r.index_block, Len(a) - d)
  <2> SUFFICES ASSUME NEW m \in 1..Len(a) - d
               PROVE  \E n \in 1..Len(r.index_block) : Leads(f, z, r.index_block, n, m)
    BY DEF Covers
  <2>1. PICK n \in 1..Len(r.index_block) : Leads(f, a, r.index_block, n, m)
    BY <1>6 DEF Good, Covers
  <2>2. z[m] = a[m]
    BY <1>1, <1>3
  <2>3. QED
    BY <2>1, <2>2 DEF Leads
<1>11. IndexOK(q, z)
  <2> SUFFICES ASSUME NEW n \in 1..Len(r.index_block)
               PROVE  /\ r.index_block[n].key <= e.key
                      /\ \A m \in Len(a) - d + 1..Len(a) + 1 : r.index_block[n].key < z[m].key
    BY <1>3, <1>5, <1>6 DEF IndexOK
  <2>1. a # << >> /\ r.index_block[n].key <= r.last_key
        /\ \A m \in Len(a) - d + 1..Len(a) : r.index_block[n].key < a[m].key
    BY <1>6 DEF Good, IndexOK
  <2>2. r.last_key \in Int /\ r.last_key < e.key /\ r.index_block[n].key \in Int
    BY <1>1, <2>1, IndexKey, ConstantsAssumption DEF Good, LastOK
  <2>3. r.index_block[n].key < e.key
    BY <1>1, <2>1, <2>2
  <2>4. ASSUME NEW m \in Len(a) - d + 1..Len(a) + 1 PROVE r.index_block[n].key < z[m].key
    <3>1. CASE m = Len(a) + 1
      BY <1>3, <2>3, <3>1
    <3>2. CASE m # Len(a) + 1
      <4>1. m \in Len(a) - d + 1..Len(a) /\ m \in 1..Len(a)
        BY <1>1, <3>2
      <4>2. QED
        BY <1>3, <2>1, <4>1
    <3>3. QED
      BY <3>1, <3>2
  <2>5. QED
    BY <1>1, <2>2, <2>3, <2>4
<1>12. LastOK(q, z)
  BY <1>1, <1>3, <1>5 DEF LastOK
<1>13. QED
  BY <1>3, <1>5, <1>6, <1>8, <1>9, <1>10, <1>11, <1>12 DEF Good, z

\* A data block that is in the file, with its entry pending, is covered.
LEMMA FlushedGood ==
  ASSUME NEW r, BuilderOK(r), ~r.pending_index_entry, NEW f, NEW g, Keeps(f, g),
         NEW a, Good(r, f, a), a # << >>,
         NEW h \in Handles, Stored(g, h, Raw(r.data_block)),
         NEW q, q.data_block = << >>, q.index_block = r.index_block,
         q.last_key = r.last_key, q.pending_index_entry, q.pending_handle = h
  PROVE  Good(q, g, a)
<1> DEFINE last == [key |-> r.last_key, value |-> h]
           index == Append(r.index_block, last)
           k == Len(r.index_block)
           d == Len(r.data_block)
           n0 == Len(a)
<1>1. /\ r.data_block \in Seq(Entries) /\ r.index_block \in Seq(IndexEntries)
      /\ a \in Seq(Entries) /\ d \in Nat /\ n0 \in Nat \ {0} /\ d <= n0
      /\ r.last_key \in Keys /\ r.last_key \in Int
  BY ConstantsAssumption DEF BuilderOK, IsRep, Entries, IndexEntries, Good, DataOK, LastOK
<1>2. /\ index \in Seq(IndexEntries) /\ Len(index) = k + 1 /\ index[k + 1] = last
      /\ \A n \in 1..k : index[n] = r.index_block[n]
      /\ k \in Nat
  <2>1. last \in IndexEntries
    BY <1>1 DEF IndexEntries
  <2> HIDE DEF last
  <2>2. QED
    BY <1>1, <2>1, Appended
<1>3. IndexOf(q) = index /\ IndexOf(r) = r.index_block
  BY DEF IndexOf
<1>4. Flushed(q, a) = n0 /\ Flushed(r, a) = n0 - d /\ Len(q.data_block) = 0
  BY <1>1 DEF Flushed
<1>5. last.key = r.last_key /\ last.value = h
  OBVIOUS
<1> HIDE DEF index, last
<1>6. Covers(g, a, index, n0)
  <2> SUFFICES ASSUME NEW m \in 1..n0 PROVE \E n \in 1..k + 1 : Leads(g, a, index, n, m)
    BY <1>2 DEF Covers
  <2>1. CASE m <= n0 - d
    <3>1. m \in 1..n0 - d
      BY <1>1, <2>1
    <3>2. PICK n \in 1..k : Leads(f, a, r.index_block, n, m)
      BY <1>3, <1>4, <3>1 DEF Good, Covers
    <3>3. index[n] = r.index_block[n] /\ \A p \in 1..n - 1 : index[p] = r.index_block[p]
      BY <1>2
    <3>4. Leads(g, a, index, n, m)
      BY <3>2, <3>3 DEF Leads, Keeps
    <3>5. n \in 1..k + 1
      BY <1>2
    <3>6. QED
      BY <3>4, <3>5
  <2>2. CASE ~(m <= n0 - d)
    <3>1. m - (n0 - d) \in 1..d /\ (n0 - d) + (m - (n0 - d)) = m /\ m \in n0 - d + 1..n0
      <4>1. \A x, y, i \in Nat : y <= x /\ i <= x /\ ~(i <= x - y) =>
              /\ i - (x - y) \in 1..y /\ (x - y) + (i - (x - y)) = i
              /\ i \in x - y + 1..x
        OBVIOUS
      <4>2. m \in Nat /\ m <= n0
        BY <1>1
      <4> HIDE DEF d, n0
      <4>3. QED
        BY <1>1, <2>2, <4>1, <4>2
    <3>2. r.data_block[m - (n0 - d)] = a[m]
      BY <1>4, <3>1 DEF Good, DataOK
    <3>3. \E i \in 1..d : r.data_block[i] = a[m]
      BY <3>1, <3>2
    <3>4. a[m].key <= r.last_key
      <4>1. a[m].key \in Int /\ a[n0].key \in Int /\ n0 \in 1..n0
        BY <1>1, EntryKey
      <4>2. m = n0 \/ a[m].key < a[n0].key
        BY <1>1, <4>1 DEF Good, Sorted
      <4>3. a[n0].key <= r.last_key
        BY DEF Good, LastOK
      <4>4. QED
        BY <1>1, <4>1, <4>2, <4>3
    <3>5. \A p \in 1..k : r.index_block[p].key < a[m].key
      BY <1>4, <3>1 DEF Good, IndexOK
    <3>6. \A p \in 1..(k + 1) - 1 : index[p].key < a[m].key
      BY <1>2, <3>5
    <3>7. Leads(g, a, index, k + 1, m)
      BY <1>1, <1>2, <1>5, <3>3, <3>4, <3>6 DEF Leads
    <3>8. QED
      BY <1>2, <3>7
  <2>3. QED
    BY <2>1, <2>2
<1>7. IndexOK(q, a)
  BY <1>1, <1>4 DEF IndexOK, Good
<1>8. DataOK(q, a)
  BY <1>1, <1>4 DEF DataOK
<1>9. LastOK(q, a)
  BY DEF Good, LastOK
<1>10. QED
  BY <1>3, <1>4, <1>6, <1>7, <1>8, <1>9 DEF Good

\* A block that is written whole is in the file, with what was there before.
LEMMA WrittenWhole ==
  ASSUME NEW r, r.offset = Len(file), IsSeq(file), NEW data, IsSeq(data), Len(data) # 0,
         NEW w \in Outcomes(data), w.ok, Written(data, kNoCompression, w)
  PROVE  /\ Handle(r, data) \in Handles /\ Stored(file', Handle(r, data), data)
         /\ Keeps(file, file')
<1> DEFINE cells == data \o <<Trailer(data, kNoCompression)>>
<1>1. IsSeq(cells) /\ Len(cells) = Len(data) + 1 /\ Len(data) \in Nat /\ Len(file) \in Nat
  BY OneCell, Concatenated
<1>2. Handle(r, data) = [offset |-> Len(file), size |-> Len(data)]
  BY DEF Handle
<1>3. Handle(r, data) \in Handles
  BY <1>1, <1>2 DEF Handles
<1>4. file' = file \o cells
  <2>1. w.reach = Len(data) + 1
    BY DEF Outcomes
  <2>2. SubSeq(cells, 1, Len(cells)) = cells
    <3>1. PICK S : cells \in Seq(S)
      BY <1>1 DEF IsSeq
    <3> HIDE DEF cells
    <3>2. QED
      BY <3>1, SubSeqFull
  <2>3. QED
    BY <1>1, <2>1, <2>2 DEF Written
<1>5. Stored(file', Handle(r, data), data)
  BY <1>2, <1>4, StoredNew
<1>6. Keeps(file, file')
  <2> HIDE DEF cells
  <2>1. QED
    BY <1>1, <1>4, StoredKept DEF Keeps
<1>7. QED
  BY <1>3, <1>5, <1>6

\* A Flush that meets no error puts the data block into the file, and the pending
\* index entry leads to it.
LEMMA FlushGood ==
  ASSUME NEW r, BuilderOK(r), OffsetOK(r), r.options.compression = kNoCompression,
         NEW a, Good(r, file, a), FlushOf(r), rep'.status = OK
  PROVE  Good(rep', file', a) /\ rep'.data_block = << >> /\ Keeps(file, file')
         /\ rep'.options = r.options
<1>1. CASE ~Flushes(r)
  <2>1. rep' = r /\ file' = file /\ r.data_block = << >>
    BY <1>1 DEF FlushOf, Flushes
  <2>2. QED
    BY <2>1 DEF Keeps
<1>2. CASE Flushes(r)
  <2> DEFINE data == Raw(r.data_block)
             h == Handle(r, data)
  <2>1. /\ r.status = OK /\ r.last_key \in Keys /\ IsRep(r) /\ r.offset = Len(file)
        /\ IsSeq(file) /\ ~r.pending_index_entry /\ r.data_block # << >>
        /\ r.data_block \in Seq(Entries)
    BY <1>2 DEF Flushes, BuilderOK, OffsetOK, IsRep, Entries
  <2>2. IsSeq(data) /\ Len(data) \in Nat \ {0}
    BY <2>1, RawLength DEF IsSeq
  <2>3. PICK w \in Outcomes(data), s \in {OK, IOError} :
          rep' = AfterFlush(r, w, s) /\ Written(data, kNoCompression, w)
    BY <1>2 DEF FlushOf
  <2> DEFINE b0 == AfterWrite(r, data, w)
             b == WriteBlock(r, w)
             p == [b EXCEPT !.pending_index_entry = TRUE, !.status = s]
  <2>4. IsRep(b0) /\ w.ok \in BOOLEAN /\ b0.last_key = r.last_key
        /\ b0.index_block = r.index_block /\ b0.options = r.options
    BY <2>1, <2>2, <2>3, WriteExact
  <2>5. b0.status = IF w.ok THEN OK ELSE IOError
    BY <2>1 DEF AfterWrite, IsRep
  <2>6. h \in Handles
    BY <2>1, <2>2 DEF Handle, Handles, IsRep
  <2>7. b = [b0 EXCEPT !.data_block = << >>, !.pending_handle = h]
    BY DEF WriteBlock
  <2>8. AfterFlush(r, w, s) = StartBlock(IF w.ok THEN p ELSE b)
    BY DEF AfterFlush
  <2> HIDE DEF b0, data, b, h
  <2>9. /\ IsRep(b) /\ b.data_block = << >> /\ b.pending_handle = h /\ b.status = b0.status
        /\ b.last_key = r.last_key /\ b.index_block = r.index_block /\ b.options = r.options
    <3>1. << >> \in Seq([key : Keys, value : Nat])
      OBVIOUS
    <3>2. IsRep(b)
      BY <2>4, <2>6, <2>7, <3>1 DEF IsRep
    <3>3. QED
      BY <2>4, <2>7, <3>2 DEF IsRep
  <2>10. w.ok
    <3> SUFFICES ASSUME ~w.ok PROVE FALSE
      BY <2>4
    <3>1. rep' = StartBlock(b) /\ b.status = IOError
      BY <2>3, <2>5, <2>8, <2>9
    <3>2. rep'.status = IOError
      BY <2>9, <3>1, FilterOnly
    <3>3. QED
      BY <3>2, ConstantsAssumption
  <2>11. /\ IsRep(p) /\ p.data_block = << >> /\ p.pending_handle = h
         /\ p.last_key = r.last_key /\ p.index_block = r.index_block
         /\ p.options = r.options /\ p.pending_index_entry = TRUE
    BY <2>9 DEF IsRep
  <2> HIDE DEF p
  <2>12. /\ rep'.data_block = << >> /\ rep'.pending_handle = h
         /\ rep'.last_key = r.last_key /\ rep'.index_block = r.index_block
         /\ rep'.options = r.options /\ rep'.pending_index_entry = TRUE
    BY <2>3, <2>8, <2>10, <2>11, FilterOnly
  <2>13. Stored(file', h, data) /\ Keeps(file, file')
    BY <2>1, <2>2, <2>3, <2>10, WrittenWhole DEF h
  <2>14. a # << >>
    <3>1. a \in Seq(Entries) /\ Len(r.data_block) <= Len(a)
      BY DEF Good, DataOK
    <3>2. Len(r.data_block) \in Nat \ {0}
      BY <2>1
    <3>3. QED
      BY <3>1, <3>2
  <2>15. Good(rep', file', a)
    <3>1. Stored(file', h, Raw(r.data_block))
      BY <2>13 DEF data
    <3>2. QED
      BY <2>1, <2>6, <2>12, <2>13, <2>14, <3>1, FlushedGood
  <2>16. QED
    BY <2>12, <2>13, <2>15
<1>3. QED
  BY <1>1, <1>2

Uncompressed == \A o \in OptionSets : o.compression = kNoCompression

IndexStored(ix) ==
  Stored(file, handles.index, Raw(ix)) /\ Covers(file, added, ix, Len(added))

\* What a reader finds, as long as nothing has failed.
Reach ==
  /\ DOMAIN handles = {"filter", "metaindex", "index"}
  /\ rep.status = OK =>
       IF pc = "finished" THEN \E ix \in Seq(IndexEntries) : IndexStored(ix)
       ELSE /\ Good(rep, file, added)
            /\ pc \in {"filter", "metaindex", "index"} => rep.data_block = << >>

LEMMA OptionsPlain ==
  ASSUME Uncompressed, NEW r, BuilderOK(r) PROVE r.options.compression = kNoCompression
BY DEF Uncompressed, BuilderOK, IsRep

LEMMA FlushWhenFullGood ==
  ASSUME Uncompressed, NEW r, BuilderOK(r), OffsetOK(r), NEW a, Good(r, file, a),
         FlushWhenFull(r), rep'.status = OK
  PROVE  Good(rep', file', a)
<1>1. CASE FlushOf(r)
  BY <1>1, OptionsPlain, FlushGood
<1>2. CASE rep' = r /\ UNCHANGED file
  BY <1>2
<1>3. QED
  BY <1>1, <1>2 DEF FlushWhenFull

LEMMA AddReach == ASSUME Uncompressed, Inv, Reach, NEW k \in Keys, Add(k) PROVE Reach'
<1> DEFINE e == [key |-> k, value |-> Len(added)]
<1>1. /\ e \in Entries /\ e.key = k /\ added' = Append(added, e)
      /\ UNCHANGED <<handles, pc, opened>>
      /\ BuilderOK(rep) /\ OffsetOK(rep) /\ pc = "open"
  BY DEF Add, Inv, Entries
<1> SUFFICES ASSUME rep'.status = OK PROVE Good(rep', file', added')
  BY <1>1 DEF Reach
<1>2. rep.status = OK /\ Good(rep, file, added)
  BY <1>1, AddInv DEF Frozen, Reach
<1>3. PICK r : /\ FlushWhenFull(WithEntry(r, e)) /\ BuilderOK(r) /\ ~r.pending_index_entry
               /\ r.status = rep.status /\ r.offset = rep.offset /\ Good(r, file, added)
               /\ added # << >> => r.last_key < k
  <2>1. added # << >> => rep.last_key \in Int /\ rep.last_key < k
    BY <1>2, ConstantsAssumption DEF Add, Good, LastOK
  <2>2. CASE rep.pending_index_entry
    <3>1. PICK s \in Separators(rep.last_key, k) :
            FlushWhenFull(WithEntry(WithIndexEntry(rep, s), e))
      BY <2>2 DEF Add
    <3>2. s \in Keys /\ rep.last_key <= s /\ s < k
      BY DEF Separators
    <3>3. added # << >>
      BY <1>2, <2>2 DEF Good, LastOK
    <3> DEFINE r == WithIndexEntry(rep, s)
    <3>4. BuilderOK(r) /\ ~r.pending_index_entry /\ r.status = rep.status
          /\ r.offset = rep.offset
      BY <1>1, <2>2, <3>2, IndexEntryOK
    <3>5. Good(r, file, added) /\ r.last_key = s
      BY <1>1, <1>2, <2>2, <3>2, <3>3, IndexEntryGood
    <3> HIDE DEF r
    <3>6. FlushWhenFull(WithEntry(r, e))
      BY <3>1 DEF r
    <3>7. QED
      BY <3>2, <3>4, <3>5, <3>6
  <2>3. CASE ~rep.pending_index_entry
    <3>1. FlushWhenFull(WithEntry(rep, e))
      BY <2>3 DEF Add
    <3>2. QED
      BY <1>1, <1>2, <2>1, <2>3, <3>1
  <2>4. QED
    BY <2>2, <2>3
<1> DEFINE q == WithEntry(r, e)
<1>4. BuilderOK(q) /\ q.status = rep.status /\ q.offset = rep.offset
  BY <1>1, <1>3, EntryOK DEF Entries
<1>5. OffsetOK(q)
  BY <1>1, <1>4 DEF OffsetOK
<1>6. Good(q, file, added')
  BY <1>1, <1>3, EntryGood
<1>7. FlushWhenFull(q)
  BY <1>3
<1> HIDE DEF q, e
<1>8. QED
  BY <1>4, <1>5, <1>6, <1>7, FlushWhenFullGood

LEMMA FlushReach == ASSUME Uncompressed, Inv, Reach, Flush PROVE Reach'
<1>1. /\ pc = "open" /\ FlushOf(rep) /\ UNCHANGED <<handles, pc, opened, added>>
      /\ BuilderOK(rep) /\ OffsetOK(rep)
  BY DEF Flush, Inv
<1> SUFFICES ASSUME rep'.status = OK PROVE Good(rep', file', added)
  BY <1>1 DEF Reach
<1>2. Good(rep, file, added)
  BY <1>1, FlushInv DEF Frozen, Reach
<1>3. QED
  BY <1>1, <1>2, OptionsPlain, FlushGood

\* Nothing of the builder changes but its options or that it is closed.
LEMMA SameReach ==
  ASSUME Inv, Reach, pc = "open", pc' \in {"open", "abandoned"},
         UNCHANGED <<file, handles, opened, added>>,
         \/ \E o : rep' = [rep EXCEPT !.options = o]
         \/ rep' = [rep EXCEPT !.closed = TRUE]
  PROVE  Reach'
<1>1. /\ rep'.data_block = rep.data_block /\ rep'.index_block = rep.index_block
      /\ rep'.last_key = rep.last_key /\ rep'.pending_index_entry = rep.pending_index_entry
      /\ rep'.pending_handle = rep.pending_handle /\ rep'.status = rep.status
  BY DEF Inv, BuilderOK, IsRep
<1>2. Keeps(file, file)
  BY DEF Keeps
<1>3. rep.status = OK => Good(rep', file, added)
  BY <1>1, <1>2, GoodKept DEF Reach
<1>4. QED
  BY <1>1, <1>3 DEF Reach

LEMMA FinishReach == ASSUME Uncompressed, Inv, Reach, Finish PROVE Reach'
<1> DEFINE q == [rep EXCEPT !.closed = TRUE]
<1>1. pc = "open" /\ FlushOf(q) /\ pc' = "filter" /\ UNCHANGED <<handles, opened, added>>
  BY DEF Finish
<1>2. BuilderOK(q) /\ OffsetOK(q) /\ q.status = rep.status /\ q.offset = rep.offset
  BY Closed DEF Inv
<1> SUFFICES ASSUME rep'.status = OK PROVE Good(rep', file', added) /\ rep'.data_block = << >>
  BY <1>1 DEF Reach
<1>3. Good(rep, file, added)
  BY <1>1, FinishInv DEF Frozen, Reach
<1>4. /\ q.data_block = rep.data_block /\ q.index_block = rep.index_block
      /\ q.last_key = rep.last_key /\ q.pending_index_entry = rep.pending_index_entry
      /\ q.pending_handle = rep.pending_handle
  BY DEF Inv, BuilderOK, IsRep
<1> HIDE DEF q
<1>5. Good(q, file, added)
  BY <1>3, <1>4, GoodKept DEF Keeps
<1>6. QED
  BY <1>1, <1>2, <1>5, OptionsPlain, FlushGood

\* A block of Finish that is written whole: it is where the handle says, and
\* the builder is what it was.
LEMMA FinishBlockWhole ==
  ASSUME Inv, NEW r, IsRep(r), r.status = rep.status, r.offset = rep.offset,
         NEW at \in DOMAIN handles, NEW data, IsSeq(data), Len(data) # 0, NEW then,
         FinishBlock(r, at, data, kNoCompression, then), rep'.status = OK
  PROVE  /\ rep.status = OK /\ Keeps(file, file') /\ Stored(file', handles'[at], data)
         /\ DOMAIN handles' = DOMAIN handles
         /\ rep'.data_block = r.data_block /\ rep'.index_block = r.index_block
         /\ rep'.last_key = r.last_key /\ rep'.pending_handle = r.pending_handle
         /\ rep'.pending_index_entry = r.pending_index_entry
<1>1. rep.status = OK /\ ok
  BY DEF FinishBlock, ok
<1>2. r.status = OK /\ r.offset = Len(file) /\ IsSeq(file)
  BY <1>1 DEF Inv, OffsetOK
<1>3. PICK w \in Outcomes(data) :
        /\ rep' = AfterWrite(r, data, w) /\ Written(data, kNoCompression, w)
        /\ handles' = [handles EXCEPT ![at] = Handle(r, data)]
  BY <1>1 DEF FinishBlock
<1>4. /\ rep'.data_block = r.data_block /\ rep'.index_block = r.index_block
      /\ rep'.last_key = r.last_key /\ rep'.pending_handle = r.pending_handle
      /\ rep'.pending_index_entry = r.pending_index_entry /\ w.ok \in BOOLEAN
  BY <1>2, <1>3, WriteExact
<1>5. w.ok
  <2>1. rep'.status = IF w.ok THEN OK ELSE IOError
    BY <1>3 DEF AfterWrite, IsRep
  <2>2. QED
    BY <1>4, <2>1, ConstantsAssumption
<1>6. Stored(file', Handle(r, data), data) /\ Keeps(file, file')
  BY <1>2, <1>3, <1>5, WrittenWhole
<1>7. handles'[at] = Handle(r, data) /\ DOMAIN handles' = DOMAIN handles
  BY <1>3
<1>8. QED
  BY <1>1, <1>4, <1>6, <1>7

\* The filter and metaindex blocks take nothing from a reader.
LEMMA OtherBlockReach ==
  ASSUME Inv, Reach, pc \in {"filter", "metaindex"}, NEW at \in DOMAIN handles,
         NEW data, IsSeq(data), Len(data) # 0, NEW then \in {"metaindex", "index"},
         FinishBlock(rep, at, data, kNoCompression, then)
  PROVE  Reach'
<1>1. pc' = then /\ UNCHANGED <<opened, added>> /\ IsRep(rep)
  BY DEF FinishBlock, Inv, BuilderOK
<1>2. DOMAIN handles' = DOMAIN handles
  <2>1. \/ handles' = handles
        \/ \E h : handles' = [handles EXCEPT ![at] = h]
    BY DEF FinishBlock
  <2>2. QED
    BY <2>1
<1> SUFFICES ASSUME rep'.status = OK PROVE Good(rep', file', added) /\ rep'.data_block = << >>
  BY <1>1, <1>2 DEF Reach
<1>3. /\ rep.status = OK /\ Keeps(file, file')
      /\ rep'.data_block = rep.data_block /\ rep'.index_block = rep.index_block
      /\ rep'.last_key = rep.last_key /\ rep'.pending_handle = rep.pending_handle
      /\ rep'.pending_index_entry = rep.pending_index_entry
  BY <1>1, FinishBlockWhole
<1>4. Good(rep, file, added) /\ rep.data_block = << >>
  BY <1>3 DEF Reach
<1>5. QED
  BY <1>3, <1>4, GoodKept

LEMMA FinishFilterReach == ASSUME Inv, Reach, FinishFilter PROVE Reach'
<1>1. CASE rep.filter_block = NULL
  BY <1>1 DEF FinishFilter, Reach
<1>2. CASE rep.filter_block # NULL
  <2> DEFINE data == <<[kind |-> "filter", blocks |-> rep.filter_block.blocks]>>
  <2>1. FinishBlock(rep, "filter", data, kNoCompression, "metaindex") /\ pc = "filter"
    BY <1>2 DEF FinishFilter
  <2>2. IsSeq(data) /\ Len(data) # 0
    BY OneCell
  <2> HIDE DEF data
  <2>3. "filter" \in DOMAIN handles
    BY DEF Reach
  <2>4. QED
    BY <2>1, <2>2, <2>3, OtherBlockReach
<1>3. QED
  BY <1>1, <1>2

LEMMA FinishMetaindexReach ==
  ASSUME Uncompressed, Inv, Reach, FinishMetaindex PROVE Reach'
<1> DEFINE meta == IF rep.filter_block = NULL THEN << >>
                   ELSE <<[key |-> rep.options.filter_policy, value |-> handles.filter]>>
<1>1. /\ FinishBlock(rep, "metaindex", Raw(meta), rep.options.compression, "index")
      /\ pc = "metaindex"
  BY DEF FinishMetaindex
<1>2. IsSeq(meta)
  <2>1. IsSeq(<< >>)
    BY DEF IsSeq
  <2>2. QED
    BY <2>1, OneCell
<1> HIDE DEF meta
<1>3. IsSeq(Raw(meta)) /\ Len(Raw(meta)) # 0
  BY <1>2, RawLength
<1>4. rep.options.compression = kNoCompression /\ "metaindex" \in DOMAIN handles
  BY OptionsPlain DEF Inv, Reach
<1>5. QED
  BY <1>1, <1>3, <1>4, OtherBlockReach

\* The index that is written is the one a reader went by before, the last entry
\* under a key that need not be the last one.
LEMMA FinishIndexReach == ASSUME Uncompressed, Inv, Reach, FinishIndex PROVE Reach'
<1>1. PICK r : /\ BuilderOK(r) /\ r.status = rep.status /\ r.offset = rep.offset
               /\ FinishBlock([r EXCEPT !.index_block = << >>], "index",
                              Raw(r.index_block), r.options.compression, "finished")
               /\ rep.status = OK => Covers(file, added, r.index_block, Len(added))
  <2>1. BuilderOK(rep) /\ pc = "index"
    BY DEF Inv, FinishIndex
  <2>2. rep.status = OK => Good(rep, file, added) /\ rep.data_block = << >>
    BY <2>1 DEF Reach
  <2>3. CASE LastEntry(rep)
    <3>1. PICK s \in Successors(rep.last_key) :
            LET r == WithIndexEntry(rep, s) IN
              FinishBlock([r EXCEPT !.index_block = << >>], "index",
                          Raw(r.index_block), r.options.compression, "finished")
      BY <2>3 DEF FinishIndex
    <3>2. s \in Keys /\ rep.last_key <= s /\ rep.status = OK /\ rep.pending_index_entry
      BY <2>3 DEF Successors, LastEntry
    <3> DEFINE r == WithIndexEntry(rep, s)
    <3>3. BuilderOK(r) /\ r.status = rep.status /\ r.offset = rep.offset
      BY <2>1, <3>2, IndexEntryOK
    <3>4. added # << >>
      BY <2>2, <3>2 DEF Good, LastOK
    <3>5. Good(r, file, added) /\ ~r.pending_index_entry /\ r.data_block = << >>
      BY <2>1, <2>2, <3>2, <3>4, IndexEntryGood
    <3> HIDE DEF r
    <3>6. IndexOf(r) = r.index_block /\ Flushed(r, added) = Len(added)
      BY <3>5 DEF IndexOf, Flushed, Good
    <3>7. Covers(file, added, r.index_block, Len(added))
      BY <3>5, <3>6 DEF Good
    <3>8. FinishBlock([r EXCEPT !.index_block = << >>], "index",
                      Raw(r.index_block), r.options.compression, "finished")
      BY <3>1 DEF r
    <3>9. QED
      BY <3>3, <3>7, <3>8
  <2>4. CASE ~LastEntry(rep)
    <3>1. FinishBlock([rep EXCEPT !.index_block = << >>], "index",
                      Raw(rep.index_block), rep.options.compression, "finished")
      BY <2>4 DEF FinishIndex
    <3>2. ASSUME rep.status = OK PROVE Covers(file, added, rep.index_block, Len(added))
      <4>1. IndexOf(rep) = rep.index_block
        BY <2>4, <3>2 DEF IndexOf, LastEntry
      <4>2. Flushed(rep, added) = Len(added)
        BY <2>2, <3>2 DEF Flushed, Good
      <4>3. QED
        BY <2>2, <3>2, <4>1, <4>2 DEF Good
    <3>3. QED
      BY <2>1, <3>1, <3>2
  <2>5. QED
    BY <2>3, <2>4
<1> DEFINE q == [r EXCEPT !.index_block = << >>]
           ix == r.index_block
<1>2. q.status = rep.status /\ q.offset = rep.offset
  BY <1>1 DEF BuilderOK, IsRep
<1>3. IsRep(q)
  <2>1. IsRep(r) /\ << >> \in Seq([key : Keys, value : Handles])
    BY <1>1 DEF BuilderOK
  <2>2. QED
    BY <2>1 DEF IsRep
<1>4. ix \in Seq(IndexEntries) /\ IsSeq(Raw(ix)) /\ Len(Raw(ix)) # 0
  <2>1. ix \in Seq(IndexEntries)
    BY <1>1 DEF BuilderOK, IsRep, IndexEntries
  <2>2. IsSeq(ix)
    BY <2>1 DEF IsSeq
  <2>3. QED
    BY <2>1, <2>2, RawLength
<1>5. FinishBlock(q, "index", Raw(ix), kNoCompression, "finished")
  BY <1>1, OptionsPlain
<1> HIDE DEF q, ix
<1>6. pc' = "finished" /\ UNCHANGED added
  BY <1>5 DEF FinishBlock
<1>7. DOMAIN handles' = DOMAIN handles
  <2>1. \/ handles' = handles
        \/ \E h : handles' = [handles EXCEPT !["index"] = h]
    BY <1>5 DEF FinishBlock
  <2>2. QED
    BY <2>1
<1> SUFFICES ASSUME rep'.status = OK PROVE IndexStored(ix)'
  BY <1>4, <1>6, <1>7 DEF Reach
<1>8. /\ rep.status = OK /\ Keeps(file, file') /\ Stored(file', handles'.index, Raw(ix))
  <2>1. "index" \in DOMAIN handles
    BY DEF Reach
  <2>2. rep.status = OK /\ Keeps(file, file') /\ Stored(file', handles'["index"], Raw(ix))
    BY <1>2, <1>3, <1>4, <1>5, <2>1, FinishBlockWhole
  <2>3. QED
    BY <2>2
<1>9. Covers(file, added, ix, Len(added))
  BY <1>1, <1>8 DEF ix
<1>10. QED
  BY <1>6, <1>8, <1>9, CoversKept DEF IndexStored

LEMMA InitReach == Init => Reach
<1> SUFFICES ASSUME Init PROVE Reach
  OBVIOUS
<1>1. PICK o \in OptionSets :
        rep = [options |-> o, offset |-> 0, status |-> OK,
               data_block |-> << >>, index_block |-> << >>, last_key |-> NULL,
               closed |-> FALSE, filter_block |-> NewFilter(o.filter_policy),
               pending_index_entry |-> FALSE, pending_handle |-> NULL]
  BY DEF Init
<1>2. rep.data_block = << >> /\ rep.index_block = << >> /\ rep.pending_index_entry = FALSE
  BY <1>1
<1>3. added = << >> /\ pc = "open" /\ DOMAIN handles = {"filter", "metaindex", "index"}
  BY DEF Init
<1>4. Flushed(rep, added) = 0 /\ Len(added) = 0
  BY <1>2, <1>3 DEF Flushed
<1>5. Good(rep, file, added)
  BY <1>2, <1>3, <1>4 DEF Good, Sorted, DataOK, Covers, IndexOK, LastOK
<1>6. QED
  BY <1>3, <1>5 DEF Reach

LEMMA NextReach ==
  ASSUME Uncompressed, Inv, Reach, [Next]_vars PROVE Reach'
<1>1. CASE UNCHANGED vars
  BY <1>1 DEF vars, Reach, IndexStored
<1>2. ASSUME NEW o \in OptionSets, ChangeOptions(o) PROVE Reach'
  BY <1>2, SameReach DEF ChangeOptions
<1>3. CASE Abandon
  BY <1>3, SameReach DEF Abandon
<1>4. CASE Open
  BY <1>4 DEF Open, Reach, IndexStored
<1>5. QED
  BY <1>1, <1>2, <1>3, <1>4, AddReach, FlushReach, FinishReach, FinishFilterReach,
     FinishMetaindexReach, FinishIndexReach DEF Next

\* An index that leads to every entry up to the count is searched with success.
LEMMA SoughtFound ==
  ASSUME NEW ix \in Seq(IndexEntries), Index = ix, added \in Seq(Entries), NEW count,
         Covers(file, added, ix, count), NEW m \in 1..count, m \in 1..Len(added)
  PROVE  added[m] \in ToSet(Sought(added[m].key))
<1> DEFINE k == added[m].key
           S == {n \in DOMAIN Index : Index[n].key >= k}
<1>1. PICK n \in 1..Len(ix) : Leads(file, added, ix, n, m)
  BY DEF Covers
<1>2. DOMAIN Index = 1..Len(ix) /\ k \in Int /\ \A p \in 1..Len(ix) : ix[p].key \in Int
  BY IndexKey, EntryKey
<1>3. n \in S /\ \A p \in S : n <= p
  <2>1. n \in S
    BY <1>1, <1>2 DEF Leads
  <2>2. ASSUME NEW p \in S, p < n PROVE FALSE
    <3>1. p \in 1..n - 1 /\ p \in 1..Len(ix) /\ ix[p].key >= k
      BY <1>2, <2>2
    <3>2. ix[p].key < k
      BY <1>1, <3>1 DEF Leads
    <3>3. QED
      BY <1>2, <3>1, <3>2
  <2>3. QED
    BY <1>2, <2>1, <2>2
<1>4. (CHOOSE x \in S : \A p \in S : x <= p) = n
  <2>1. \A x \in S : (\A p \in S : x <= p) => x = n
    BY <1>2, <1>3
  <2>2. QED
    BY <1>3, <2>1
<1>5. Sought(k) = EntriesAt(ix[n].value)
  BY <1>3, <1>4 DEF Sought
<1>6. PICK b \in Seq(Entries) :
        Stored(file, ix[n].value, Raw(b)) /\ \E i \in 1..Len(b) : b[i] = added[m]
  BY <1>1 DEF Leads
<1>7. EntriesAt(ix[n].value) = b
  BY <1>6, StoredRead DEF IsSeq
<1>8. QED
  BY <1>5, <1>6, <1>7 DEF ToSet

LEMMA Reached == ASSUME Inv, Reach PROVE EntriesReachable
<1> SUFFICES ASSUME ok, NEW n \in DOMAIN added
             PROVE  \/ added[n] \in ToSet(rep.data_block)
                    \/ added[n] \in ToSet(Sought(added[n].key))
  BY DEF EntriesReachable
<1>1. added \in Seq(Entries) /\ n \in 1..Len(added) /\ rep.status = OK /\ BuilderOK(rep)
  BY DEF Inv, Entries, ok
<1>2. CASE pc = "finished"
  <2>1. PICK ix \in Seq(IndexEntries) : IndexStored(ix)
    BY <1>1, <1>2 DEF Reach
  <2>2. Index = ix
    BY <1>2, <2>1, StoredRead DEF Index, IndexStored, IsSeq
  <2>3. QED
    BY <1>1, <2>1, <2>2, SoughtFound DEF IndexStored
<1>3. CASE pc # "finished"
  <2>1. Good(rep, file, added) /\ Index = IndexOf(rep) /\ IndexOf(rep) \in Seq(IndexEntries)
    BY <1>1, <1>3, IndexType DEF Reach, Index, IndexOf
  <2>2. CASE n <= Flushed(rep, added)
    <3>1. n \in 1..Flushed(rep, added)
      BY <1>1, <2>1, <2>2 DEF Flushed, Good, BuilderOK, IsRep
    <3>2. QED
      BY <1>1, <2>1, <3>1, SoughtFound DEF Good
  <2>3. CASE ~(n <= Flushed(rep, added))
    <3> DEFINE d == rep.data_block
               i == n - (Len(added) - Len(d))
    <3>1. d \in Seq(Entries) /\ Len(d) \in Nat /\ Len(d) <= Len(added) /\ Len(added) \in Nat
      BY <1>1, <2>1 DEF BuilderOK, IsRep, Entries, Good, DataOK
    <3>2. i \in 1..Len(d) /\ (Len(added) - Len(d)) + i = n
      <4>1. \A x, y, j \in Nat : y <= x /\ j <= x /\ ~(j <= x - y) =>
              j - (x - y) \in 1..y /\ (x - y) + (j - (x - y)) = j
        OBVIOUS
      <4>2. n \in Nat /\ n <= Len(added) /\ ~(n <= Len(added) - Len(d))
        BY <1>1, <2>3 DEF Flushed
      <4> HIDE DEF d
      <4>3. QED
        BY <3>1, <4>1, <4>2
    <3>3. d[i] = added[n]
      BY <2>1, <3>2 DEF Good, DataOK, Flushed
    <3> HIDE DEF i, d
    <3>4. added[n] \in ToSet(d)
      BY <3>1, <3>2, <3>3 DEF ToSet
    <3>5. QED
      BY <3>4 DEF d
  <2>4. QED
    BY <2>2, <2>3
<1>4. QED
  BY <1>2, <1>3

\* Without compression, every entry that was added is found through the index, at
\* every point of every sequence of calls that has met no error.
THEOREM EveryEntryReachable ==
  ASSUME Uncompressed PROVE Spec => []EntriesReachable
<1>1. Inv /\ Reach /\ [Next]_vars => Reach'
  BY NextReach
<1>2. Inv /\ Reach => EntriesReachable
  BY Reached
<1>3. QED
  BY <1>1, <1>2, InitReach, Invariance, PTL DEF Spec

-----------------------------------------------------------------------------
(* The filter: it has a block under the offset of each data block.         *)

FilterBlocks == [offset : Nat, keys : SUBSET Keys]

IsFilter(f) == f \in [policy : {f.policy}, blocks : Seq(FilterBlocks)] /\ f.blocks # << >>

\* The filter blocks bs know the keys of the block of the file f that h names.
Filtered(f, bs, h) ==
  \E b \in Seq(Entries) :
    /\ Stored(f, h, Raw(b))
    /\ \E j \in 1..Len(bs) : bs[j].offset = h.offset /\ \A i \in 1..Len(b) : b[i].key \in bs[j].keys

FilterGood(r, f) ==
  r.filter_block # NULL =>
    /\ IsFilter(r.filter_block)
    /\ \A n \in 1..Len(IndexOf(r)) : Filtered(f, r.filter_block.blocks, IndexOf(r)[n].value)

\* The last filter block is that of the data block.
LastGood(r) ==
  r.filter_block # NULL /\ r.status = OK =>
    LET last == Last(r.filter_block.blocks)
    IN  last.offset = r.offset /\ \A i \in 1..Len(r.data_block) : r.data_block[i].key \in last.keys

Grows(bs, cs) ==
  /\ Len(bs) <= Len(cs)
  /\ \A j \in 1..Len(bs) : cs[j].offset = bs[j].offset /\ bs[j].keys \subseteq cs[j].keys

LEMMA FilteredKept ==
  ASSUME NEW f, NEW g, Keeps(f, g), NEW bs \in Seq(FilterBlocks), NEW cs \in Seq(FilterBlocks),
         Grows(bs, cs), NEW h, Filtered(f, bs, h)
  PROVE  Filtered(g, cs, h)
<1>1. PICK b \in Seq(Entries) :
        /\ Stored(f, h, Raw(b))
        /\ \E j \in 1..Len(bs) : bs[j].offset = h.offset
                                 /\ \A i \in 1..Len(b) : b[i].key \in bs[j].keys
  BY DEF Filtered
<1>2. PICK j \in 1..Len(bs) : bs[j].offset = h.offset
                              /\ \A i \in 1..Len(b) : b[i].key \in bs[j].keys
  BY <1>1
<1>3. j \in 1..Len(cs) /\ cs[j].offset = h.offset /\ \A i \in 1..Len(b) : b[i].key \in cs[j].keys
  BY <1>2 DEF Grows
<1>4. Stored(g, h, Raw(b))
  BY <1>1 DEF Keeps
<1>5. QED
  BY <1>3, <1>4 DEF Filtered

LEMMA StartedFilter ==
  ASSUME NEW f, IsFilter(f), NEW offset \in Nat, NEW g, g = Started(f, offset)
  PROVE  /\ IsFilter(g) /\ Grows(f.blocks, g.blocks)
         /\ Last(g.blocks).offset = offset
<1> DEFINE new == [offset |-> offset, keys |-> {}]
           bs == f.blocks
           cs == Append(bs, new)
<1>1. new \in FilterBlocks
  BY DEF FilterBlocks
<1>2. bs \in Seq(FilterBlocks) /\ g = [f EXCEPT !.blocks = cs]
  BY DEF IsFilter, Started
<1> HIDE DEF new, bs
<1>3. /\ cs \in Seq(FilterBlocks) /\ Len(bs) \in Nat /\ Len(cs) = Len(bs) + 1
      /\ cs[Len(bs) + 1] = new /\ \A j \in 1..Len(bs) : cs[j] = bs[j]
      /\ cs # << >>
  BY <1>1, <1>2, Appended
<1> HIDE DEF cs
<1>4. g.blocks = cs /\ g \in [policy : {g.policy}, blocks : Seq(FilterBlocks)]
  BY <1>2, <1>3 DEF IsFilter
<1>5. Grows(bs, cs)
  BY <1>3 DEF Grows
<1>6. Last(cs).offset = offset
  BY <1>3 DEF Last, new
<1>7. QED
  BY <1>3, <1>4, <1>5, <1>6 DEF IsFilter, bs

LEMMA WithKeyFilter ==
  ASSUME NEW f, IsFilter(f), NEW k \in Keys, NEW g, g = WithKey(f, k)
  PROVE  /\ IsFilter(g) /\ Grows(f.blocks, g.blocks)
         /\ Last(g.blocks).offset = Last(f.blocks).offset
         /\ Last(g.blocks).keys = Last(f.blocks).keys \cup {k}
<1> DEFINE bs == f.blocks
           m == Len(bs)
           new == [bs[m] EXCEPT !.keys = @ \cup {k}]
           cs == [bs EXCEPT ![m] = new]
<1>1. bs \in Seq(FilterBlocks) /\ m \in 1..m /\ bs[m] \in FilterBlocks
  BY DEF IsFilter
<1>2. /\ new \in FilterBlocks /\ new.offset = bs[m].offset
      /\ new.keys = bs[m].keys \cup {k}
  BY <1>1 DEF FilterBlocks
<1>3. g = [f EXCEPT !.blocks = cs]
  BY DEF WithKey
<1> HIDE DEF bs, new
<1>4. /\ cs \in Seq(FilterBlocks) /\ Len(cs) = m /\ cs[m] = new
      /\ \A j \in 1..m : j # m => cs[j] = bs[j]
      /\ cs # << >>
  BY <1>1, <1>2
<1> HIDE DEF cs, m
<1>5. g.blocks = cs /\ g \in [policy : {g.policy}, blocks : Seq(FilterBlocks)]
  BY <1>3, <1>4 DEF IsFilter
<1>6. Grows(bs, cs)
  <2>1. Len(bs) = m /\ m <= m
    BY <1>1 DEF m
  <2>2. ASSUME NEW j \in 1..m
        PROVE  cs[j].offset = bs[j].offset /\ bs[j].keys \subseteq cs[j].keys
    BY <1>2, <1>4
  <2>3. QED
    BY <1>4, <2>1, <2>2 DEF Grows
<1>7. Last(cs) = new /\ Last(bs) = bs[m]
  BY <1>4 DEF Last, m
<1>8. QED
  BY <1>2, <1>4, <1>5, <1>6, <1>7 DEF IsFilter, bs

\* Builders that differ in neither filter nor index entries are alike.
LEMMA FilterGoodKept ==
  ASSUME NEW f, NEW g, Keeps(f, g), NEW r, FilterGood(r, f), NEW q,
         IndexOf(q) = IndexOf(r), q.filter_block = r.filter_block
  PROVE  FilterGood(q, g)
<1> SUFFICES ASSUME r.filter_block # NULL, NEW n \in 1..Len(IndexOf(r))
             PROVE  Filtered(g, r.filter_block.blocks, IndexOf(r)[n].value)
  BY DEF FilterGood
<1> DEFINE bs == r.filter_block.blocks
<1>1. bs \in Seq(FilterBlocks) /\ Filtered(f, bs, IndexOf(r)[n].value)
  BY DEF FilterGood, IsFilter
<1>2. Grows(bs, bs)
  <2> HIDE DEF bs
  <2>1. Len(bs) \in Nat
    BY <1>1
  <2>2. QED
    BY <2>1 DEF Grows
<1> HIDE DEF bs
<1>3. Filtered(g, bs, IndexOf(r)[n].value)
  BY <1>1, <1>2, FilteredKept
<1>4. QED
  BY <1>3 DEF bs

LEMMA IndexEntryFilter ==
  ASSUME NEW r, BuilderOK(r), r.pending_index_entry, NEW f, FilterGood(r, f),
         NEW s \in Keys, NEW q, q = WithIndexEntry(r, s)
  PROVE  FilterGood(q, f) /\ q.filter_block = r.filter_block /\ (LastGood(r) => LastGood(q))
<1> DEFINE e == [key |-> s, value |-> r.pending_handle]
           last == [key |-> r.last_key, value |-> r.pending_handle]
           index == Append(r.index_block, e)
           old == Append(r.index_block, last)
           k == Len(r.index_block)
<1>1. /\ IsRep(r) /\ r.data_block = << >> /\ r.pending_handle \in Handles
      /\ r.last_key \in Keys /\ r.index_block \in Seq(IndexEntries)
  BY DEF BuilderOK, IsRep, IndexEntries
<1>2. /\ Len(index) = k + 1 /\ index[k + 1] = e /\ \A n \in 1..k : index[n] = r.index_block[n]
      /\ Len(old) = k + 1 /\ old[k + 1] = last /\ \A n \in 1..k : old[n] = r.index_block[n]
      /\ k \in Nat
  <2>1. e \in IndexEntries /\ last \in IndexEntries
    BY <1>1 DEF IndexEntries
  <2> HIDE DEF e, last
  <2>2. QED
    BY <1>1, <2>1, Appended
<1>3. e.value = last.value
  OBVIOUS
<1>4. q = [r EXCEPT !.last_key = s, !.index_block = index, !.pending_index_entry = FALSE]
  BY DEF WithIndexEntry
<1>5. IndexOf(r) = old
  BY DEF IndexOf
<1> HIDE DEF index, old, e, last
<1>6. /\ q.data_block = r.data_block /\ q.index_block = index /\ q.offset = r.offset
      /\ q.pending_index_entry = FALSE /\ q.status = r.status
      /\ q.filter_block = r.filter_block
  BY <1>1, <1>4 DEF IsRep
<1>7. IndexOf(q) = index
  BY <1>6 DEF IndexOf
<1>8. \A n \in 1..k + 1 : index[n].value = old[n].value
  BY <1>2, <1>3
<1>9. FilterGood(q, f)
  BY <1>2, <1>5, <1>6, <1>7, <1>8 DEF FilterGood
<1>10. QED
  BY <1>6, <1>9 DEF LastGood

\* Whatever reaches the file, the blocks that are in it stay.
LEMMA WrittenKeeps ==
  ASSUME IsSeq(file), NEW data, IsSeq(data), NEW type, NEW w \in Outcomes(data),
         Written(data, type, w)
  PROVE  Keeps(file, file')
<1> DEFINE cells == data \o <<Trailer(data, type)>>
<1>1. IsSeq(cells) /\ Len(cells) = Len(data) + 1 /\ Len(data) \in Nat
  BY OneCell, Concatenated
<1> HIDE DEF cells
<1>2. w.reach \in 0..Len(cells)
  BY <1>1 DEF Outcomes
<1>3. IsSeq(SubSeq(cells, 1, w.reach))
  BY <1>1, <1>2, Prefixed
<1>4. file' = file \o SubSeq(cells, 1, w.reach)
  BY DEF Written, cells
<1>5. QED
  BY <1>3, <1>4, StoredKept DEF Keeps

LEMMA EntryFilter ==
  ASSUME NEW r, BuilderOK(r), ~r.pending_index_entry, NEW f, FilterGood(r, f), LastGood(r),
         NEW e \in Entries, NEW q, q = WithEntry(r, e)
  PROVE  FilterGood(q, f) /\ LastGood(q)
<1> DEFINE b == AddKey(r, e.key)
           data == Append(r.data_block, e)
           d == Len(r.data_block)
           g == WithKey(r.filter_block, e.key)
<1>1. /\ IsRep(r) /\ r.data_block \in Seq(Entries) /\ e.key \in Keys /\ d \in Nat
  BY DEF BuilderOK, IsRep, Entries
<1>2. /\ IsRep(b) /\ b.data_block = r.data_block /\ b.index_block = r.index_block
      /\ b.pending_index_entry = r.pending_index_entry
      /\ b.offset = r.offset /\ b.status = r.status
  BY <1>1, FilterOnly
<1>3. b.filter_block = IF r.filter_block = NULL THEN NULL ELSE g
  BY <1>1 DEF AddKey, IsRep
<1>4. q = [b EXCEPT !.last_key = e.key, !.data_block = data]
  BY <1>2 DEF WithEntry
<1> HIDE DEF b
<1>5. /\ Len(data) = d + 1 /\ data[d + 1] = e /\ \A i \in 1..d : data[i] = r.data_block[i]
  <2>1. data = Append(r.data_block, e)
    OBVIOUS
  <2> HIDE DEF data
  <2>2. QED
    BY <1>1, <2>1, Appended
<1> HIDE DEF data, g, d
<1>6. /\ q.data_block = data /\ q.index_block = r.index_block
      /\ q.pending_index_entry = r.pending_index_entry /\ q.status = r.status
      /\ q.offset = r.offset /\ q.filter_block = b.filter_block
  BY <1>2, <1>4 DEF IsRep
<1>7. IndexOf(q) = IndexOf(r)
  BY <1>6 DEF IndexOf
<1>8. CASE r.filter_block = NULL
  BY <1>3, <1>6, <1>8 DEF FilterGood, LastGood
<1>9. CASE r.filter_block # NULL
  <2> DEFINE bs == r.filter_block.blocks
             cs == g.blocks
  <2>1. /\ IsFilter(g) /\ Grows(bs, cs) /\ Last(cs).offset = Last(bs).offset
        /\ Last(cs).keys = Last(bs).keys \cup {e.key}
        /\ bs \in Seq(FilterBlocks) /\ cs \in Seq(FilterBlocks)
    <3>1. IsFilter(r.filter_block)
      BY <1>9 DEF FilterGood
    <3>2. IsFilter(g) /\ Grows(bs, cs) /\ Last(cs).offset = Last(bs).offset
          /\ Last(cs).keys = Last(bs).keys \cup {e.key}
      <4>1. g = WithKey(r.filter_block, e.key)
        BY DEF g
      <4>2. e.key \in Keys
        BY <1>1
      <4> DEFINE k == e.key
                 f0 == r.filter_block
      <4>3. k \in Keys /\ IsFilter(f0) /\ g = WithKey(f0, k)
        BY <3>1, <4>1, <4>2
      <4> HIDE DEF k, f0
      <4>4. /\ IsFilter(g) /\ Grows(f0.blocks, g.blocks)
            /\ Last(g.blocks).offset = Last(f0.blocks).offset
            /\ Last(g.blocks).keys = Last(f0.blocks).keys \cup {k}
        BY <4>3, WithKeyFilter
      <4>5. QED
        BY <4>4 DEF k, f0
    <3>3. bs \in Seq(FilterBlocks)
      BY <3>1 DEF IsFilter
    <3>4. cs \in Seq(FilterBlocks)
      BY <3>2 DEF IsFilter
    <3> HIDE DEF bs, cs
    <3>5. QED
      BY <3>2, <3>3, <3>4
  <2>2. q.filter_block = g
    BY <1>3, <1>6, <1>9
  <2>3. ASSUME NEW n \in 1..Len(IndexOf(r)) PROVE Filtered(f, cs, IndexOf(r)[n].value)
    <3>1. Filtered(f, bs, IndexOf(r)[n].value)
      BY <1>9 DEF FilterGood
    <3> HIDE DEF bs, cs
    <3>2. QED
      BY <2>1, <3>1, FilteredKept DEF Keeps
  <2>4. FilterGood(q, f)
    BY <1>7, <2>1, <2>2, <2>3 DEF FilterGood
  <2>5. ASSUME r.status = OK
        PROVE  /\ Last(cs).offset = r.offset
               /\ \A i \in 1..d + 1 : data[i].key \in Last(cs).keys
    <3>1. /\ Last(bs).offset = r.offset
          /\ \A i \in 1..d : r.data_block[i].key \in Last(bs).keys
      BY <1>9, <2>5 DEF LastGood, d
    <3> HIDE DEF bs, cs
    <3>2. ASSUME NEW i \in 1..d + 1 PROVE data[i].key \in Last(cs).keys
      <4>1. CASE i = d + 1
        BY <1>5, <2>1, <4>1
      <4>2. CASE i # d + 1
        <5>1. i \in 1..d
          BY <1>1, <4>2 DEF d
        <5>2. QED
          BY <1>5, <2>1, <3>1, <5>1
      <4>3. QED
        BY <4>1, <4>2
    <3>3. QED
      BY <2>1, <3>1, <3>2
  <2>6. LastGood(q)
    BY <1>5, <1>6, <2>2, <2>5 DEF LastGood
  <2>7. QED
    BY <2>4, <2>6
<1>10. QED
  BY <1>8, <1>9

\* A block that starts empty is the last one, at the offset of the builder.
LEMMA StartFilter ==
  ASSUME NEW p, IsRep(p), p.data_block = << >>, NEW f, FilterGood(p, f),
         NEW q, q = StartBlock(p)
  PROVE  FilterGood(q, f) /\ LastGood(q)
<1> DEFINE g == Started(p.filter_block, p.offset)
<1>1. /\ q.data_block = << >> /\ q.index_block = p.index_block /\ q.last_key = p.last_key
      /\ q.pending_index_entry = p.pending_index_entry /\ q.offset = p.offset
      /\ q.pending_handle = p.pending_handle
  BY FilterOnly
<1>2. q.filter_block = IF p.filter_block = NULL THEN NULL ELSE g
  BY DEF StartBlock, IsRep
<1> HIDE DEF g
<1>3. IndexOf(q) = IndexOf(p)
  BY <1>1 DEF IndexOf
<1>4. CASE p.filter_block = NULL
  BY <1>2, <1>4 DEF FilterGood, LastGood
<1>5. CASE p.filter_block # NULL
  <2> DEFINE bs == p.filter_block.blocks
             cs == g.blocks
  <2>1. IsFilter(p.filter_block) /\ p.offset \in Nat
    BY <1>5 DEF FilterGood, IsRep
  <2>2. /\ IsFilter(g) /\ Grows(bs, cs) /\ Last(cs).offset = p.offset
        /\ bs \in Seq(FilterBlocks) /\ cs \in Seq(FilterBlocks)
    BY <2>1, StartedFilter DEF g, IsFilter
  <2>3. ASSUME NEW n \in 1..Len(IndexOf(p)) PROVE Filtered(f, cs, IndexOf(p)[n].value)
    <3>1. Filtered(f, bs, IndexOf(p)[n].value)
      BY <1>5 DEF FilterGood
    <3> HIDE DEF bs, cs
    <3>2. QED
      BY <2>2, <3>1, FilteredKept DEF Keeps
  <2>4. FilterGood(q, f)
    BY <1>2, <1>3, <1>5, <2>2, <2>3 DEF FilterGood
  <2>5. LastGood(q)
    BY <1>1, <1>2, <1>5, <2>2 DEF LastGood
  <2>6. QED
    BY <2>4, <2>5
<1>6. QED
  BY <1>4, <1>5

LEMMA FlushFilter ==
  ASSUME NEW r, BuilderOK(r), OffsetOK(r), r.options.compression = kNoCompression,
         FilterGood(r, file), LastGood(r), FlushOf(r)
  PROVE  FilterGood(rep', file') /\ LastGood(rep')
<1>1. CASE ~Flushes(r)
  BY <1>1 DEF FlushOf
<1>2. CASE Flushes(r)
  <2> DEFINE data == Raw(r.data_block)
             h == Handle(r, data)
  <2>1. /\ r.status = OK /\ r.last_key \in Keys /\ IsRep(r) /\ r.offset = Len(file)
        /\ IsSeq(file) /\ ~r.pending_index_entry /\ r.data_block # << >>
        /\ r.data_block \in Seq(Entries) /\ r.index_block \in Seq(IndexEntries)
    BY <1>2 DEF Flushes, BuilderOK, OffsetOK, IsRep, Entries, IndexEntries
  <2>2. IsSeq(data) /\ Len(data) \in Nat \ {0}
    BY <2>1, RawLength DEF IsSeq
  <2>3. PICK w \in Outcomes(data), s \in {OK, IOError} :
          rep' = AfterFlush(r, w, s) /\ Written(data, kNoCompression, w)
    BY <1>2 DEF FlushOf
  <2> DEFINE b0 == AfterWrite(r, data, w)
             b == WriteBlock(r, w)
             p == [b EXCEPT !.pending_index_entry = TRUE, !.status = s]
  <2>4. IsRep(b0) /\ w.ok \in BOOLEAN /\ b0.last_key = r.last_key
        /\ b0.index_block = r.index_block /\ b0.pending_index_entry = r.pending_index_entry
    BY <2>1, <2>2, <2>3, WriteExact
  <2>5. b0.filter_block = r.filter_block
    BY <2>1 DEF AfterWrite, IsRep
  <2>6. h \in Handles
    BY <2>1, <2>2 DEF Handle, Handles, IsRep
  <2>7. b = [b0 EXCEPT !.data_block = << >>, !.pending_handle = h]
    BY DEF WriteBlock
  <2>8. AfterFlush(r, w, s) = StartBlock(IF w.ok THEN p ELSE b)
    BY DEF AfterFlush
  <2> HIDE DEF b0, data, b, h
  <2>9. /\ IsRep(b) /\ b.data_block = << >> /\ b.pending_handle = h
        /\ b.last_key = r.last_key /\ b.index_block = r.index_block
        /\ b.pending_index_entry = r.pending_index_entry /\ b.filter_block = r.filter_block
    <3>1. << >> \in Seq([key : Keys, value : Nat])
      OBVIOUS
    <3>2. IsRep(b)
      BY <2>4, <2>6, <2>7, <3>1 DEF IsRep
    <3>3. QED
      BY <2>4, <2>5, <2>7, <3>2 DEF IsRep
  <2>10. Keeps(file, file')
    BY <2>1, <2>2, <2>3, WrittenKeeps
  <2>11. CASE ~w.ok
    <3>1. IndexOf(b) = IndexOf(r)
      BY <2>1, <2>9 DEF IndexOf
    <3>2. FilterGood(b, file')
      BY <2>9, <2>10, <3>1, FilterGoodKept
    <3>3. QED
      BY <2>3, <2>8, <2>9, <2>11, <3>2, StartFilter
  <2>12. CASE w.ok
    <3>1. /\ IsRep(p) /\ p.data_block = << >> /\ p.pending_handle = h
          /\ p.last_key = r.last_key /\ p.index_block = r.index_block
          /\ p.filter_block = r.filter_block /\ p.pending_index_entry = TRUE
      BY <2>3, <2>9 DEF IsRep
    <3> HIDE DEF p
    <3> DEFINE last == [key |-> r.last_key, value |-> h]
               index == Append(r.index_block, last)
               k == Len(r.index_block)
    <3>2. last \in IndexEntries /\ last.value = h
      BY <2>1, <2>6 DEF IndexEntries
    <3>3. IndexOf(p) = index /\ IndexOf(r) = r.index_block
      BY <2>1, <3>1 DEF IndexOf
    <3> HIDE DEF last
    <3>4. /\ Len(index) = k + 1 /\ index[k + 1] = last /\ k \in Nat
          /\ \A n \in 1..k : index[n] = r.index_block[n]
      BY <2>1, <3>2, Appended
    <3> HIDE DEF index, k
    <3>5. Stored(file', h, data)
      BY <2>1, <2>2, <2>3, <2>12, WrittenWhole DEF h
    <3>6. FilterGood(p, file')
      <4> SUFFICES ASSUME r.filter_block # NULL
                   PROVE  \A n \in 1..k + 1 : Filtered(file', r.filter_block.blocks, index[n].value)
        BY <3>1, <3>3, <3>4 DEF FilterGood
      <4> DEFINE bs == r.filter_block.blocks
      <4>1. IsFilter(r.filter_block) /\ bs \in Seq(FilterBlocks) /\ bs # << >>
            /\ \A n \in 1..k : Filtered(file, bs, r.index_block[n].value)
        BY <3>3 DEF FilterGood, IsFilter, k
      <4>2. /\ Last(bs).offset = r.offset
            /\ \A i \in 1..Len(r.data_block) : r.data_block[i].key \in Last(bs).keys
        BY <2>1 DEF LastGood
      <4> HIDE DEF bs
      <4>3. Grows(bs, bs) /\ Len(bs) \in 1..Len(bs) /\ Last(bs) = bs[Len(bs)]
        BY <4>1 DEF Grows, Last
      <4>4. Filtered(file', bs, h)
        <5>1. h.offset = r.offset
          BY DEF h, Handle
        <5>2. QED
          BY <2>1, <3>5, <4>2, <4>3, <5>1 DEF Filtered, data
      <4>5. ASSUME NEW n \in 1..k + 1 PROVE Filtered(file', bs, index[n].value)
        <5>1. CASE n = k + 1
          BY <3>2, <3>4, <4>4, <5>1
        <5>2. CASE n # k + 1
          <6>1. n \in 1..k
            BY <3>4, <5>2
          <6>2. Filtered(file', bs, r.index_block[n].value)
            BY <2>10, <4>1, <4>3, <6>1, FilteredKept
          <6>3. QED
            BY <3>4, <6>1, <6>2
        <5>3. QED
          BY <5>1, <5>2
      <4>6. QED
        BY <4>5 DEF bs
    <3>7. QED
      BY <2>3, <2>8, <2>12, <3>1, <3>6, StartFilter
  <2>13. QED
    BY <2>4, <2>11, <2>12
<1>3. QED
  BY <1>1, <1>2

\* The filter as long as blocks are added to it, and as a reader finds it.
FilterReach ==
  /\ FilterGood(rep, file)
  /\ pc = "open" => LastGood(rep)
  /\ pc = "finished" /\ rep.status = OK =>
       \E ix \in Seq(IndexEntries) :
         /\ Stored(file, handles.index, Raw(ix))
         /\ rep.filter_block # NULL =>
              \A n \in 1..Len(ix) : Filtered(file, rep.filter_block.blocks, ix[n].value)

LEMMA AddFilter ==
  ASSUME Uncompressed, Inv, FilterReach, NEW k \in Keys, Add(k) PROVE FilterReach'
<1> DEFINE e == [key |-> k, value |-> Len(added)]
<1>1. /\ e \in Entries /\ pc = "open" /\ pc' = "open" /\ BuilderOK(rep) /\ OffsetOK(rep)
      /\ FilterGood(rep, file) /\ LastGood(rep)
  BY DEF Add, Inv, Entries, FilterReach
<1>2. PICK r : /\ FlushWhenFull(WithEntry(r, e)) /\ BuilderOK(r) /\ ~r.pending_index_entry
               /\ r.status = rep.status /\ r.offset = rep.offset
               /\ FilterGood(r, file) /\ LastGood(r)
  <2>1. CASE rep.pending_index_entry
    <3>1. PICK s \in Keys : FlushWhenFull(WithEntry(WithIndexEntry(rep, s), e))
      BY <2>1 DEF Add, Separators
    <3> DEFINE r == WithIndexEntry(rep, s)
    <3>2. BuilderOK(r) /\ ~r.pending_index_entry /\ r.status = rep.status
          /\ r.offset = rep.offset
      BY <1>1, <2>1, IndexEntryOK
    <3>3. FilterGood(r, file) /\ LastGood(r)
      BY <1>1, <2>1, IndexEntryFilter
    <3>4. FlushWhenFull(WithEntry(r, e))
      BY <3>1
    <3> HIDE DEF r
    <3>5. QED
      BY <3>2, <3>3, <3>4
  <2>2. CASE ~rep.pending_index_entry
    BY <1>1, <2>2 DEF Add
  <2>3. QED
    BY <2>1, <2>2
<1> DEFINE q == WithEntry(r, e)
<1>3. BuilderOK(q) /\ q.status = rep.status /\ q.offset = rep.offset
  BY <1>1, <1>2, EntryOK DEF Entries
<1>4. OffsetOK(q)
  BY <1>1, <1>3 DEF OffsetOK
<1>5. FilterGood(q, file) /\ LastGood(q)
  BY <1>1, <1>2, EntryFilter
<1>6. FlushOf(q) \/ (rep' = q /\ file' = file)
  BY <1>2 DEF FlushWhenFull
<1> HIDE DEF q, e
<1>7. FilterGood(rep', file') /\ LastGood(rep')
  BY <1>3, <1>4, <1>5, <1>6, OptionsPlain, FlushFilter
<1>8. QED
  BY <1>1, <1>7 DEF FilterReach

LEMMA FlushKeepsFilter ==
  ASSUME Uncompressed, Inv, FilterReach, Flush PROVE FilterReach'
<1>1. pc = "open" /\ pc' = "open" /\ FlushOf(rep) /\ BuilderOK(rep) /\ OffsetOK(rep)
  BY DEF Flush, Inv
<1>2. FilterGood(rep', file') /\ LastGood(rep')
  BY <1>1, OptionsPlain, FlushFilter DEF FilterReach
<1>3. QED
  BY <1>1, <1>2 DEF FilterReach

LEMMA SameFilter ==
  ASSUME Inv, FilterReach, pc = "open", pc' \in {"open", "abandoned"},
         UNCHANGED <<file, handles, opened, added>>,
         \/ \E o : rep' = [rep EXCEPT !.options = o]
         \/ rep' = [rep EXCEPT !.closed = TRUE]
  PROVE  FilterReach'
<1>1. /\ rep'.data_block = rep.data_block /\ rep'.index_block = rep.index_block
      /\ rep'.last_key = rep.last_key /\ rep'.pending_index_entry = rep.pending_index_entry
      /\ rep'.pending_handle = rep.pending_handle /\ rep'.status = rep.status
      /\ rep'.offset = rep.offset /\ rep'.filter_block = rep.filter_block
  BY DEF Inv, BuilderOK, IsRep
<1>2. IndexOf(rep') = IndexOf(rep)
  BY <1>1 DEF IndexOf
<1>3. FilterGood(rep', file)
  BY <1>1, <1>2, FilterGoodKept DEF FilterReach, Keeps
<1>4. LastGood(rep')
  BY <1>1 DEF FilterReach, LastGood
<1>5. QED
  BY <1>3, <1>4 DEF FilterReach

LEMMA FinishFilterReached ==
  ASSUME Uncompressed, Inv, FilterReach, Finish PROVE FilterReach'
<1> DEFINE q == [rep EXCEPT !.closed = TRUE]
<1>1. pc = "open" /\ FlushOf(q) /\ pc' = "filter"
  BY DEF Finish
<1>2. BuilderOK(q) /\ OffsetOK(q) /\ q.status = rep.status /\ q.offset = rep.offset
  BY Closed DEF Inv
<1>3. /\ q.data_block = rep.data_block /\ q.index_block = rep.index_block
      /\ q.last_key = rep.last_key /\ q.pending_index_entry = rep.pending_index_entry
      /\ q.pending_handle = rep.pending_handle /\ q.filter_block = rep.filter_block
  BY DEF Inv, BuilderOK, IsRep
<1> HIDE DEF q
<1>4. IndexOf(q) = IndexOf(rep)
  BY <1>3 DEF IndexOf
<1>5. FilterGood(q, file) /\ LastGood(q)
  BY <1>1, <1>2, <1>3, <1>4, FilterGoodKept DEF FilterReach, Keeps, LastGood
<1>6. FilterGood(rep', file')
  BY <1>1, <1>2, <1>5, OptionsPlain, FlushFilter
<1>7. QED
  BY <1>1, <1>6 DEF FilterReach

\* A block of Finish changes neither the filter nor the blocks it knows of.
LEMMA FinishBlockFilter ==
  ASSUME Inv, NEW r, IsRep(r), r.status = rep.status, r.offset = rep.offset,
         r.filter_block = rep.filter_block, FilterGood(rep, file), FilterGood(r, file),
         NEW at, NEW data, IsSeq(data), NEW type, NEW then,
         FinishBlock(r, at, data, type, then)
  PROVE  FilterGood(rep', file') /\ rep'.filter_block = rep.filter_block
<1>1. CASE ~ok
  BY <1>1 DEF FinishBlock
<1>2. CASE ok
  <2>1. r.status = OK /\ r.offset = Len(file) /\ IsSeq(file)
    BY <1>2 DEF Inv, OffsetOK, ok
  <2>2. PICK w \in Outcomes(data) : rep' = AfterWrite(r, data, w) /\ Written(data, type, w)
    BY <1>2 DEF FinishBlock
  <2>3. /\ rep'.index_block = r.index_block /\ rep'.last_key = r.last_key
        /\ rep'.pending_handle = r.pending_handle
        /\ rep'.pending_index_entry = r.pending_index_entry
    BY <2>1, <2>2, WriteExact
  <2>4. rep'.filter_block = r.filter_block
    BY <2>2 DEF AfterWrite, IsRep
  <2>5. IndexOf(rep') = IndexOf(r)
    BY <2>3 DEF IndexOf
  <2>6. QED
    BY <2>1, <2>2, <2>4, <2>5, WrittenKeeps, FilterGoodKept
<1>3. QED
  BY <1>1, <1>2

LEMMA FilterBlockFilter == ASSUME Inv, FilterReach, FinishFilter PROVE FilterReach'
<1>1. CASE rep.filter_block = NULL
  BY <1>1 DEF FinishFilter, FilterReach
<1>2. CASE rep.filter_block # NULL
  <2> DEFINE data == <<[kind |-> "filter", blocks |-> rep.filter_block.blocks]>>
  <2>1. FinishBlock(rep, "filter", data, kNoCompression, "metaindex")
    BY <1>2 DEF FinishFilter
  <2>2. IsSeq(data) /\ IsRep(rep) /\ pc' = "metaindex"
    BY <2>1, OneCell DEF Inv, BuilderOK, FinishBlock
  <2> HIDE DEF data
  <2>3. FilterGood(rep', file')
    BY <2>1, <2>2, FinishBlockFilter DEF FilterReach
  <2>4. QED
    BY <2>2, <2>3 DEF FilterReach
<1>3. QED
  BY <1>1, <1>2

LEMMA MetaindexFilter == ASSUME Inv, FilterReach, FinishMetaindex PROVE FilterReach'
<1> DEFINE meta == IF rep.filter_block = NULL THEN << >>
                   ELSE <<[key |-> rep.options.filter_policy, value |-> handles.filter]>>
<1>1. FinishBlock(rep, "metaindex", Raw(meta), rep.options.compression, "index")
  BY DEF FinishMetaindex
<1>2. IsSeq(meta)
  <2>1. IsSeq(<< >>)
    BY DEF IsSeq
  <2>2. QED
    BY <2>1, OneCell
<1> HIDE DEF meta
<1>3. IsSeq(Raw(meta)) /\ IsRep(rep) /\ pc' = "index"
  BY <1>1, <1>2, RawLength DEF Inv, BuilderOK, FinishBlock
<1>4. FilterGood(rep', file')
  BY <1>1, <1>3, FinishBlockFilter DEF FilterReach
<1>5. QED
  BY <1>3, <1>4 DEF FilterReach

\* The index entries that Finish adds and writes name no other blocks.
LEMMA IndexFilter ==
  ASSUME Uncompressed, Inv, Reach, FilterReach, FinishIndex PROVE FilterReach'
<1>1. PICK r : /\ BuilderOK(r) /\ r.status = rep.status /\ r.offset = rep.offset
               /\ FinishBlock([r EXCEPT !.index_block = << >>], "index",
                              Raw(r.index_block), r.options.compression, "finished")
               /\ FilterGood(r, file) /\ r.filter_block = rep.filter_block
               /\ rep.status = OK => ~r.pending_index_entry
               /\ rep.status # OK => r = rep
  <2>1. BuilderOK(rep) /\ FilterGood(rep, file) /\ IsRep(rep)
    BY DEF Inv, FilterReach, BuilderOK
  <2>2. CASE LastEntry(rep)
    <3>1. PICK s \in Successors(rep.last_key) :
            LET r == WithIndexEntry(rep, s) IN
              FinishBlock([r EXCEPT !.index_block = << >>], "index",
                          Raw(r.index_block), r.options.compression, "finished")
      BY <2>2 DEF FinishIndex
    <3>2. s \in Keys /\ rep.status = OK /\ rep.pending_index_entry
      BY <2>2 DEF Successors, LastEntry
    <3> DEFINE r == WithIndexEntry(rep, s)
    <3>3. BuilderOK(r) /\ r.status = rep.status /\ r.offset = rep.offset
          /\ ~r.pending_index_entry
      BY <2>1, <3>2, IndexEntryOK
    <3>4. FilterGood(r, file) /\ r.filter_block = rep.filter_block
      BY <2>1, <3>2, IndexEntryFilter
    <3>5. FinishBlock([r EXCEPT !.index_block = << >>], "index",
                      Raw(r.index_block), r.options.compression, "finished")
      BY <3>1
    <3> HIDE DEF r
    <3>6. QED
      BY <3>2, <3>3, <3>4, <3>5
  <2>3. CASE ~LastEntry(rep)
    <3>1. FinishBlock([rep EXCEPT !.index_block = << >>], "index",
                      Raw(rep.index_block), rep.options.compression, "finished")
      BY <2>3 DEF FinishIndex
    <3>2. rep.status = OK => ~rep.pending_index_entry
      BY <2>3 DEF LastEntry
    <3>3. QED
      BY <2>1, <3>1, <3>2
  <2>4. QED
    BY <2>2, <2>3
<1> DEFINE q == [r EXCEPT !.index_block = << >>]
           ix == r.index_block
           bs == rep.filter_block.blocks
<1>2. /\ q.status = rep.status /\ q.offset = rep.offset /\ q.filter_block = rep.filter_block
      /\ q.index_block = << >> /\ q.pending_index_entry = r.pending_index_entry
      /\ q.pending_handle = r.pending_handle /\ q.last_key = r.last_key
  BY <1>1 DEF BuilderOK, IsRep
<1>3. IsRep(q)
  <2>1. IsRep(r) /\ << >> \in Seq([key : Keys, value : Handles])
    BY <1>1 DEF BuilderOK
  <2>2. QED
    BY <2>1 DEF IsRep
<1>4. ix \in Seq(IndexEntries) /\ IsSeq(Raw(ix)) /\ Len(Raw(ix)) # 0
  <2>1. ix \in Seq(IndexEntries)
    BY <1>1 DEF BuilderOK, IsRep, IndexEntries
  <2>2. IsSeq(ix)
    BY <2>1 DEF IsSeq
  <2>3. QED
    BY <2>1, <2>2, RawLength
<1>5. FinishBlock(q, "index", Raw(ix), kNoCompression, "finished")
  BY <1>1, OptionsPlain
<1> HIDE DEF q, ix
<1>6. pc' = "finished"
  BY <1>5 DEF FinishBlock
<1>7. CASE rep.status # OK
  <2>1. rep' = rep /\ file' = file
    BY <1>5, <1>7 DEF FinishBlock, ok
  <2>2. QED
    BY <1>6, <1>7, <2>1 DEF FilterReach
<1>8. CASE rep.status = OK
  <2>1. IndexOf(q) = << >> /\ IndexOf(r) = ix
    BY <1>1, <1>2, <1>8 DEF IndexOf, ix
  <2>2. rep.filter_block # NULL =>
          IsFilter(rep.filter_block) /\ \A n \in 1..Len(ix) : Filtered(file, bs, ix[n].value)
    BY <1>1, <2>1 DEF FilterGood
  <2>3. FilterGood(q, file)
    BY <1>2, <2>1, <2>2 DEF FilterGood
  <2>4. FilterGood(rep', file') /\ rep'.filter_block = rep.filter_block
    BY <1>2, <1>3, <1>4, <1>5, <2>3, FinishBlockFilter DEF FilterReach
  <2>5. ASSUME rep'.status = OK
        PROVE  /\ Stored(file', handles'.index, Raw(ix))
               /\ rep.filter_block # NULL =>
                    \A n \in 1..Len(ix) : Filtered(file', bs, ix[n].value)
    <3>1. "index" \in DOMAIN handles
      BY DEF Reach
    <3>2. Keeps(file, file') /\ Stored(file', handles'["index"], Raw(ix))
      BY <1>2, <1>3, <1>4, <1>5, <2>5, <3>1, FinishBlockWhole
    <3>3. ASSUME rep.filter_block # NULL, NEW n \in 1..Len(ix)
          PROVE  Filtered(file', bs, ix[n].value)
      <4>1. bs \in Seq(FilterBlocks) /\ Filtered(file, bs, ix[n].value)
        BY <2>2, <3>3 DEF IsFilter
      <4> HIDE DEF bs
      <4>2. Grows(bs, bs)
        BY <4>1 DEF Grows
      <4>3. QED
        BY <3>2, <4>1, <4>2, FilteredKept
    <3>4. QED
      BY <3>2, <3>3
  <2>6. QED
    BY <1>4, <1>6, <2>4, <2>5 DEF FilterReach
<1>9. QED
  BY <1>7, <1>8

LEMMA InitFilter == Init => FilterReach
<1> SUFFICES ASSUME Init PROVE FilterReach
  OBVIOUS
<1>1. PICK o \in OptionSets :
        rep = [options |-> o, offset |-> 0, status |-> OK,
               data_block |-> << >>, index_block |-> << >>, last_key |-> NULL,
               closed |-> FALSE, filter_block |-> NewFilter(o.filter_policy),
               pending_index_entry |-> FALSE, pending_handle |-> NULL]
  BY DEF Init
<1>2. /\ rep.data_block = << >> /\ IndexOf(rep) = << >> /\ rep.offset = 0
      /\ rep.filter_block = NewFilter(o.filter_policy)
  BY <1>1 DEF IndexOf
<1>3. pc = "open"
  BY DEF Init
<1>4. ASSUME rep.filter_block # NULL
      PROVE  IsFilter(rep.filter_block) /\ Last(rep.filter_block.blocks).offset = 0
  <2> DEFINE first == [offset |-> 0, keys |-> {}]
             bs == <<first>>
  <2>1. first \in FilterBlocks /\ first.offset = 0
    BY DEF FilterBlocks
  <2>2. rep.filter_block = [policy |-> o.filter_policy, blocks |-> bs]
    BY <1>2, <1>4 DEF NewFilter
  <2> HIDE DEF first
  <2>3. bs \in Seq(FilterBlocks) /\ bs # << >> /\ Last(bs) = first
    BY <2>1 DEF Last
  <2> HIDE DEF bs
  <2>4. QED
    BY <2>1, <2>2, <2>3 DEF IsFilter
<1>5. FilterGood(rep, file) /\ LastGood(rep)
  BY <1>2, <1>4 DEF FilterGood, LastGood
<1>6. QED
  BY <1>3, <1>5 DEF FilterReach

LEMMA NextFilter ==
  ASSUME Uncompressed, Inv, Reach, FilterReach, [Next]_vars PROVE FilterReach'
<1>1. CASE UNCHANGED vars
  BY <1>1 DEF vars, FilterReach
<1>2. ASSUME NEW o \in OptionSets, ChangeOptions(o) PROVE FilterReach'
  BY <1>2, SameFilter DEF ChangeOptions
<1>3. CASE Abandon
  BY <1>3, SameFilter DEF Abandon
<1>4. CASE Open
  BY <1>4 DEF Open, FilterReach
<1>5. QED
  BY <1>1, <1>2, <1>3, <1>4, AddFilter, FlushKeepsFilter, FinishFilterReached,
     FilterBlockFilter, MetaindexFilter, IndexFilter DEF Next

\* A block that is filtered answers for the entries that are read from it.
LEMMA FilteredRead ==
  ASSUME NEW bs \in Seq(FilterBlocks), NEW h, Filtered(file, bs, h),
         NEW e \in ToSet(EntriesAt(h))
  PROVE  \E b \in ToSet(bs) : b.offset = h.offset /\ e.key \in b.keys
<1>1. PICK es \in Seq(Entries) :
        /\ Stored(file, h, Raw(es))
        /\ \E j \in 1..Len(bs) : bs[j].offset = h.offset
                                 /\ \A i \in 1..Len(es) : es[i].key \in bs[j].keys
  BY DEF Filtered
<1>2. EntriesAt(h) = es
  BY <1>1, StoredRead DEF IsSeq
<1>3. PICK i \in 1..Len(es) : e = es[i]
  BY <1>2 DEF ToSet
<1>4. PICK j \in 1..Len(bs) : bs[j].offset = h.offset /\ es[i].key \in bs[j].keys
  BY <1>1
<1>5. bs[j] \in ToSet(bs)
  BY DEF ToSet
<1>6. QED
  BY <1>3, <1>4, <1>5

LEMMA FilterKnows == ASSUME Inv, FilterReach PROVE FilterCovers
<1> DEFINE bs == rep.filter_block.blocks
<1> SUFFICES ASSUME rep.filter_block # NULL, NEW n \in DOMAIN Index,
                    NEW e \in ToSet(EntriesAt(Index[n].value))
             PROVE  \E b \in ToSet(bs) : b.offset = Index[n].value.offset /\ e.key \in b.keys
  BY DEF FilterCovers
<1>1. bs \in Seq(FilterBlocks)
  BY DEF FilterReach, FilterGood, IsFilter
<1>2. Filtered(file, bs, Index[n].value)
  <2>1. CASE pc = "finished" /\ ok
    <3>1. PICK ix \in Seq(IndexEntries) :
            /\ Stored(file, handles.index, Raw(ix))
            /\ \A m \in 1..Len(ix) : Filtered(file, bs, ix[m].value)
      BY <2>1 DEF FilterReach, ok
    <3>2. Index = ix
      BY <2>1, <3>1, StoredRead DEF Index, IsSeq
    <3>3. n \in 1..Len(ix)
      BY <3>1, <3>2
    <3>4. QED
      BY <3>1, <3>2, <3>3
  <2>2. CASE ~(pc = "finished" /\ ok)
    <3>1. Index = IndexOf(rep) /\ IndexOf(rep) \in Seq(IndexEntries)
      BY <2>2, IndexType DEF Index, IndexOf, Inv
    <3>2. n \in 1..Len(IndexOf(rep))
      BY <3>1
    <3>3. QED
      BY <3>1, <3>2 DEF FilterReach, FilterGood
  <2>3. QED
    BY <2>1, <2>2
<1> HIDE DEF bs
<1>3. QED
  BY <1>1, <1>2, FilteredRead

\* Without compression, the filter knows every key of every block under the offset
\* of that block, also after writes that failed.
THEOREM FilterKnowsKeys ==
  ASSUME Uncompressed PROVE Spec => []FilterCovers
<1>1. Inv /\ Reach /\ FilterReach /\ [Next]_vars => Reach' /\ FilterReach'
  BY NextReach, NextFilter
<1>2. Inv /\ FilterReach => FilterCovers
  BY FilterKnows
<1>3. QED
  BY <1>1, <1>2, InitReach, InitFilter, Invariance, PTL DEF Spec
=============================================================================
