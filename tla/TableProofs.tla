----------------------------- MODULE TableProofs -----------------------------
(***************************************************************************)
(* Opening and deleting tables, for any filter policies and any number of  *)
(* reads: the buffers have one owner each, what a table points to is       *)
(* there, and a paranoid table holds nothing altered.                      *)
(***************************************************************************)
EXTENDS Table, TLAPS

\* A block owns a buffer or points to memory that nobody has to delete.
BlockOK(b) ==
  b \in Block /\ (b.data \in Nat <=> b.owned_)

\* The table in the making was made with the options of the Open in progress,
\* and has no filter before ReadFilter gives it one.
TableOK ==
  table # NULL =>
    /\ BlockOK(table.index_block)
    /\ pc \in {"meta", "filter"} => table.filter = NULL /\ table.filter_data = NULL
    /\ pc \in {"meta", "filter"} => table.options = options /\ options.filter_policy # NULL
    /\ pc = "end" => table.options = options
    /\ table.filter # NULL => table.filter.data \in {Mapped, NULL, table.filter_data}

MetaOK ==
  meta # NULL => BlockOK(meta) /\ (options.paranoid_checks => meta.intact)

Inv == TypeOK /\ BuffersOwned /\ ParanoidTrust /\ TableOK /\ MetaOK

-----------------------------------------------------------------------------
LEMMA InitInv == Init => Inv
<1> SUFFICES ASSUME Init PROVE Inv
  OBVIOUS
<1>1. TypeOK
  BY ConstantsAssumption DEF Init, TypeOK
<1>2. BuffersOwned
  BY DEF Init, BuffersOwned, IndexBuffer, FilterBuffer, MetaBuffer
<1>3. QED
  BY <1>1, <1>2 DEF Init, Inv, ParanoidTrust, TableOK, MetaOK

\* What ReadBlock returns with OK: a block that owns a buffer only if it is the
\* new one, and was intact if checksums were asked for.
LEMMA ReadOK ==
  ASSUME NEW o \in Outcomes, options \in Options, made \in Nat, ReadStatus(o) = OK
  PROVE  /\ BlockOK(Contents(o)) /\ Contents(o).data = Data(o)
         /\ Contents(o).owned_ => Data(o) = made + 1
         /\ Contents(o).intact = o.intact
         /\ options.paranoid_checks => o.intact
         /\ KeepsBuffer(o) <=> Contents(o).owned_ \/ o.type = kSnappyCompression
         /\ o.type = kSnappyCompression => ~Contents(o).owned_
<1>1. o.type \in {kNoCompression, kSnappyCompression}
      /\ (options.paranoid_checks => o.intact)
  BY ConstantsAssumption DEF ReadStatus, Verifies, Outcomes
<1>2. o.mapped \in BOOLEAN /\ o.intact \in BOOLEAN
  BY DEF Outcomes
<1>3. made + 1 \in Nat /\ NULL \notin Nat /\ Mapped \notin Nat
  BY ConstantsAssumption
<1>4. CASE o.type = kSnappyCompression
  BY <1>1, <1>2, <1>3, <1>4, ConstantsAssumption
  DEF Contents, Data, KeepsBuffer, buf, BlockOK, Block
<1>5. CASE o.type = kNoCompression
  BY <1>1, <1>2, <1>3, <1>5, ConstantsAssumption
  DEF Contents, Data, KeepsBuffer, buf, BlockOK, Block
<1>6. QED
  BY <1>1, <1>4, <1>5

\* A read that fails leaves the heap as it was.
LEMMA ReadFails ==
  ASSUME NEW o \in Outcomes, TypeOK, ReadBlock(o), ReadStatus(o) # OK
  PROVE  /\ UNCHANGED <<heap, compressed>>
         /\ made' \in 0..MaxReads /\ heap' \subseteq 1..made' /\ compressed' \subseteq heap'
BY ConstantsAssumption DEF ReadBlock, KeepsBuffer, TypeOK, buf

\* A read that does not fail adds the buffer the block owns, if any, to the
\* heap, and one it lost when the block was compressed.
LEMMA ReadAdds ==
  ASSUME NEW o \in Outcomes, TypeOK, ReadBlock(o), ReadStatus(o) = OK
  PROVE  /\ heap' = heap \cup OwnedBy(Contents(o)) \cup compressed'
         /\ OwnedBy(Contents(o)) \cap (heap \cup compressed') = {}
         /\ (compressed' \ compressed) \cap heap = {} /\ compressed \subseteq compressed'
         /\ made' \in 0..MaxReads /\ heap' \subseteq 1..made' /\ compressed' \subseteq heap'
<1>1. /\ made' = made + 1 /\ made \in Nat /\ made + 1 \in 0..MaxReads
      /\ made + 1 \notin heap /\ heap \cup {made + 1} \subseteq 1..made'
      /\ compressed \subseteq heap
  BY ConstantsAssumption DEF ReadBlock, TypeOK, buf
<1>2. /\ Contents(o).owned_ => Contents(o).data = made + 1
      /\ KeepsBuffer(o) <=> Contents(o).owned_ \/ o.type = kSnappyCompression
      /\ o.type = kSnappyCompression => ~Contents(o).owned_
  BY <1>1, ReadOK DEF TypeOK
<1>3. CASE ~KeepsBuffer(o)
  <2>1. OwnedBy(Contents(o)) = {} /\ heap' = heap /\ compressed' = compressed
    BY <1>2, <1>3 DEF ReadBlock, OwnedBy
  <2>2. QED
    BY <1>1, <2>1
<1>4. CASE KeepsBuffer(o) /\ o.type = kSnappyCompression
  <2>1. /\ OwnedBy(Contents(o)) = {} /\ heap' = heap \cup {made + 1}
        /\ compressed' = compressed \cup {made + 1}
    BY <1>2, <1>4 DEF ReadBlock, OwnedBy, buf
  <2>2. QED
    BY <1>1, <2>1
<1>5. CASE KeepsBuffer(o) /\ o.type # kSnappyCompression
  <2>1. /\ OwnedBy(Contents(o)) = {made + 1} /\ heap' = heap \cup {made + 1}
        /\ compressed' = compressed
    BY <1>2, <1>5 DEF ReadBlock, OwnedBy, buf
  <2>2. QED
    BY <1>1, <2>1
<1>6. QED
  BY <1>3, <1>4, <1>5

-----------------------------------------------------------------------------
LEMMA OpenFooterInv ==
  ASSUME Inv, NEW o \in Options, NEW s \in {OK, IOError, Corruption}, OpenFooter(o, s)
  PROVE  Inv'
<1>1. /\ pc = "none" /\ options' = o /\ table = NULL /\ meta = NULL
      /\ UNCHANGED <<heap, made, table, meta, compressed>>
  BY DEF OpenFooter, Inv, TypeOK
<1>2. /\ pc' \in {"index", "none"} /\ returned' \in {OK, IOError, Corruption, NULL}
  BY <1>1 DEF OpenFooter, Return, Inv, TypeOK
<1>3. TypeOK'
  BY <1>1, <1>2 DEF Inv, TypeOK
<1>4. BuffersOwned'
  BY <1>1 DEF Inv, BuffersOwned, IndexBuffer, FilterBuffer, MetaBuffer
<1>5. QED
  BY <1>1, <1>3, <1>4 DEF Inv, ParanoidTrust, TableOK, MetaOK

LEMMA OpenIndexInv ==
  ASSUME Inv, NEW o \in Outcomes, OpenIndex(o)
  PROVE  Inv'
<1>1. /\ pc = "index" /\ ReadBlock(o) /\ UNCHANGED <<options, meta>>
      /\ table = NULL /\ meta = NULL /\ TypeOK /\ options \in Options /\ made \in Nat
      /\ IndexBuffer = {} /\ FilterBuffer = {} /\ MetaBuffer = {} /\ heap = compressed
  BY DEF OpenIndex, Inv, TypeOK, BuffersOwned, IndexBuffer, FilterBuffer, MetaBuffer
<1>2. CASE ReadStatus(o) # OK
  <2>1. /\ UNCHANGED <<table, heap, compressed>> /\ pc' = "none" /\ returned' = ReadStatus(o)
        /\ made' \in 0..MaxReads /\ heap' \subseteq 1..made'
    BY <1>1, <1>2, ReadFails DEF OpenIndex, Return
  <2>2. ReadStatus(o) \in {OK, IOError, Corruption}
    BY DEF ReadStatus, Outcomes
  <2>3. TypeOK'
    BY <1>1, <2>1, <2>2 DEF TypeOK
  <2>4. BuffersOwned'
    BY <1>1, <2>1 DEF Inv, BuffersOwned, IndexBuffer, FilterBuffer, MetaBuffer
  <2>5. QED
    BY <1>1, <2>1, <2>3, <2>4 DEF Inv, ParanoidTrust, TableOK, MetaOK
<1>3. CASE ReadStatus(o) = OK
  <2> DEFINE block == Contents(o)
  <2>1. /\ table' = NewRep(block) /\ made' \in 0..MaxReads
        /\ IF options.filter_policy = NULL THEN returned' = OK /\ pc' = "open"
           ELSE pc' = "meta" /\ UNCHANGED returned
    BY <1>1, <1>3, ReadAdds DEF OpenIndex, Return
  <2>2. /\ BlockOK(block) /\ (options.paranoid_checks => block.intact)
    BY <1>1, <1>3, ReadOK
  <2> HIDE DEF block
  <2>3. /\ table'.options = options /\ table'.index_block = block
        /\ table'.filter_data = NULL /\ table'.filter = NULL /\ table' \in Rep
        /\ table' # NULL
    BY <1>1, <2>1, <2>2, ConstantsAssumption DEF NewRep, Rep, BlockOK
  <2>4. TypeOK'
    BY <1>1, <1>3, <2>1, <2>3, ReadAdds DEF TypeOK
  <2>5. BuffersOwned'
    <3>1. IndexBuffer' = OwnedBy(block) /\ FilterBuffer' = {} /\ MetaBuffer' = {}
      BY <1>1, <2>3 DEF IndexBuffer, FilterBuffer, MetaBuffer, OwnedBy
    <3>2. /\ heap' = heap \cup OwnedBy(block) \cup compressed'
          /\ OwnedBy(block) \cap (heap \cup compressed') = {} /\ compressed \subseteq compressed'
      BY <1>1, <1>3, ReadAdds DEF block
    <3>3. QED
      BY <1>1, <3>1, <3>2 DEF BuffersOwned
  <2>6. ParanoidTrust'
    BY <1>1, <2>2, <2>3 DEF ParanoidTrust
  <2>7. TableOK' /\ MetaOK'
    BY <1>1, <2>1, <2>2, <2>3 DEF TableOK, MetaOK, BlockOK
  <2>8. QED
    BY <2>4, <2>5, <2>6, <2>7 DEF Inv
<1>4. QED
  BY <1>2, <1>3

LEMMA ReadMetaInv ==
  ASSUME Inv, NEW o \in Outcomes, NEW found \in BOOLEAN, ReadMeta(o, found)
  PROVE  Inv'
<1>1. /\ pc = "meta" /\ ReadBlock(o) /\ UNCHANGED <<options, table>>
      /\ table # NULL /\ meta = NULL /\ TypeOK /\ options \in Options /\ made \in Nat
      /\ FilterBuffer = {} /\ MetaBuffer = {} /\ heap = IndexBuffer \cup compressed
      /\ IndexBuffer \cap compressed = {}
      /\ IndexBuffer' = IndexBuffer /\ FilterBuffer' = FilterBuffer
  BY DEF ReadMeta, Inv, TypeOK, TableOK, BuffersOwned, IndexBuffer, FilterBuffer, MetaBuffer
<1>2. ParanoidTrust'
  BY <1>1 DEF Inv, ParanoidTrust
<1>3. CASE ReadStatus(o) # OK
  <2>1. /\ UNCHANGED <<heap, compressed, meta>> /\ pc' = "open" /\ returned' = OK
        /\ made' \in 0..MaxReads /\ heap' \subseteq 1..made'
    BY <1>1, <1>3, ReadFails DEF ReadMeta, Return
  <2>2. TypeOK'
    BY <1>1, <2>1 DEF TypeOK
  <2>3. BuffersOwned'
    <3>1. MetaBuffer' = MetaBuffer
      BY <2>1 DEF MetaBuffer
    <3>2. QED
      BY <1>1, <2>1, <3>1 DEF BuffersOwned
  <2>4. TableOK' /\ MetaOK'
    BY <1>1, <2>1 DEF Inv, TableOK, MetaOK
  <2>5. QED
    BY <1>2, <2>2, <2>3, <2>4 DEF Inv
<1>4. CASE ReadStatus(o) = OK
  <2> DEFINE block == Contents(o)
  <2>1. /\ meta' = block /\ pc' \in {"filter", "end"} /\ UNCHANGED returned
    BY <1>1, <1>4 DEF ReadMeta
  <2>2. /\ BlockOK(block) /\ (options.paranoid_checks => block.intact)
    BY <1>1, <1>4, ReadOK
  <2>3. /\ heap' = heap \cup OwnedBy(block) \cup compressed'
        /\ OwnedBy(block) \cap (heap \cup compressed') = {}
        /\ (compressed' \ compressed) \cap heap = {} /\ compressed \subseteq compressed'
        /\ made' \in 0..MaxReads /\ heap' \subseteq 1..made' /\ compressed' \subseteq heap'
    BY <1>1, <1>4, ReadAdds
  <2> HIDE DEF block
  <2>4. block \in Block /\ block # NULL
    BY <2>2, ConstantsAssumption DEF BlockOK
  <2>5. TypeOK'
    BY <1>1, <2>1, <2>3, <2>4 DEF TypeOK
  <2>6. BuffersOwned'
    <3>1. MetaBuffer' = OwnedBy(block)
      BY <2>1, <2>4 DEF MetaBuffer, OwnedBy
    <3>2. QED
      BY <1>1, <2>3, <3>1 DEF BuffersOwned
  <2>7. TableOK' /\ MetaOK'
    BY <1>1, <2>1, <2>2 DEF Inv, TableOK, MetaOK, BlockOK
  <2>8. QED
    BY <1>2, <2>5, <2>6, <2>7 DEF Inv
<1>5. QED
  BY <1>3, <1>4

LEMMA ReadFilterInv ==
  ASSUME Inv, NEW o \in Outcomes, ReadFilter(o)
  PROVE  Inv'
<1>1. /\ pc = "filter" /\ pc' = "end" /\ ReadBlock(o) /\ UNCHANGED <<options, meta, returned>>
      /\ table # NULL /\ meta # NULL /\ TypeOK /\ options \in Options /\ made \in Nat
      /\ table \in Rep /\ meta \in Block
      /\ table.filter = NULL /\ table.filter_data = NULL /\ table.options = options
      /\ options.filter_policy # NULL
      /\ BlockOK(table.index_block) /\ MetaOK
      /\ FilterBuffer = {} /\ heap = IndexBuffer \cup MetaBuffer \cup compressed
      /\ IndexBuffer \cap MetaBuffer = {} /\ compressed \cap (IndexBuffer \cup MetaBuffer) = {}
      /\ MetaBuffer' = MetaBuffer
  BY DEF ReadFilter, Inv, TypeOK, TableOK, BuffersOwned, FilterBuffer, MetaBuffer
<1>2. CASE ReadStatus(o) # OK
  <2>1. /\ UNCHANGED <<heap, compressed, table>>
        /\ made' \in 0..MaxReads /\ heap' \subseteq 1..made'
    BY <1>1, <1>2, ReadFails DEF ReadFilter
  <2>2. TypeOK'
    BY <1>1, <2>1 DEF TypeOK
  <2>3. BuffersOwned'
    <3>1. IndexBuffer' = IndexBuffer /\ FilterBuffer' = FilterBuffer
      BY <2>1 DEF IndexBuffer, FilterBuffer
    <3>2. QED
      BY <1>1, <2>1, <3>1 DEF BuffersOwned
  <2>4. TableOK' /\ MetaOK' /\ ParanoidTrust'
    BY <1>1, <2>1 DEF Inv, TableOK, MetaOK, ParanoidTrust
  <2>5. QED
    BY <2>2, <2>3, <2>4 DEF Inv
<1>3. CASE ReadStatus(o) = OK
  <2> DEFINE block == Contents(o)
             filter == [policy |-> options.filter_policy, data |-> Data(o),
                        intact |-> o.intact /\ meta.intact]
             data == IF block.owned_ THEN Data(o) ELSE NULL
  <2>1. table' = [table EXCEPT !.filter_data = data, !.filter = filter]
    BY <1>1, <1>3 DEF ReadFilter
  <2>2. /\ BlockOK(block) /\ block.data = Data(o)
        /\ options.paranoid_checks => o.intact
    BY <1>1, <1>3, ReadOK
  <2>3. /\ heap' = heap \cup OwnedBy(block) \cup compressed'
        /\ OwnedBy(block) \cap (heap \cup compressed') = {}
        /\ (compressed' \ compressed) \cap heap = {} /\ compressed \subseteq compressed'
        /\ made' \in 0..MaxReads /\ heap' \subseteq 1..made' /\ compressed' \subseteq heap'
    BY <1>1, <1>3, ReadAdds
  <2>4. /\ data \in Nat \cup {NULL} /\ filter \in Filter /\ filter # NULL
        /\ filter.data \in {Mapped, NULL, data}
        /\ OwnedBy(block) = {data} \ {NULL}
        /\ filter.intact = (o.intact /\ meta.intact)
    <3>1. block \in Block /\ (Data(o) \in Nat <=> block.owned_) /\ Data(o) \in Nat \cup {Mapped, NULL}
      BY <2>2 DEF BlockOK, Block
    <3>2. options.filter_policy \in Policies /\ o.intact \in BOOLEAN /\ meta.intact \in BOOLEAN
      BY <1>1 DEF Options, Outcomes, Block
    <3>3. filter \in Filter
      BY <3>1, <3>2 DEF Filter
    <3>4. QED
      BY <2>2, <3>1, <3>3, ConstantsAssumption DEF OwnedBy
  <2> HIDE DEF block, filter, data
  <2>5. /\ table' \in Rep /\ table'.options = options /\ table'.index_block = table.index_block
        /\ table'.filter_data = data /\ table'.filter = filter /\ table' # NULL
    BY <1>1, <2>1, <2>4, ConstantsAssumption DEF Rep
  <2>6. TypeOK'
    BY <1>1, <2>3, <2>5 DEF TypeOK
  <2>7. BuffersOwned'
    <3>1. IndexBuffer' = IndexBuffer /\ FilterBuffer' = OwnedBy(block)
      BY <1>1, <2>4, <2>5 DEF IndexBuffer, FilterBuffer, OwnedBy
    <3>2. QED
      BY <1>1, <2>3, <3>1 DEF BuffersOwned
  <2>8. ParanoidTrust'
    BY <1>1, <2>2, <2>4, <2>5 DEF Inv, ParanoidTrust, MetaOK
  <2>9. TableOK' /\ MetaOK'
    BY <1>1, <2>4, <2>5 DEF TableOK, MetaOK, BlockOK
  <2>10. QED
    BY <2>6, <2>7, <2>8, <2>9 DEF Inv
<1>4. QED
  BY <1>2, <1>3

LEMMA ReadFilterNotInv == ASSUME Inv, ReadFilterNot PROVE Inv'
<1>1. /\ pc = "filter" /\ pc' = "end"
      /\ UNCHANGED <<heap, made, table, options, meta, returned, compressed>>
  BY DEF ReadFilterNot
<1>2. TypeOK'
  BY <1>1 DEF Inv, TypeOK
<1>3. BuffersOwned'
  BY <1>1 DEF Inv, BuffersOwned, IndexBuffer, FilterBuffer, MetaBuffer
<1>4. QED
  BY <1>1, <1>2, <1>3 DEF Inv, ParanoidTrust, TableOK, MetaOK

LEMMA EndMetaInv == ASSUME Inv, EndMeta PROVE Inv'
<1>1. /\ pc = "end" /\ pc' = "open" /\ returned' = OK /\ meta' = NULL /\ meta # NULL
      /\ heap' = heap \ MetaBuffer /\ UNCHANGED <<made, table, options, compressed>>
  BY DEF EndMeta, Return, Inv, TypeOK, MetaBuffer
<1>2. IndexBuffer' = IndexBuffer /\ FilterBuffer' = FilterBuffer /\ MetaBuffer' = {}
  BY <1>1 DEF IndexBuffer, FilterBuffer, MetaBuffer
<1>3. BuffersOwned'
  BY <1>1, <1>2 DEF Inv, BuffersOwned
<1>4. TypeOK'
  BY <1>1, <1>2, <1>3 DEF Inv, TypeOK, BuffersOwned
<1>5. QED
  BY <1>1, <1>3, <1>4 DEF Inv, ParanoidTrust, TableOK, MetaOK

LEMMA DeleteInv == ASSUME Inv, Delete PROVE Inv'
<1>1. /\ pc = "open" /\ pc' = "none" /\ table # NULL /\ table' = NULL /\ meta = NULL
      /\ MetaBuffer = {} /\ UNCHANGED <<made, options, meta, returned, compressed>>
      /\ heap' = heap \ (IndexBuffer \cup {table.filter_data})
  BY DEF Delete, Inv, TypeOK, IndexBuffer, MetaBuffer
<1>2. NULL \notin heap
  <2>1. heap \subseteq Nat
    BY DEF Inv, TypeOK
  <2>2. QED
    BY <2>1, ConstantsAssumption
<1>3. heap' = compressed
  BY <1>1, <1>2 DEF Inv, BuffersOwned, FilterBuffer
<1>4. BuffersOwned'
  BY <1>1, <1>3 DEF BuffersOwned, IndexBuffer, FilterBuffer, MetaBuffer
<1>5. TypeOK'
  BY <1>1, <1>3 DEF Inv, TypeOK
<1>6. QED
  BY <1>1, <1>4, <1>5 DEF Inv, ParanoidTrust, TableOK, MetaOK

-----------------------------------------------------------------------------
LEMMA Invariance == Spec => []Inv
<1>1. Inv /\ [Next]_vars => Inv'
  <2> SUFFICES ASSUME Inv, [Next]_vars PROVE Inv'
    OBVIOUS
  <2>1. CASE UNCHANGED vars
    <3>1. TypeOK'
      BY <2>1 DEF vars, Inv, TypeOK
    <3>2. BuffersOwned'
      BY <2>1 DEF vars, Inv, BuffersOwned, IndexBuffer, FilterBuffer, MetaBuffer
    <3>3. QED
      BY <2>1, <3>1, <3>2 DEF vars, Inv, ParanoidTrust, TableOK, MetaOK
  <2>2. QED
    BY <2>1, OpenFooterInv, OpenIndexInv, ReadMetaInv, ReadFilterInv, ReadFilterNotInv,
       EndMetaInv, DeleteInv DEF Next
<1>2. QED
  BY <1>1, InitInv, PTL DEF Spec

\* The types; an Open that returns OK, and no other, has given out a table.
THEOREM TypeCorrect == Spec => []TypeOK
<1>1. Inv => TypeOK
  BY DEF Inv
<1>2. QED
  BY <1>1, Invariance, PTL

\* Every buffer has one owner, or is one that ReadBlock lost.
THEOREM Owned == Spec => []BuffersOwned
<1>1. Inv => BuffersOwned
  BY DEF Inv
<1>2. QED
  BY <1>1, Invariance, PTL

\* The memory an open table points to is there.
THEOREM Alive == Spec => []DataAlive
<1>1. Inv => DataAlive
  <2> SUFFICES ASSUME Inv, table # NULL
               PROVE  /\ table.index_block.data \in heap \cup {Mapped, NULL}
                      /\ table.filter # NULL => table.filter.data \in heap \cup {Mapped, NULL}
    BY DEF DataAlive
  <2>1. table.index_block.data \in heap \cup {Mapped, NULL}
    <3>1. BlockOK(table.index_block)
      BY DEF Inv, TableOK
    <3>2. CASE table.index_block.owned_
      BY <3>2 DEF Inv, BuffersOwned, IndexBuffer, OwnedBy
    <3>3. CASE ~table.index_block.owned_
      BY <3>1, <3>3 DEF BlockOK, Block
    <3>4. QED
      BY <3>1, <3>2, <3>3 DEF BlockOK, Block
  <2>2. table.filter_data \in heap \cup {NULL}
    BY DEF Inv, BuffersOwned, FilterBuffer
  <2>3. QED
    BY <2>1, <2>2 DEF Inv, TableOK
<1>2. QED
  BY <1>1, Invariance, PTL

\* A table opened with paranoid_checks holds nothing that was altered.
THEOREM Trusted == Spec => []ParanoidTrust
<1>1. Inv => ParanoidTrust
  BY DEF Inv
<1>2. QED
  BY <1>1, Invariance, PTL
=============================================================================
