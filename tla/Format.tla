------------------------------- MODULE Format -------------------------------
(***************************************************************************)
(* table/format.cpp and TableBuilder::WriteRawBlock, in bytes: blocks with *)
(* their trailers, and the footer behind them, in the buffer of Coding     *)
(* that is now a file.  The file may come back cut, or with a bit of its   *)
(* blocks altered.                                                         *)
(***************************************************************************)
EXTENDS Coding, Crc32c, Masking

CONSTANTS
  Blocks,        \* the contents of the blocks that are written
  Types,         \* the bytes of their CompressionType, whose contents are raw all the same
  Handles,       \* the block handles <<offset, size>> of footers
  MaxGroups64,   \* kMaxVarint64Length: 10
  MagicLo, MagicHi,
  Corruption

ASSUME FormatAssumption ==
  /\ Power2[ByteBits] = 2 * B
  /\ Low * High = Power2[4 * ByteBits]
  /\ MagicLo \in 0..Low * High - 1 /\ MagicHi \in 0..Low * High - 1
  /\ Blocks \subseteq Seq(Octet) /\ Types \subseteq {0, 1} /\ MaxGroups64 \in Nat \ {0}
  /\ Handles \subseteq {h \in Nat \X Nat : h[1] < Power[MaxGroups64] /\ h[2] < Power[MaxGroups64]}

VARIABLES
  altered,       \* whether a bit of the file was altered
  footer         \* what the reading of the footer gave, NULL before

formatVars == <<codingVars, altered, footer>>

kBlockTrailerSize == 5

kMaxEncodedLength == 2 * MaxGroups64

kEncodedLength == 2 * kMaxEncodedLength + 8

-----------------------------------------------------------------------------
EncodeFixed32(n) == [i \in 1..4 |-> (n \div Power2[(i - 1) * ByteBits]) % Power2[ByteBits]]

DecodeFixed32(p) == LET At(i) == p[i] * Power2[(i - 1) * ByteBits]
                    IN At(1) + At(2) + At(3) + At(4)

\* The number of a word that Crc32c has as a set of bits.
Number(w) ==
  LET number[n \in 0..4 * ByteBits] ==
        IF n = 0 THEN 0
        ELSE number[n - 1] + (IF n - 1 \in w THEN Power2[n - 1] ELSE 0)
  IN number[4 * ByteBits]

\* The checksum of a trailer, for data in memory at an address.
TrailerCrc(data, type, address) == Number(Extend(Value(data, address), <<type>>, 0))

\* WriteRawBlock, and the offset of the builder after it.
WriteRawBlock(data, type, address) ==
  LET crc == EncodeFixed32(Mask(TrailerCrc(data, type, address)))
  IN /\ Put(data \o (<<type>> \o crc), Len(data) + kBlockTrailerSize,
            [block |-> data, type |-> type])
     /\ UNCHANGED <<altered, footer>>

\* BlockHandle::EncodeTo
EncodeHandle(h) == EncodeVarint64[h[1]] \o EncodeVarint64[h[2]]

\* Defect: no padding.
PaddedNot(handles) == handles

\* dst->resize(2 * kMaxEncodedLength)
Padded(handles) == [i \in 1..2 * kMaxEncodedLength |->
                      IF i <= Len(handles) THEN handles[i] ELSE 0]

\* Footer::EncodeTo of an empty string.
EncodeFooter(meta, index) ==
  Padded(EncodeHandle(meta) \o EncodeHandle(index))
    \o EncodeFixed32(MagicLo) \o EncodeFixed32(MagicHi)

Has(item, kind) == kind \in DOMAIN item

\* The file ends with its footer.
Closed == put # << >> /\ Has(Last(put), "footer")

PutFooter(meta, index) ==
  /\ Put(EncodeFooter(meta, index), kEncodedLength, [footer |-> <<meta, index>>])
  /\ UNCHANGED <<altered, footer>>

-----------------------------------------------------------------------------
OnlyBlocks == \A m \in DOMAIN put : Has(put[m], "block")

\* A bit of a file of blocks changes on the way back.
Alter(n, i) ==
  /\ input # NULL /\ ~cut /\ ~altered /\ got = << >> /\ ~failed
  /\ OnlyBlocks
  /\ input' = [input EXCEPT ![n] = IF i \in Bits[@] THEN @ - Power2[i] ELSE @ + Power2[i]]
  /\ altered' = TRUE
  /\ UNCHANGED <<dst, room, put, cut, got, failed, footer>>

\* ReadBlock, with verify_checksums, of the block in front of the input; the
\* handle gives its size.
ReadBlock(address) ==
  /\ Reads /\ Has(Expected, "block")
  /\ LET n == Len(Expected.block)
         type == input[n + 1]
         crc == Unmask(DecodeFixed32(SubSeq(input, n + 2, n + 5)))
         Accepted == /\ Len(input) >= n + kBlockTrailerSize
                     /\ Number(Value(SubSeq(input, 1, n + 1), address)) = crc
                     /\ type \in {0, 1}
     IN IF Accepted
          THEN /\ got' = Append(got, [block |-> IF type = 0 THEN SubSeq(input, 1, n) ELSE << >>,
                                      type |-> type])
               /\ input' = After(input, n + kBlockTrailerSize)
               /\ UNCHANGED failed
          ELSE failed' = TRUE /\ UNCHANGED <<input, got>>
  /\ UNCHANGED <<dst, room, put, cut, altered, footer>>

\* GetVarint64, which the code declares without defining it: the value and the
\* rest of the input.
GetVarint64(p) ==
  LET n == Min({m \in 1..Len(p) : p[m] < B})
  IN [value |-> Result(p, n), rest |-> After(p, n)]

\* Footer::DecodeFrom
DecodeFooter(p) ==
  LET magic_ptr == kEncodedLength - 8
      a == GetVarint64(p)
      b == GetVarint64(a.rest)
      c == GetVarint64(b.rest)
      d == GetVarint64(c.rest)
  IN IF \/ DecodeFixed32(SubSeq(p, magic_ptr + 1, magic_ptr + 4)) # MagicLo
        \/ DecodeFixed32(SubSeq(p, magic_ptr + 5, magic_ptr + 8)) # MagicHi
       THEN Corruption
     ELSE << <<a.value, b.value>>, <<c.value, d.value>> >>

\* The front of Table::Open, before anything else of the file is read.
OpenFooter ==
  /\ Reads /\ got = << >> /\ ~altered /\ footer = NULL
  /\ footer' = IF Len(input) < kEncodedLength THEN Corruption
               ELSE DecodeFooter(SubSeq(input, Len(input) - kEncodedLength + 1, Len(input)))
  /\ UNCHANGED <<codingVars, altered>>

FormatInit == CodingInit /\ altered = FALSE /\ footer = NULL

FormatNext ==
  \/ ~Closed /\ PutAny /\ UNCHANGED <<altered, footer>>
  \/ ReadAny /\ UNCHANGED <<altered, footer>>
  \/ \E data \in Blocks, type \in Types, address \in 0..3 : ~Closed /\ WriteRawBlock(data, type, address)
  \/ \E meta, index \in Handles : ~Closed /\ PutFooter(meta, index)
  \/ input # NULL /\ \E n \in DOMAIN input, i \in 0..ByteBits - 1 : Alter(n, i)
  \/ \E address \in 0..3 : ReadBlock(address)
  \/ OpenFooter

FormatSpec == FormatInit /\ [][FormatNext]_formatVars

-----------------------------------------------------------------------------
\* The checksum in a trailer is that of contents and type byte together, by its
\* definition: the two calls of Extend, their tables, strides and alignments
\* come to the same.
ChecksumExact ==
  input = NULL /\ put # << >> /\ Has(Last(put), "block") =>
    Unmask(DecodeFixed32(SubSeq(dst, Len(dst) - 3, Len(dst))))
      = Number(Checksum(Append(Last(put).block, Last(put).type)))

\* A block is refused only because a bit changed or the file was cut.
RefusesOnly ==
  failed /\ Has(Expected, "block") =>
    altered \/ Len(input) < Len(Expected.block) + kBlockTrailerSize

\* Where the blocks lie in memory when they are read is no matter, and no bit
\* changes unnoticed: not in contents, type or checksum.
AlterationCaught == (altered => Len(got) < Len(put)) /\ RefusesOnly

\* A whole file gives the two handles that were written.
FooterWhole == footer # NULL /\ Closed /\ ~cut => footer = Last(put).footer

\* Table::Open finds the footer of a whole file and refuses any other.
FooterFound ==
  FooterWhole /\ (footer # NULL /\ (cut \/ ~Closed) => footer = Corruption)

-----------------------------------------------------------------------------
(* The inductive invariant.                                                *)

Item ==
  [word : Word] \cup [slice : Slices] \cup [block : Blocks \cup {<< >>}, type : Types]
    \cup [footer : Handles \X Handles]

\* What an item is read back as: under kSnappyCompression a block has no contents.
ReadAs(item) ==
  IF Has(item, "block") /\ item.type = 1 THEN [block |-> << >>, type |-> 1] ELSE item

ReadsAs == \A n \in DOMAIN got : got[n] = ReadAs(put[n])

\* The trailer of a block, by the definition of the checksum.
Trailer(data, type) ==
  <<type>> \o EncodeFixed32(Mask(Number(Checksum(Append(data, type)))))

Code(item) ==
  CASE Has(item, "word") -> EncodeVarint32(item.word)
    [] Has(item, "slice") -> EncodeVarint32(Len(item.slice)) \o item.slice
    [] Has(item, "block") -> item.block \o Trailer(item.block, item.type)
    [] Has(item, "footer") -> EncodeFooter(item.footer[1], item.footer[2])

\* The n-th item lies behind at[n - 1] and ends at at[n].
Layout(at) ==
  /\ at[0] = 0 /\ at[Len(put)] = Len(dst)
  /\ \A n \in 1..Len(put) :
        /\ at[n] = at[n - 1] + Len(Code(put[n]))
        /\ \A m \in 1..Len(Code(put[n])) : dst[at[n - 1] + m] = Code(put[n])[m]

\* What is left to read begins with the item expected next.
InputOK(at) ==
  LET start == at[Len(got)]
  IN /\ start + Len(input) <= Len(dst)
     /\ cut = (start + Len(input) < Len(dst))
     /\ \A m \in 1..Len(input) : input[m] = dst[start + m]

CodingInv ==
  /\ dst \in Seq(Nat) /\ put \in Seq(Item) /\ got \in Seq(Item) /\ Len(got) <= Len(put)
  /\ ReadsAs /\ FailsOnlyCut /\ RoomExact
  /\ input = NULL => got = << >> /\ ~failed
  /\ input # NULL => input \in Seq(Nat)
  /\ \E at \in [0..Len(put) -> 0..Len(dst)] : Layout(at) /\ (input # NULL => InputOK(at))

\* What is left to read is what was written, but for the octet at hit.
HitOK(at, hit) ==
  LET start == at[Len(got)]
  IN /\ Len(input) = Len(dst) - start
     /\ hit \in 1..Len(input) /\ input[hit] # dst[start + hit]
     /\ \A m \in 1..Len(input) : m # hit => input[m] = dst[start + m]

\* The altered octet has not been read.
AlteredInv ==
  /\ input \in Seq(Octet) /\ dst \in Seq(Octet) /\ ~cut /\ OnlyBlocks
  /\ put \in Seq(Item) /\ got \in Seq(Item) /\ Len(got) <= Len(put)
  /\ ReadsAs /\ RoomExact
  /\ \E at \in [0..Len(put) -> 0..Len(dst)] : Layout(at) /\ \E hit \in Nat : HitOK(at, hit)

FormatInv ==
  /\ RefusesOnly
  /\ OnlyBlocks => dst \in Seq(Octet)
  /\ ~altered => CodingInv
  /\ altered => AlteredInv

\* Nothing is put once the footer has been read.
FooterInv == FooterWhole /\ (footer # NULL => input # NULL)
=============================================================================
