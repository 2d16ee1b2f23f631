------------------------------- MODULE Coding -------------------------------
(***************************************************************************)
(* util/coding.{h,cpp}: varints and length-prefixed slices, written one    *)
(* behind the other as MemTable::Add and BlockBuilder::Add do, and read    *)
(* back from a copy that may have been cut.                                *)
(*                                                                         *)
(* A byte of a varint holds a number below B and the flag B; a varint has  *)
(* at most MaxGroups bytes.  Integers are below WordSize, and what is      *)
(* shifted past them is lost.                                              *)
(***************************************************************************)
EXTENDS Integers, Sequences, SequencesExt, FiniteSetsExt

CONSTANTS
  B,             \* 128
  MaxGroups,     \* 5
  WordSize,      \* 2^32
  Slices,        \* the slices that are put
  MaxPuts,       \* bound: what is put into one buffer
  NULL

\* B^n: a shift by n groups.
Power[n \in Nat] == IF n = 0 THEN 1 ELSE B * Power[n - 1]

ASSUME CodingAssumption ==
  /\ B \in Nat /\ B >= 2 /\ MaxGroups \in Nat \ {0} /\ MaxPuts \in Nat
  /\ WordSize \in Nat /\ Power[MaxGroups - 1] < WordSize /\ WordSize <= Power[MaxGroups]
  /\ \A s \in Slices : s \in Seq(Nat) /\ Len(s) < WordSize
  /\ NULL \notin Seq(Nat) /\ NULL \notin [value : Nat, bytes : Nat]

VARIABLES
  dst,           \* the buffer that is written
  room,          \* the bytes MemTable::Add would have allocated for it
  put,           \* history: the words and slices put into it
  input,         \* what is left to read, NULL before reading
  cut,           \* whether the copy was cut
  got,           \* history: the words and slices read
  failed         \* whether the last read returned false

codingVars == <<dst, room, put, input, cut, got, failed>>

Word == 0..WordSize - 1

-----------------------------------------------------------------------------
\* VarintLength
VarintLength[v \in Nat] == IF v >= B THEN 1 + VarintLength[v \div B] ELSE 1

\* The n-th group of bits of v, from the low end.
Group(v, n) == (v \div Power[n - 1]) % B

\* Defect: the test of the second branch is for <=.
EncodeVarint32Late(v) ==
  LET n == IF v = Power[2] THEN 2
           ELSE Min({m \in 1..MaxGroups : m = MaxGroups \/ v < Power[m]})
  IN [m \in 1..n |-> Group(v, m) + (IF m < n THEN B ELSE 0)]

\* EncodeVarint32: the branch for n bytes, each but the last with the flag B.
EncodeVarint32(v) ==
  LET n == Min({m \in 1..MaxGroups : m = MaxGroups \/ v < Power[m]})
  IN [m \in 1..n |-> Group(v, m) + (IF m < n THEN B ELSE 0)]

\* EncodeVarint64
EncodeVarint64[v \in Nat] ==
  IF v >= B THEN <<(v % B) + B>> \o EncodeVarint64[v \div B] ELSE <<v>>

\* The groups of the first n bytes of p, put together.
Result(p, n) ==
  LET result[m \in 0..n] == IF m = 0 THEN 0 ELSE result[m - 1] + (p[m] % B) * Power[m - 1]
  IN result[n]

\* Defect: the loop ends at shift < 28.
GetVarint32PtrShort(p, end) ==
  LET Ends == {n \in 1..Len(p) : n <= end /\ n < MaxGroups /\ p[n] < B}
      n == Min(Ends)
  IN IF Ends = {} THEN NULL
     ELSE [value |-> Result(p, n), bytes |-> n]

\* GetVarint32PtrFallback, and in front of it GetVarint32Ptr: the value and the
\* number of bytes read, or NULL when no byte without the flag comes in time.
GetVarint32Ptr(p, end) ==
  LET Ends == {n \in 1..Len(p) : n <= end /\ n <= MaxGroups /\ p[n] < B}
      n == Min(Ends)
  IN IF Ends = {} THEN NULL
     ELSE [value |-> Result(p, n) % WordSize, bytes |-> n]

After(p, n) == SubSeq(p, n + 1, Len(p))

-----------------------------------------------------------------------------
CodingInit ==
  /\ dst = << >> /\ room = 0 /\ put = << >>
  /\ input = NULL /\ cut = FALSE /\ got = << >> /\ failed = FALSE

Put(bytes, length, item) ==
  /\ input = NULL /\ Len(put) < MaxPuts
  /\ dst' = dst \o bytes
  /\ room' = room + length
  /\ put' = Append(put, item)
  /\ UNCHANGED <<input, cut, got, failed>>

PutVarint32(v) == Put(EncodeVarint32(v), VarintLength[v], [word |-> v])

PutLengthPrefixedSlice(s) ==
  Put(EncodeVarint32(Len(s)) \o s, VarintLength[Len(s)] + Len(s), [slice |-> s])

\* The first n bytes of the buffer are read.
Read(n) ==
  /\ input = NULL /\ put # << >>
  /\ input' = SubSeq(dst, 1, n)
  /\ cut' = (n < Len(dst))
  /\ UNCHANGED <<dst, room, put, got, failed>>

\* The reader knows the kind of what comes next.
Expected == put[Len(got) + 1]

IsWord == "word" \in DOMAIN Expected

IsSlice == "slice" \in DOMAIN Expected

Reads == input # NULL /\ Len(got) < Len(put) /\ ~failed

\* Returns false and leaves input alone, or moves it behind the varint.
GetVarint32 ==
  /\ Reads /\ IsWord
  /\ LET q == GetVarint32Ptr(input, Len(input))
     IN IF q = NULL
          THEN failed' = TRUE /\ UNCHANGED <<input, got>>
          ELSE /\ got' = Append(got, [word |-> q.value])
               /\ input' = After(input, q.bytes)
               /\ UNCHANGED failed
  /\ UNCHANGED <<dst, room, put, cut>>

\* GetLengthPrefixedSlice of memtable.cpp, for memory that is not corrupted:
\* the length is read from the next five bytes, and nothing is tested.
GetLengthPrefixedSlice ==
  /\ Reads /\ ~cut /\ IsSlice
  /\ LET q == GetVarint32Ptr(input, MaxGroups)
         rest == After(input, q.bytes)
     IN /\ got' = Append(got, [slice |-> SubSeq(rest, 1, q.value)])
        /\ input' = After(rest, q.value)
  /\ UNCHANGED <<dst, room, put, cut, failed>>

PutAny == \/ \E v \in Word : PutVarint32(v)
          \/ \E s \in Slices : PutLengthPrefixedSlice(s)

ReadAny == \/ \E n \in 0..Len(dst) : Read(n)
           \/ GetVarint32 \/ GetLengthPrefixedSlice

CodingNext == PutAny \/ ReadAny

CodingSpec == CodingInit /\ [][CodingNext]_codingVars

-----------------------------------------------------------------------------
\* What was put is read back, in order and as it was, from any sequence of
\* varints and slices; from a buffer that was cut nothing else is ever read.
ReadsBack == \A n \in DOMAIN got : got[n] = put[n]

\* A varint fails to be read only because the input was cut within it, and what is
\* left is that varint as far as it goes.
FailsOnlyCut ==
  failed /\ IsWord => /\ cut /\ Len(input) < Len(EncodeVarint64[Expected.word])
                      /\ IsPrefix(input, EncodeVarint64[Expected.word])

\* The bytes MemTable::Add allocates by VarintLength are those it writes
\* (memtable.cpp:91); and the offset of a table builder is the size of its file.
RoomExact == room = Len(dst)
=============================================================================
