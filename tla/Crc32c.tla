------------------------------- MODULE Crc32c -------------------------------
(***************************************************************************)
(* util/crc32c.cpp: Extend, from the point where it does not hand its work *)
(* to itself.                                                              *)
(***************************************************************************)
EXTENDS Checksum, FiniteSets

-----------------------------------------------------------------------------
(* The tables, by what they hold.                                          *)

\* The register moves on by one bit, with a zero behind it.
Shifted(l) == IF 0 \in l THEN Xor(ShiftRight(l, 1), Polynomial) ELSE ShiftRight(l, 1)

\* The bit i, n zero bits later.
AfterZeros(n, i) ==
  LET zeros[m \in 0..n] == IF m = 0 THEN {i} ELSE Shifted(zeros[m - 1])
  IN zeros[n]

\* The word w under the linear map whose value at the bit i is image[i].
Applied(image, w) ==
  {j \in Positions : Cardinality({i \in w : j \in image[i]}) % 2 = 1}

kByteExtensionTable ==
  LET image == [i \in 0..ByteBits - 1 |-> AfterZeros(ByteBits, i)]
  IN [c \in Octet |-> Applied(image, Bits[c])]

\* kStrideExtensionTable[k] is the k-th of the four: the byte 3 - k of a word,
\* 16 bytes later.
kStrideExtensionTable ==
  LET image == [i \in Positions |-> AfterZeros(16 * ByteBits, i)]
  IN [k \in 0..3 |-> [c \in Octet |-> Applied(image, ShiftLeft(Bits[c], (3 - k) * ByteBits))]]

-----------------------------------------------------------------------------
\* The byte n of a word, as a number.
ByteAt(w, n) ==
  CHOOSE c \in Octet : Bits[c] = ShiftRight(w, n * ByteBits) \cap 0..ByteBits - 1

\* STEP1
Step1[l \in SUBSET Positions] ==
  [byte \in Octet |->
     Xor(kByteExtensionTable[ByteAt(Xor(l, Bits[byte]), 0)], ShiftRight(l, ByteBits))]

\* Defect: the top byte of a word is lost.
WordOfThree(p, n) ==
  UNION {ShiftLeft(Bits[p[4 * (n - 1) + i]], (i - 1) * ByteBits) : i \in 1..3}

\* ReadUint32LE of the n-th word of the bytes p.
WordOf(p, n) == UNION {ShiftLeft(Bits[p[4 * (n - 1) + i]], (i - 1) * ByteBits) : i \in 1..4}

\* STEP4
Step4(crc, word) ==
  LET From(k) == kStrideExtensionTable[k][ByteAt(crc, 3 - k)]
  IN Xor(word, Xor(Xor(From(3), From(2)), Xor(From(1), From(0))))

\* One turn of the loop of STEP4W.
Turn(w) == Xor(ShiftRight(w, ByteBits), kByteExtensionTable[ByteAt(w, 0)])

\* STEP4W
Step4W(l, crc) == Turn(Turn(Turn(Turn(Xor(crc, l)))))

\* Defect: the strides do not take turns.
StrideStepStuck(crcs, word) == <<Step4(Head(crcs), word)>> \o Tail(crcs)

\* A word goes to the stride whose turn it is; STEP16 is four of these.
StrideStep(crcs, word) == Append(Tail(crcs), Step4(Head(crcs), word))

\* The words of p, which are at least four, in four strides.
Strides(l, p) ==
  LET words == [n \in 1..Len(p) \div 4 |-> WordOf(p, n)]
      crcs[n \in 4..Len(words)] ==
        IF n = 4 THEN <<Xor(words[1], l), words[2], words[3], words[4]>>
                 ELSE StrideStep(crcs[n - 1], words[n])
      last == crcs[Len(words)]
  IN Step4W(Step4W(Step4W(Step4W({}, last[1]), last[2]), last[3]), last[4])

\* The register l after the bytes p, each with STEP1.
Bytes(l, p) ==
  LET register[n \in 0..Len(p)] == IF n = 0 THEN l ELSE Step1[register[n - 1]][p[n]]
  IN register[Len(p)]

\* Extend for data at the given address: bytes up to an aligned address if
\* there is one, the strides if 16 bytes are left, and the bytes that remain.
Extend(crc, data, address) ==
  LET x == (-address) % 4
      head == IF x <= Len(data) THEN x ELSE 0
      rest == Len(data) - head
      bulk == IF rest >= 16 THEN 4 * (rest \div 4) ELSE 0
      l0 == Bytes(Xor(crc, kCRC32Xor), SubSeq(data, 1, head))
      l1 == IF bulk > 0 THEN Strides(l0, SubSeq(data, head + 1, head + bulk)) ELSE l0
      l2 == Bytes(l1, SubSeq(data, head + bulk + 1, Len(data)))
  IN Xor(l2, kCRC32Xor)

Value(data, address) == Extend({}, data, address)
=============================================================================
