------------------------------ MODULE Checksum ------------------------------
(***************************************************************************)
(* CRC-32C as util/crc32c.h means it: the remainder that a shift register  *)
(* makes of the data, bit by bit, inverted before and after.  A word is    *)
(* the set of the positions of its one bits, a byte of the data is a       *)
(* number of ByteBits bits.                                                *)
(***************************************************************************)
EXTENDS Integers, Sequences

CONSTANTS
  ByteBits,      \* 8
  Polynomial     \* 0x82f63b78, Castagnoli's polynomial from the low end

\* The positions of the bits of a word.
Positions == 0..4 * ByteBits - 1

ASSUME ChecksumAssumption ==
  /\ ByteBits \in Nat \ {0}
  /\ Polynomial \subseteq Positions /\ 4 * ByteBits - 1 \in Polynomial

\* 2^n
Power2[n \in Nat] == IF n = 0 THEN 1 ELSE 2 * Power2[n - 1]

Octet == 0..Power2[ByteBits] - 1

Xor(v, w) == (v \ w) \cup (w \ v)

ShiftRight(w, n) == {i - n : i \in {j \in w : j >= n}}

ShiftLeft(w, n) == {i + n : i \in w}

Bits == [b \in Octet |-> {i \in 0..ByteBits - 1 : (b \div Power2[i]) % 2 = 1}]

kCRC32Xor == Positions

\* The register l after the bits of a byte.
Fed[l \in SUBSET Positions] ==
  [byte \in Octet |->
     LET fed[n \in 0..ByteBits] ==
           IF n = 0 THEN l
           ELSE LET r == fed[n - 1]
                IN IF (0 \in r) = (n - 1 \in Bits[byte]) THEN ShiftRight(r, 1)
                   ELSE Xor(ShiftRight(r, 1), Polynomial)
     IN fed[ByteBits]]

Checksum(data) ==
  LET register[n \in 0..Len(data)] ==
        IF n = 0 THEN kCRC32Xor ELSE Fed[register[n - 1]][data[n]]
  IN Xor(register[Len(data)], kCRC32Xor)
=============================================================================
