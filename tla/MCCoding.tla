------------------------------ MODULE MCCoding ------------------------------
(* Coding and Format for TLC: bytes of two bits and the flag, words of      *)
(* seven bits, so that the last byte of a long varint is not full, as with  *)
(* 7 and 32.                                                                *)
EXTENDS Format

\* Slices whose lengths take a byte or two, of bytes with and without the flag.
MCSlices == {<< >>, <<B>>, <<1, B, 2>>, <<B, B + 1, 0, B>>}

\* Blocks without strides, with one word in each, and with turns taken once and
\* twice.
MCBlocks == {[i \in 1..n |-> (3 * i * i + n) % (2 * B)] : n \in {2, 16, 22, 38}}

MCHandles == {<<0, 5>>, <<Power[2], Power[6] + 1>>}

\* x^12 + x^11 + x^3 + x^2 + x + 1, from the low end.
MCPolynomial == {0, 8, 9, 10, 11}

\* The definition of the checksum, with the widths of the code, gives the value
\* that CanAccelerateCRC32C expects of "TestCRCBuffer" (crc32c.cpp:269-273).
Real == INSTANCE Checksum WITH
          ByteBits <- 8,
          Polynomial <- {3, 4, 5, 6, 8, 9, 11, 12, 13, 17, 18, 20, 21, 22, 23, 25, 31}

ASSUME TestCRC ==
  Real!Checksum(<<84, 101, 115, 116, 67, 82, 67, 66, 117, 102, 102, 101, 114>>)
    = {i \in 0..31 : (IF i < 16 THEN \h59fa \div 2^i ELSE \hdcbc \div 2^(i - 16)) % 2 = 1}
=============================================================================
