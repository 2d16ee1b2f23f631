------------------------------ MODULE Masking -------------------------------
(***************************************************************************)
(* Mask and Unmask of util/crc32c.h.  A word of 32 bits is a number;       *)
(* rotating it by 15 bits splits it at Low = 2^15.                         *)
(***************************************************************************)
EXTENDS Integers

CONSTANTS
  Low,           \* 2^15
  High,          \* 2^17
  kMaskDelta

ASSUME MaskAssumption ==
  /\ Low \in Nat \ {0} /\ High \in Nat \ {0}
  /\ kMaskDelta \in 0..Low * High - 1

Mask(crc) == ((crc \div Low) + (crc % Low) * High + kMaskDelta) % (Low * High)

Unmask(masked_crc) ==
  LET rot == (masked_crc - kMaskDelta) % (Low * High)
  IN (rot \div High) + (rot % High) * Low
=============================================================================
