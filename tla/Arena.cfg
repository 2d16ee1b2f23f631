\* A block of 16 bytes, so that requests up to 4 share blocks, 5 and 17 get
\* their own (17 is bigger than a block), and alignment 4 needs slop of 1 to 3.
SPECIFICATION Spec
CONSTANTS
  BlockSize = 16
  Align = 4
  PointerSize = 4
  Sizes = {1, 2, 4, 5, 17}
  MaxBlocks = 3
  MaxAllocs = 6
INVARIANTS TypeOK Separate AlignedResults WasteBounded UsageExact
CHECK_DEADLOCK FALSE
