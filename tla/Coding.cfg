\* Two items: any of the 128 words and four slices, blocks and footers, read
\* whole, cut anywhere, or with any one bit of the blocks altered.
SPECIFICATION FormatSpec
CONSTANTS
  B = 4
  MaxGroups = 4
  MaxGroups64 = 7
  WordSize = 128
  Slices <- MCSlices
  MaxPuts = 2
  ByteBits = 3
  Polynomial <- MCPolynomial
  Low = 32
  High = 128
  kMaskDelta = 2773
  Blocks <- MCBlocks
  Types = {0}
  Handles <- MCHandles
  MagicLo = 2903
  MagicHi = 3515
  NULL = NULL
  Corruption = Corruption
INVARIANTS ReadsBack FailsOnlyCut RoomExact ChecksumExact AlterationCaught FooterFound
CHECK_DEADLOCK FALSE
