\* Up to four entries of five keys in blocks of one or two, with a filter;
\* each write may fail after any of its cells.
SPECIFICATION Spec
CONSTANTS
  Keys <- MCKeys
  OptionSets <- Uncompressed
  MaxEntries = 4
  OK = OK
  IOError = IOError
  Corruption = Corruption
  NULL = NULL
  kNoCompression = kNoCompression
  kSnappyCompression = kSnappyCompression
  bytewise = bytewise
  reverse = reverse
  bloom = bloom
INVARIANTS TypeOK AssertionsHold OffsetExact EntriesReachable FilterCovers
PROPERTIES ErrorFreezes
CHECK_DEADLOCK FALSE
