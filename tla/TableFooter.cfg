\* One block and no failure suffice.
SPECIFICATION Spec
CONSTANTS
  Keys <- MCKeys
  OptionSets <- Uncompressed
  MaxEntries = 1
  OK = OK
  IOError = IOError
  Corruption = Corruption
  NULL = NULL
  kNoCompression = kNoCompression
  kSnappyCompression = kSnappyCompression
  bytewise = bytewise
  reverse = reverse
  bloom = bloom
INVARIANTS FinishedTableOpens
CHECK_DEADLOCK FALSE
