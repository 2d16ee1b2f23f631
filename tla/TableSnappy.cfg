\* The compression that Options documents as its default.
SPECIFICATION Spec
CONSTANTS
  Keys <- MCKeys
  OptionSets <- Default
  MaxEntries = 1
  OK = OK
  IOError = IOError
  Corruption = Corruption
  NULL = NULL
  kNoCompression = kNoCompression
  kSnappyCompression = kSnappyCompression
  bytewise = bytewise
  reverse = reverse
  bloom = bloom
INVARIANTS EntriesReachable
CHECK_DEADLOCK FALSE
