\* Seven reads: two tables opened in full, one behind the other, with a failed
\* Open between them, or three whose Opens fail early.
SPECIFICATION Spec
CONSTANTS
  Policies = {bloom}
  MaxReads = 7
  OK = OK
  IOError = IOError
  Corruption = Corruption
  NULL = NULL
  Mapped = Mapped
  Wild = Wild
  kNoCompression = kNoCompression
  kSnappyCompression = kSnappyCompression
  Unknown = Unknown
INVARIANTS TypeOK BuffersOwned DataAlive ParanoidTrust
CHECK_DEADLOCK FALSE
