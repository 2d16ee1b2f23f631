\* Blocks of up to four of four keys under restart intervals 1 and 3, which
\* between them give every placing of the restart points; any of the entries
\* may be damaged.  The calls, not their caller, are scheduled fairly.
SPECIFICATION FairSpec
CONSTANTS
  Keys <- MCKeys
  Bytes <- MCBytes
  Values = {a, b}
  Intervals = {1, 3}
  MaxEntries = 4
  OK = OK
  Corruption = Corruption
  NULL = NULL
INVARIANTS TypeOK PositionsAgree
PROPERTIES ImplementsCursor CallsReturn
