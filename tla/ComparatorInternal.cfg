\* FindShortSuccessor of the InternalKeyComparator on keys of one byte.
SPECIFICATION Spec
CONSTANTS
  MaxByte = 2
  MaxLength = 1
  TagLength = 2
  Comparators = {"internal"}
  Shortened = {"internal"}
INVARIANTS NotBeforeFirst
CHECK_DEADLOCK FALSE
