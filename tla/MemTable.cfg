\* Three entries over two keys, two sequence numbers and both types, so that
\* there are versions to choose between, deletions, and two entries with one
\* internal key; Adds come between the two steps of a Get and between any two
\* steps of an iterator.
SPECIFICATION Spec
CONSTANTS
  UserKeys = {1, 2}
  Values = {a}
  MaxSequence = 1
  Getters = {g}
  Iterators = {it}
  MaxEntries = 3
  Deleted = Deleted
  Absent = Absent
  NULL = NULL
INVARIANTS TypeOK ScanComplete
PROPERTIES ImplementsVersionedMap SnapshotStable
CHECK_DEADLOCK FALSE
