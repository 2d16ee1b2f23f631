\* Keys of up to three bytes of 0..2, so that there are common prefixes, bytes
\* that cannot be incremented, and limits next to the key; tags of two bytes.
SPECIFICATION Spec
CONSTANTS
  MaxByte = 2
  MaxLength = 3
  TagLength = 2
  Comparators = {"bytewise", "internal"}
  Shortened = {"bytewise"}
INVARIANTS NotBeforeFirst BeforeLimit
CHECK_DEADLOCK FALSE
