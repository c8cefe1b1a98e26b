CONSTANTS
  Names = {f}
  MaxLen = 3
  Lists <- MCLists
SPECIFICATION Spec
INVARIANTS RemovesMarked AbortsIffDangling LeaksDeletedNames
CHECK_DEADLOCK FALSE
