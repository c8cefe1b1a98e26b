CONSTANTS
  Byte = {zero, a, b}
  Zero = zero
  N = 4
  OnDemand = FALSE
  Input <- MCInput
  Words <- MCWords
  MaxFed = 4
SPECIFICATION SharedSpec
INVARIANTS EmptyHasRoom Verdict
PROPERTIES QueueSpec
CHECK_DEADLOCK FALSE
