SPECIFICATION Spec
CONSTANTS
  ITEMS_MAX_SIZE = 4
  Initial = 0
  Numbers = {0, 2, 3}
  Interests <- MCInterests
  w1 = w1  w2 = w2
  Workers = {w1, w2}
  None = None
INVARIANTS SetsAgree NoLostWakeup
PROPERTIES OneIsTold
CHECK_DEADLOCK FALSE
