SPECIFICATION Spec
CONSTANTS
  MaxTyped = 5
  MaxForks = 2
INVARIANTS InStep LogUnmixed
PROPERTIES ComesBack
CHECK_DEADLOCK FALSE
