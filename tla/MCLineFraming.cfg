CONSTANTS
  x = x
  y = y
  q = q
  CR = cr
  LF = lf
  NUL = nul
  Byte <- MCByte
  Messages <- MCMessages
  MaxSent = 16
  BUFFER_SIZE = 5
  PREFIX = 2
  QuitLine <- MCQuit
SPECIFICATION FairSpec
INVARIANTS InBounds LinesCounted TailKept LinesExact
PROPERTIES LinesServed
CHECK_DEADLOCK FALSE
