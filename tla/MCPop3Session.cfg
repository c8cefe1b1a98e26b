CONSTANTS
  u1 = u1
  u10 = u10
  a = a
  b = b
  None = None
  LogFile = log
  Names = {a, b}
  Sessions = {s1, s2}
  Managers = {}
  user_list <- MCUsers
  Typed <- MCTyped
  Begins <- MCBegins
  Exact <- MCExact
  Mails <- MCMails
  Late = {}
  Size <- MCSize
  Homeless = {}
  TransBinary = FALSE
  MaxArg = 2
  MaxMessages = 1
  MaxTransfers = 1
  MaxLen = 1
SYMMETRY SlotSymmetry
SPECIFICATION Spec
INVARIANTS OnlyOwnMail TransfersOwnMail
PROPERTIES StoreSpec
CHECK_DEADLOCK FALSE
