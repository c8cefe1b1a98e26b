CONSTANTS
  u1 = u1
  u10 = u10
  a = a
  b = b
  None = None
  LogFile = log
  Names = {a, b}
  Sessions = {s1, m}
  Managers = {m}
  user_list <- MCUsers
  Typed <- MCTyped
  Begins <- MCBegins
  Exact <- MCExact
  Mails <- MCTwo
  Late <- MCLate
  Size <- MCSize
  Homeless = {u10}
  TransBinary = FALSE
  MaxArg = 3
  MaxMessages = 1
  MaxTransfers = 1
  MaxLen = 1
SPECIFICATION Spec
INVARIANTS NumbersAgree RetrAgreesIff
CHECK_DEADLOCK FALSE
