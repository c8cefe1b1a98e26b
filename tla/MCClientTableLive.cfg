SPECIFICATION FairSpec
CONSTANTS
  a = a  b = b  c1 = c1  m = m
  Conns = {a, b, c1}
  Managers = {}
  MAX_CLIENTS = 2
  MAX_SOCKETS = 3
  MaxInbox = 1
  Signals = TRUE
  Items = {"quit"}
  ServerSocket = ServerSocket
  ManagerSocket = ManagerSocket
  None = None  Garbage = Garbage
PROPERTIES ClosesOnlyFinished OneIsAccepted OneIsReceived
CHECK_DEADLOCK FALSE
