SPECIFICATION Spec
CONSTANTS
  a = a  b = b  c1 = c1  m = m
  Conns = {a, b, c1, m}
  Managers = {m}
  MAX_CLIENTS = 3
  MAX_SOCKETS = 4
  MaxInbox = 1
  Signals = FALSE
  Items = {"quit"}
  ServerSocket = ServerSocket
  ManagerSocket = ManagerSocket
  None = None  Garbage = Garbage
SYMMETRY PortSymmetry
INVARIANTS Aligned NoSocketLost IpIsOwn ManagerPrivilege MetricsLag
PROPERTIES OthersUntouched
CHECK_DEADLOCK FALSE
