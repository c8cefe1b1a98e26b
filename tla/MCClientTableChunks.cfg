SPECIFICATION Spec
CONSTANTS
  a = a  b = b  c1 = c1  m = m
  Conns = {a, b, c1}
  Managers = {}
  MAX_CLIENTS = 3
  MAX_SOCKETS = 3
  MaxInbox = 2
  Signals = FALSE
  Items = {"line", "part"}
  ServerSocket = ServerSocket
  ManagerSocket = ManagerSocket
  None = None  Garbage = Garbage
SYMMETRY PortSymmetry
INVARIANTS HandlesHeldSlot AddressesSwapped
CHECK_DEADLOCK FALSE
