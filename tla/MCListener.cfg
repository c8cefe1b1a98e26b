SPECIFICATION FairSpec
CONSTANTS
  a = a  b = b
  Conns = {a, b}
  Fds = {0, 1, 2, 3, 4}
  Children = {1}
  MaxUpdates = 2
  AnyIp = AnyIp
  Ips = {AnyIp, local, other}
  NotLocal = {other}
  Texts = {AnyIp, local, other, None}
  Numbers <- MCNumbers
  PopPort = 110
  ManagerPort = 112
  Manager = Manager
  None = None
INVARIANTS NoDescriptorLost PollsItsAddress NeverTakesOver
PROPERTIES OneIsHeard
CHECK_DEADLOCK FALSE
