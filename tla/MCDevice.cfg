SPECIFICATION Spec
CONSTANTS
  Keys = {k1, k2}
  V4 = {a1}
  V6 = {b1}
  Ips = {ip1}
  MaxPeers = 2
  MaxFds = 2
INVARIANTS
  TablesAgree
  ConnectedToEndpoint
  NoStraySocket
  RemovedIsGone
PROPERTY
  ShutIsClosed
CHECK_DEADLOCK FALSE
