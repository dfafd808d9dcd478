CONSTANTS
  Fds = {f1}
  Clients = {}
  MaxStarts = 3
  Jobs = {"onStartCommand", "restart", "onDestroy"}
  Serial = FALSE
  Faults = {}
SPECIFICATION Spec
INVARIANTS SocketClosedOnce NoStaleAcceptor
CHECK_DEADLOCK FALSE
