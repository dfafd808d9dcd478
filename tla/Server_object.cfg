CONSTANTS
  Fds = {f1}
  Clients = {c1}
  MaxStarts = 1
  Jobs = {"onStartCommand", "restart", "onDestroy"}
  Serial = TRUE
  Faults = {}
SPECIFICATION Spec
INVARIANTS ServiceObjLive
