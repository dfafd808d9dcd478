CONSTANTS
  Fds = {f1}
  Clients = {c1}
  MaxStarts = 1
  Jobs = {"onStartCommand", "restart"}
  Serial = TRUE
  Faults = {"send", "unplug", "close"}
SPECIFICATION FairSpec
INVARIANTS TypeOK AdvertisedListening
PROPERTIES StopAwaitsWorkers StopReturns
CHECK_DEADLOCK FALSE
