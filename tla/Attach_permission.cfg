CONSTANTS
  Devices = {d1, d2}
  NoDevice = NoDevice
  Main = main
  Io = {io1}
  MaxCalls = 2
  Unplugs = TRUE
SPECIFICATION FairSpec
INVARIANTS TypeOK FlagReleased NotForgotten PendingExplained
PROPERTIES QueueServed
CHECK_DEADLOCK FALSE
