CONSTANTS
  Capacity = 3
  Events = {move, key0}
  NoEvent = NoEvent
  Unknown = {key0}
  Sessions = {s1}
  Synthetic = {s1}
  Requests <- SomeRequests
  DescriptorLen <- TwoBytes
  HeaderLen = 2
  ReportLen = 1
  NoSeq = NoSeq
  Pipelined = FALSE
  UnlinkParked = FALSE
  MaxSeqs = 2
  MaxPushes = 4
SPECIFICATION FairSpec
INVARIANTS TypeOK ReportsInOrder WholePackets
PROPERTIES InterruptAnswered
CHECK_DEADLOCK FALSE
