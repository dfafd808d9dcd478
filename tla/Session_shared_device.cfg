SPECIFICATION Spec
CONSTANTS
  s1 = s1
  s2 = s2
  d1 = d1
  d2 = d2
  q1 = q1
  q2 = q2
  q3 = q3
  Sessions = {s1, s2}
  Seqs = {q1, q2}
  Requests <- UnlinkingClient
  Devices = {d1}
  DeviceOf <- OneDevice
  Faults = {"send", "unplug"}
  NoReq = NoReq
  NoPacket = NoPacket
INVARIANTS
  MemorySafe
  InFlightExact
  RepliesRoutedOnce
PROPERTIES
  ImplementsRequests
