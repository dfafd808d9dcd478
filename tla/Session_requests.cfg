SPECIFICATION FairSpec
CONSTANTS
  s1 = s1
  s2 = s2
  d1 = d1
  d2 = d2
  q1 = q1
  q2 = q2
  q3 = q3
  Sessions = {s1}
  Seqs = {q1, q2, q3}
  Requests <- OneClient
  Devices = {d1}
  DeviceOf <- OneDevice
  Faults = {"send"}
  NoReq = NoReq
  NoPacket = NoPacket
INVARIANTS
  TypeOK
  OneFate
  PendingHasUrb
PROPERTIES
  CompletionAnswered
  UnlinkAnswered
