CONSTANTS
  b1 = b1
  c1 = c1
  c2 = c2
  n1 = n1
  n2 = n2
  n3 = n3
  BusIds = {b1}
  Conns = {c1, c2}
  Numbers = {n1, n2, n3}
  MaxInFlight = 2
  MaxCalls = 3
SPECIFICATION Spec
INVARIANTS TypeOK ClientMapExact RecvReachable CounterCovers
SYMMETRY Alike
CHECK_DEADLOCK FALSE
