SPECIFICATION Spec
CONSTANTS
  Capacity = 4
  Events = {a, b, c}
  Consumers = {poller}
  NoEvent = NoEvent
INVARIANTS
  TypeOK
  NoSlotRace
PROPERTIES
  FIFO
