SPECIFICATION Spec
CONSTANTS
  Records = {r1, r2}
  EVENT_SIZE = 3
  buffersize = 6
  SocketBytes = 7
  MaxSent = 4
INVARIANTS
  NoRecordWaits
PROPERTIES
  ImplementsChannel
  EarlierArrives
