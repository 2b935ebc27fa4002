SPECIFICATION Spec
CONSTANTS
  MaxCommands = 2
  MaxConns = 2
  MaxStreams = 2
  Torn = {1}
  MaxRetries = 1
  Attempts = 2
  WriteRetries = 1
  QueueMax = 1
INVARIANTS
  AckedStands
PROPERTIES
  NoneAfterReport
  IntentsInOrder
