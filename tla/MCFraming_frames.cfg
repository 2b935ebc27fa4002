SPECIFICATION Spec
CONSTANTS
  Address <- Addresses
  Value <- Values
  MaxLength = 2
  MaxRequests = 2
  Garble <- Characters
INVARIANTS
  OnlySentDispatched
  CleanStaysAligned
CHECK_DEADLOCK FALSE
