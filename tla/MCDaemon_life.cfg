SPECIFICATION DaemonFairSpec
CONSTANTS
  a1 = a1
  b1 = b1
  c1 = c1
  c2 = c2
  NoByte = NoByte
  Addr <- OneAddr
  Byte <- OneByte
  AvailabilityGrace = 2
  LanClients <- TwoClients
INVARIANTS
  SameSessionTruth
PROPERTIES
  DeadIsOffline
  CrashRestarts
