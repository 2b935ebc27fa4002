SPECIFICATION EntitiesSpec
CONSTANTS
  NotSaved = NotSaved
  Time <- Times
  Midnight <- Zero
  Default <- Six
  Disabled <- Never
  Profile <- Profiles
  Setpoint <- Setpoints
  Strange <- Bytes
INVARIANTS
  RemembersGenuine
  KeepsEnabledTime
  RemembersAcrossRestart
  SameReading
  CommandsReadBack
