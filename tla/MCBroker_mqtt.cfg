SPECIFICATION Spec
CONSTANTS
  a1 = a1
  b1 = b1
  b2 = b2
  NoByte = NoByte
  Addr <- OneAddr
  Byte <- TwoBytes
  CooldownSteps <- Backoff
  MqttEnabled = TRUE
  PushEnabled = FALSE
  LanClients = {"lan"}
  PanelEdits <- NoWrites
  Writes <- SetByte
  AvailabilityGrace = 2
  WedgeAfter = 1
  ResumeAfterProbes = 2
  SettingsEvery = 2
  WriteRetries = 1
  MaxRetries = 1
  IntentQueueMax = 1
  CommandBound = 1
SYMMETRY Symmetric
INVARIANTS
  EveryJobHeldOnce
PROPERTIES
  WedgeKeepsDiscipline
