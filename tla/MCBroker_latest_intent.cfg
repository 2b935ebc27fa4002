SPECIFICATION Spec
CONSTANTS
  a1 = a1
  b1 = b1
  b2 = b2
  NoByte = NoByte
  Addr <- OneAddr
  Byte <- TwoBytes
  CooldownSteps <- Backoff
  MqttEnabled = FALSE
  PushEnabled = TRUE
  LanClients = {}
  PanelEdits <- NoWrites
  Writes <- SetByte
  AvailabilityGrace = 2
  WedgeAfter = 1
  ResumeAfterProbes = 2
  SettingsEvery = 2
  WriteRetries = 0
  MaxRetries = 0
  IntentQueueMax = 2
  CommandBound = 1
SYMMETRY Symmetric
PROPERTIES
  LatestIntentNotReverted
