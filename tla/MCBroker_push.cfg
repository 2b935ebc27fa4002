SPECIFICATION Spec
CONSTANTS
  a1 = a1
  b1 = b1
  b2 = b2
  NoByte = NoByte
  Addr <- OneAddr
  Byte <- TwoBytes
  CooldownSteps <- Backoff
  MqttEnabled = FALSE
  PushEnabled = TRUE
  LanClients = {}
  PanelEdits <- SetByte
  Writes <- SetByte
  AvailabilityGrace = 2
  WedgeAfter = 1
  ResumeAfterProbes = 2
  SettingsEvery = 1
  WriteRetries = 1
  MaxRetries = 0
  IntentQueueMax = 1
  CommandBound = 1
SYMMETRY Symmetric
INVARIANTS
  TypeOK
  PollRestsInCooldown
  OverlayIsNewest
  OverlayShown
PROPERTIES
  CooldownForcesOffline
  OnlineOnlyByReading
