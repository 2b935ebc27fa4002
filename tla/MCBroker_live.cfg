SPECIFICATION FairSpec
CONSTANTS
  a1 = a1
  b1 = b1
  b2 = b2
  NoByte = NoByte
  Addr <- OneAddr
  Byte <- TwoBytes
  CooldownSteps <- OneStep
  MqttEnabled = FALSE
  PushEnabled = TRUE
  LanClients = {}
  PanelEdits <- SwitchOff
  Writes <- SwitchOn
  AvailabilityGrace = 1
  WedgeAfter = 1
  ResumeAfterProbes = 2
  SettingsEvery = 1
  WriteRetries = 0
  MaxRetries = 0
  IntentQueueMax = 1
  CommandBound = 1
PROPERTIES
  HealthyComesOnline
  MuteGoesOffline
  SettingsConverge
  IntentsEnd
