SPECIFICATION FairSpec
CONSTANTS
  CooldownSteps <- Backoff
  ResumeAfterProbes = 2
  FailureTolerance = 2
INVARIANTS
  RefreshRestsInCooldown
  OverrideForgetsBackoff
PROPERTIES
  KeepsDiscipline
  WithdrawnForCause
  RecoversWhenHealthy
