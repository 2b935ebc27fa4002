SPECIFICATION FairSpec
CONSTANTS
  MaxGen = 2
  Options <- Choices
  MaxTasks = 1
INVARIANTS
  OverIsQuiet
  LoadedIsCurrent
PROPERTIES
  ComesUp
