SPECIFICATION FairSpec
CONSTANTS
  c1 = c1
  c2 = c2
  Subscribers <- Two
  Handlers <- OneHandler
  AlwaysPolls = FALSE
  Buffer = 1
  MaxVersion = 2
PROPERTIES
  UnconnectedIsNotShown
  ViewNeverGoesBack
  PollNotHeldUp
  ServedCatchesUp
