SPECIFICATION FairSpec
CONSTANTS
  Request <- Kinds
  Size <- Sizes
  WarmUpRead = "settings"
  Builds <- Both
  MaxRetries = 2
  Unread = 3
INVARIANTS
  AnswersUntilTimeout
PROPERTIES
  ClientsKeepPatience
  RequestsEnd
