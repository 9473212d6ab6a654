SPECIFICATION DLiveSpec
CONSTANTS
  Clients = {c1, c2}
  Searches = {s1}
  Targets = {root, directory}
  Second = 2
  MaxAge = 3
  MxLimit = 2
  MaxMx = 3
CHECK_DEADLOCK FALSE
INVARIANTS
  DTypeOK
  ByebyeIsTheLastWord
  SsdpFailureIsReported
  StaysListed
  AnswersInWindow
  ForgottenInTime
PROPERTY
  StopLeadsToExit
