SPECIFICATION FairSpec
CONSTANTS
  Clients = {c1}
  Searches = {s1}
CHECK_DEADLOCK FALSE
PROPERTY ControlCLeadsToByebye
