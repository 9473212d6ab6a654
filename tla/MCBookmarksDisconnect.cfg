SPECIFICATION Spec
CONSTANTS
  Objects = {o1, o2}
  Positions = {0, 1, 2}
  Unserializable = {2}
  Requests = {r1, r2, r3}
  NoFile = NoFile
  Windows = FALSE
  Disconnects = TRUE
  MaxCrashes = 2
SYMMETRY Symmetry
CHECK_DEADLOCK FALSE
INVARIANT AckedPositionSurvivesAnyClient
