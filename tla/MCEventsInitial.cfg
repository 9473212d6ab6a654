SPECIFICATION Spec
CONSTANTS
  Sids = {s1}
  Timeouts = {1}
  MaxSeq = 3
  MaxCatalog = 2
CHECK_DEADLOCK FALSE
INVARIANT InitialEventIsSequenceZero
