SPECIFICATION FairSpec
CONSTANTS
  Sids = {s1, s2}
  Timeouts = {1}
  MaxSeq = 1
  MaxCatalog = 3
INVARIANTS
  TypeOK
  NoLostUpdate
  KeysFollowPublication
  GapFreeSubscriberIsCurrent
  SequenceNumbering
PROPERTIES
  EndIsFinal
  SubscriberCatchesUp
CHECK_DEADLOCK FALSE
