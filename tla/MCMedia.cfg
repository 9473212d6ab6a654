SPECIFICATION Spec
CONSTANTS
  U64Max = 7
  Chunk = 2
  Contents <- SomeContents
  Bytes = {1, 2, 3}
  Ranges <- SomeRanges
  MaxChanges = 2
INVARIANTS
  TypeOK
  AnswersRange
  BodyMatchesHeaders
  ResumedPlaybackIsWhole
