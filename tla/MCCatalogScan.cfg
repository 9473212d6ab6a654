SPECIFICATION FairSpec
CONSTANTS
  movies = movies
  music = music
  season = season
  film = film
  a = a
  b = b
  None = None
  Dirs = {movies, music, season}
  Media = {film}
  Names = {a, b}
  Hidden = {b}
  Locks <- SomeLocks
  Shares <- MCShares
  Options <- SomeOptions
  Disks <- AllDisks
  MaxChanges = 1
  MaxScans = 2
CHECK_DEADLOCK FALSE
INVARIANTS
  TypeOK
  ParentsFirst
  NoCollision
  EveryPlaceOnce
  WithheldAreCounted
  UntouchedFilesAreFound
  LinklessScansAgree
PROPERTY
  ScanEnds
