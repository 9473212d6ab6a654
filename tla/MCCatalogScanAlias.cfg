SPECIFICATION Spec
CONSTANTS
  movies = movies
  music = music
  season = season
  film = film
  a = a
  b = b
  None = None
  Dirs = {movies, music, season}
  Media = {film}
  Names = {a, b}
  Hidden = {b}
  Locks <- NoLocks
  Shares <- MCShares
  Options <- Following
  Disks <- Aliases
  MaxChanges = 0
  MaxScans = 2
CHECK_DEADLOCK FALSE
INVARIANT UnchangedScansAgree
