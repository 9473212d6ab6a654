SPECIFICATION FairSpec
CONSTANTS
  f1 = f1
  f2 = f2
  movies = movies
  music = music
  Files = {f1, f2}
  Shares = {movies, music}
  ShareOf <- ShareOfTwo
  Configs <- TwoConfigs
  Broken = Broken
  QueueCap = 1
  EncodeGap = 1
  MaxChanges = 2
  MaxFaults = 1
INVARIANTS
  TypeOK
  NoPartialEncode
  SnapshotMatchesConfig
  NoChangeForgotten
PROPERTIES
  Converges
  PublishesInTurn
