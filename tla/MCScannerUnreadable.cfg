SPECIFICATION Spec
CONSTANTS
  f1 = f1
  f2 = f2
  movies = movies
  music = music
  Files = {f1}
  Shares = {movies, music}
  ShareOf <- ShareOfTwo
  Configs <- TwoConfigs
  Broken = Broken
  QueueCap = 1
  EncodeGap = 1
  MaxChanges = 2
  MaxFaults = 1
INVARIANT
  UnreadableKeepsSnapshot
