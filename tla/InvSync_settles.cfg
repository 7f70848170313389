SPECIFICATION FairSpec
CONSTANTS
  Items = {i1, i2}
  Nodes = {n1}
  Loaders = {t1}
  Consumers = {c1, c2}
  InitialSupply = {0, 1}
  StartHour = 0
  MaxItems = 2
  MaxFeeds = 1
  MaxPosts = 0
  MaxCounts = 1
  MaxShips = 0
  MaxWaits = 1
  MaxAborts = 1
INVARIANTS StatusTracksChunks Converged
PROPERTIES Settles EveryFeedTriggers TriggerMissesOnlyPutAside
CHECK_DEADLOCK FALSE
