SPECIFICATION Spec
CONSTANTS
  Items = {i1}
  Nodes = {n1}
  Loaders = {t1, t2}
  Consumers = {c1, c2}
  InitialSupply = {0, 1}
  StartHour = 0
  MaxItems = 1
  MaxFeeds = 2
  MaxPosts = 1
  MaxCounts = 0
  MaxShips = 1
  MaxWaits = 1
  MaxAborts = 0
SYMMETRY Symmetry
INVARIANTS StatusTracksChunks Converged
CHECK_DEADLOCK FALSE
