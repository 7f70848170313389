SPECIFICATION Spec
CONSTANTS
  Items = {i1}
  Nodes = {n1}
  Loaders = {t1, t2}
  Consumers = {c1}
  InitialSupply = {0, 1}
  StartHour = 0
  MaxItems = 2
  MaxFeeds = 1
  MaxPosts = 0
  MaxCounts = 0
  MaxShips = 0
  MaxWaits = 0
  MaxAborts = 0
PROPERTY TriggerAfterAllStores
CHECK_DEADLOCK FALSE
