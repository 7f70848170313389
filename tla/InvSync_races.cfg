SPECIFICATION Spec
CONSTANTS
  Items = {i1}
  Nodes = {n1}
  Loaders = {t1, t2}
  Consumers = {c1, c2}
  InitialSupply = {0, 1}
  StartHour = 0
  MaxItems = 2
  MaxFeeds = 1
  MaxPosts = 1
  MaxCounts = 1
  MaxShips = 1
  MaxWaits = 0
  MaxAborts = 0
SYMMETRY Symmetry
INVARIANTS TypeOK Converged
PROPERTY CountsAdvanceControl
CHECK_DEADLOCK FALSE
