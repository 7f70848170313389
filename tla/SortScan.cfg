SPECIFICATION Spec
CONSTANTS
  l1 = l1  l2 = l2  None = None
  Line = {l1, l2}
  MaxCalls = 2
  Ordered <- MCOrdered
  Openings <- MCOpenings
  MaxActs = 4
INVARIANTS TypeOK Conserved AllPickedIsTrue PanelsAreTrue PickedMeansComplete
PROPERTIES PlusPicksOneMore LedgerSpec NextIsAnswered
CHECK_DEADLOCK FALSE
