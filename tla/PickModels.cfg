SPECIFICATION Spec
CONSTANTS
  Void = Void
  Order = {o1, o2}
  MaxQty = 2
  MaxLines = 3
  MaxSteps = 4
INVARIANTS TypeOK FinishAccounts ShortagesAreSeen NotesNameShortLines DisplayIsFilter LastShortageLeavesNothing NothingBeyondOrder
PROPERTIES UnitsKept
CHECK_DEADLOCK FALSE
