SPECIFICATION Spec
CONSTANTS
  Lines = {x, y}
  MaxLines = 7
  MaxItems = 4
INVARIANTS TypeOK LoopSendsChunks NothingLost
CHECK_DEADLOCK FALSE
