SPECIFICATION Spec
CONSTANTS
  StartHour = 7
  Hours = 50
INVARIANTS ComparesDates
CHECK_DEADLOCK FALSE
