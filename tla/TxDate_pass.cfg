SPECIFICATION Spec
CONSTANTS
  StartHour = 7
  Hours = 50
INVARIANTS OrderedOutsideNoon DaysAreOrdered OrderedWithinHalfDay
CHECK_DEADLOCK FALSE
