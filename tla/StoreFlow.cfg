SPECIFICATION Spec
CONSTANTS
  u1 = u1  u2 = u2  None = None  a = a  b = b
  User = {u1, u2}
  Part = {a, b}
  Picks <- MCPicks
  Name <- MCName
  Size <- MCSize
  Width = 10
  N = 2
  Openings <- MCOpenings
  MaxCalls = 2
  MaxActs = 6
INVARIANTS TypeOK WrapMatchesLines OneSorter OneLocation TasksAgree
PROPERTIES TakeOverKeepsItsWord SlipEndsSorting
CHECK_DEADLOCK FALSE
