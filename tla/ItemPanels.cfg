SPECIFICATION Spec
CONSTANTS
  Code = {c1, c2}
  Blank = Blank
  Name = {brand, author}
  Value = {v1, v2}
  MaxAttrs = 2
  MaxOpen = 2
INVARIANTS PanelsAgree
CHECK_DEADLOCK FALSE
