SPECIFICATION Spec
CONSTANTS
  Ids = {i1, i2, i3}
  Cap = 2
  MaxClock = 8
INVARIANTS RecencyOrderPreserved
