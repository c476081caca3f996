SPECIFICATION Spec
CONSTANTS
  Writers = {pro, con}
  MaxFiles = 3
  MaxLines = 2
  Inherited = FALSE
  Followed = FALSE
  Faults = {}
  MaxWritten = 6
  MaxCuts = 0
INVARIANTS FilesBounded
CHECK_DEADLOCK FALSE
