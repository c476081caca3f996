SPECIFICATION FairSpec
CONSTANTS
  Writers = {judge}
  MaxFiles = 3
  MaxLines = 2
  Inherited = FALSE
  Followed = TRUE
  Faults = {"crash", "error", "close"}
  MaxWritten = 9
  MaxCuts = 1
INVARIANTS TypeOK FirstInFirstOut FilesBounded Retained FollowedInOrder
PROPERTIES FollowedToTheEnd
CHECK_DEADLOCK FALSE
