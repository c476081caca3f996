SPECIFICATION FairSpec
CONSTANTS
  Timeout = 1
  MaxFaults = 1
  Faults = {"crash", "stall", "stuck", "budget", "error"}
INVARIANTS TypeOK ClosedMeansGone
PROPERTIES OnlySilentTerminated EndsInOrder StalledReaped ClosingEnds
CHECK_DEADLOCK FALSE
