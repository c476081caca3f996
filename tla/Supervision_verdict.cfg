SPECIFICATION Spec
CONSTANTS
  Timeout = 1
  MaxFaults = 1
  Faults = {"crash", "stall", "stuck", "budget", "error"}
PROPERTIES WinnerDeclared
CHECK_DEADLOCK FALSE
