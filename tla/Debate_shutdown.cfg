SPECIFICATION Spec
CONSTANTS
  MaxRounds = 1
  Attempts = 2
  Timeout = 1
  MaxBeats = 1
  Faults <- ProcessFaults
INVARIANTS TypeOK VerdictClosesDebate NoOrphans
PROPERTIES JudgmentIsLastWord
