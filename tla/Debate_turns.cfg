SPECIFICATION Spec
CONSTANTS
  MaxRounds = 2
  Attempts = 2
  Timeout = 1
  MaxBeats = 1
  Faults <- TurnFaults
INVARIANTS TurnInv LedgerAlternates SingleTurn EndingIsLast CheckpointConsistent
PROPERTIES ProtocolSafety
