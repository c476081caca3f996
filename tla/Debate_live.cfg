SPECIFICATION FairSpec
CONSTANTS
  MaxRounds = 1
  Attempts = 2
  Timeout = 1
  MaxBeats = 1
  Faults <- LiveFaults
PROPERTIES SessionEnds ProtocolLive StalledReaped
