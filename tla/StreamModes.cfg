SPECIFICATION FairSpec
CONSTANTS
  MaxEntries = 3
  MaxSessions = 3
  MaxTurns = 1
  MaxWork = 5
  MaxInFlight = 3
  MaxTries = 1
  None = None
  Commands <- AllCommands
INVARIANTS OneStream TurnAwaited CursorCoversOutput
PROPERTIES CommandEnds
CHECK_DEADLOCK FALSE
