SPECIFICATION Spec
CONSTANTS
  MaxEntries = 3
  MaxSessions = 2
  MaxTurns = 1
  MaxWork = 4
  MaxInFlight = 3
  MaxTries = 1
  None = None
  Commands <- TailTurnEnd
INVARIANT CursorIsLastReturned
CHECK_DEADLOCK FALSE
