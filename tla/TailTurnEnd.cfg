SPECIFICATION FairSpec
CONSTANTS
  MaxEntries = 2
  MaxSessions = 2
  MaxTurns = 1
  MaxWork = 4
  MaxInFlight = 3
  MaxTries = 1
  None = None
  Commands <- TailTurnEnd
PROPERTY TurnEndReturns
CHECK_DEADLOCK FALSE
