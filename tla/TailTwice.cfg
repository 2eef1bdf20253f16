SPECIFICATION Spec
CONSTANTS
  MaxEntries = 2
  MaxSessions = 3
  MaxTurns = 1
  MaxWork = 5
  MaxInFlight = 3
  MaxTries = 1
  None = None
  Commands <- TailEntries
INVARIANT DrainsSendOnlyNew
CHECK_DEADLOCK FALSE
