SPECIFICATION FairSpec
CONSTANTS
  MaxEvents = 5
  Options <- AllOptions
  None = None
INVARIANTS NothingLost FirstEndWins StopBeforeEnd TimersCleared
PROPERTIES StopOnce QuietMeansSilence StreamEnds
