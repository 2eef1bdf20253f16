SPECIFICATION FairSpec
CONSTANTS
  Connections = {k1, k2}
  Sizes <- NoSizes
  DefaultSize <- Default
  MaxOutput = 2
  StartupFails = FALSE
  None = None
  Garbled = Garbled
  Rejected = Rejected
INVARIANTS ExactView NothingAfterExit
PROPERTIES FollowsStream Served ShutdownEnds
\* After a shutdown nothing is left to happen.
CHECK_DEADLOCK FALSE
