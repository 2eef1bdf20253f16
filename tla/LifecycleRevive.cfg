\* Commands end and processes exit: the system may stop.
SPECIFICATION Spec
CONSTANTS
  Clients = {c1, c2, c3}
  Daemons = {d1, d2, d3}
  Ops <- SerializedOps
  Crashes = {"client", "daemon"}
  Absent = Absent
  Blank = Blank
CHECK_DEADLOCK FALSE
SYMMETRY Symmetry
INVARIANTS RevivalExclusive OneDaemon StaleIsFinal UpIsReachable
PROPERTY FollowsLifecycle
