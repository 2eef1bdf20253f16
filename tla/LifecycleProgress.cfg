\* Commands end and processes exit: the system may stop.
SPECIFICATION FairSpec
CONSTANTS
  Clients = {c1, c2}
  Daemons = {d1, d2, d3}
  Ops <- SerializedOps
  Crashes = {"client"}
  Absent = Absent
  Blank = Blank
CHECK_DEADLOCK FALSE
PROPERTIES ConnectsOwnPi RevivalEnds CommandsEnd DaemonFollowsPi
