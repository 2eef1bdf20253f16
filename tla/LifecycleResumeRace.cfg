\* Commands end and processes exit: the system may stop.
SPECIFICATION Spec
CONSTANTS
  Clients = {c1, c2}
  Daemons = {d1, d2, d3}
  Ops <- ResumeOps
  Crashes = {}
  Absent = Absent
  Blank = Blank
CHECK_DEADLOCK FALSE
INVARIANT OneDaemon
