\* Commands end and processes exit: the system may stop.
SPECIFICATION Spec
CONSTANTS
  Clients = {c1, c2}
  Daemons = {d1, d2, d3}
  Ops <- AllOps
  Crashes = {"client", "daemon"}
  Absent = Absent
  Blank = Blank
CHECK_DEADLOCK FALSE
SYMMETRY Symmetry
INVARIANTS TypeOK TombstoneOwned NoOrphan
