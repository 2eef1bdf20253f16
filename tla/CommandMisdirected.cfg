\* Commands end: the system may stop.
SPECIFICATION Spec
CONSTANTS
  Callers = {c1, c2}
  a1 = a1
  b1 = b1
  a = a
  pane = pane
  tool = tool
  harness = harness
  None = None
  Ids <- Agents
  Begins <- Nested
  Uses <- PromptAndPurge
  Flags <- EachAgent
  EnvTargets <- JustNone
  PictlIds <- JustNone
  Auditing = {c1, c2}
  Parent <- AllTool
  Process <- Tree
  Respawns = FALSE
PROPERTY AuditedBefore
SYMMETRY Symmetry
CHECK_DEADLOCK FALSE
