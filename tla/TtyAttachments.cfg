SPECIFICATION Spec
CONSTANTS
  Connections = {k1, k2, k3}
  Sizes <- ThreeSizes
  DefaultSize <- Default
  MaxOutput = 0
  StartupFails = TRUE
  None = None
  Garbled = Garbled
  Rejected = Rejected
INVARIANTS MinSizeApplied AttachmentsCurrent AuditPaired
PROPERTIES HookSilent
SYMMETRY Symmetry
\* After a shutdown nothing is left to happen.
CHECK_DEADLOCK FALSE
