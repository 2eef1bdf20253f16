SPECIFICATION Spec
CONSTANTS
  None = None
  Jobs <- AllJobs
CHECK_DEADLOCK FALSE
INVARIANTS EventsRoundTrip
