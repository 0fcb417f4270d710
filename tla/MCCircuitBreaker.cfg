SPECIFICATION BreakerSpec
CONSTANTS
  Nodes = {n1, n2}
  Threshold = 2
  ResetTimeout = 1
  FailureCap = 3
INVARIANTS
  BreakerTypeOK
  ClosedIffBelowThreshold
  
PROPERTY ProbeFailureReopens
CHECK_DEADLOCK TRUE
