SPECIFICATION FairSpec
CONSTANTS
  MaxRequests = 2
  MaxLines = 1
PROPERTY CancelEndsScanner
CHECK_DEADLOCK FALSE
