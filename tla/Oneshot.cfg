SPECIFICATION FairSpec
CONSTANTS
  MaxRequests = 2
  MaxLines = 3
INVARIANTS
  TypeOK
  LinesAnsweredInOrder
  StatsAccountForLines
  SuccessMeansComplete
PROPERTIES
  RunEnds
  ScannerEnds
\* The transport stops for good when Run has returned and the input is over.
CHECK_DEADLOCK FALSE
