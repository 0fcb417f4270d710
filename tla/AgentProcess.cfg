SPECIFICATION FairSpec
CONSTANT MaxHandlers = 2
INVARIANTS
  TypeOK
  LibraryOutlivesHandlers
  
  ServerIsOverFirst
PROPERTIES
  SignalEndsProcess
  OneshotProcessEnds
\* The process ends.
CHECK_DEADLOCK FALSE
