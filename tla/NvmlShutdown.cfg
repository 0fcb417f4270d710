SPECIFICATION Spec
CONSTANT MaxHandlers = 2
INVARIANT DeferredShutdownReachesNvml
\* The process ends.
CHECK_DEADLOCK FALSE
