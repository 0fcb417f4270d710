SPECIFICATION ToolSpec
CONSTANTS
  DeviceCounts = {0, 2}
  Readings <- MCReadings
  Word = 256
  InventoryCounts = {0, 3}
  OptionalFields = {memory, power}
  Logs <- MCLogs
  BusIds <- MCBusIds
  MaxResults = 2
  Outputs <- MCOutputs
  NodeSpecs <- MCNodeSpecs
  LocalGPUs = {0, 2}
  GPUReadings <- MCGPUReadings
  NodeCapacities <- MCNodeCapacities
  PodLists <- MCPodLists
  MaxRetries = 3
  BaseDelay = 1
  MaxDelay = 20
  ClientTimeout = 600
  ExecTimeouts = {0, 300, 3000, 3001}
INVARIANTS
  
  
  CancelledAnswerLacksOnlyLastGPU
  
  ReaderDoesNotLeak
  
  ParsedIsLastAnswer
  
  StatusTellsFailures
  PartialDescriptionSaysSo
  
  CallIsBounded
PROPERTIES
  NoAttemptAfterCancel
  ToolCallEnds
CHECK_DEADLOCK FALSE
