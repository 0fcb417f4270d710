SPECIFICATION FairBridge
CONSTANTS
  Requests = {r1, r2}
  Notifications = {n1}
  NoForward = NoForward
INVARIANTS
  
  OneReplyPerRequest
  

  
CHECK_DEADLOCK FALSE
