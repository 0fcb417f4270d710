SPECIFICATION FairSpec
CONSTANTS
  n1 = n1
  n2 = n2
  p1 = p1
  p2 = p2
  c1 = c1
  c2 = c2
  Nodes = {n1, n2}
  Flaky = {n1, n2}
  Pods = {p1, p2}
  Calls = {c1}
  NodeOf <- TwoNodes
  MaxConcurrency = 1
  Threshold = 2
  ResetTimeout = 1
  FailureCap = 2
PROPERTIES
  EveryCallReturns
  
