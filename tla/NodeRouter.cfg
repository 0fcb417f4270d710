SPECIFICATION Spec
CONSTANTS
  n1 = n1
  n2 = n2
  p1 = p1
  p2 = p2
  c1 = c1
  c2 = c2
  Nodes = {n1}
  Flaky = {n1}
  Pods = {p1, p2}
  Calls = {c1, c2}
  NodeOf <- OneNode
  MaxConcurrency = 1
  Threshold = 2
  ResetTimeout = 1
  FailureCap = 2
INVARIANTS
  TypeOK
  SemaphoreExact
  Bookkeeping
PROPERTY ImplementsFanOut
SYMMETRY CallsAndPods
