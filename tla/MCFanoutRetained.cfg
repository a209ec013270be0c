SPECIFICATION Spec
CONSTANTS
  a = a
  b = b
  c1 = c1
  c2 = c2
  k = k
  Processes <- TwoProcesses
  Changes <- TwoChanges
  Clients <- OneClient
  MaxQueued = 2
  MaxReplay = 2
  FaultKinds = {}
  MaxFaults = 0
  Marker = Marker
  None = None
INVARIANTS RetainedAreDelivered
