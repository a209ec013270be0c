SPECIFICATION Spec
CONSTANTS
  a = a
  b = b
  c1 = c1
  c2 = c2
  k = k
  Processes <- TwoProcesses
  Changes <- TwoChanges
  Clients <- OneClient
  MaxQueued = 2
  MaxReplay = 2
  FaultKinds = {"death"}
  MaxFaults = 1
  Marker = Marker
  None = None
SYMMETRY Symmetric
INVARIANTS IInv ViewsInv
PROPERTIES CommitsInIdOrder
