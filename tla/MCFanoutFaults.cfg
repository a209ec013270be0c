SPECIFICATION FairSpec
CONSTANTS
  a = a
  b = b
  c1 = c1
  c2 = c2
  k = k
  Processes <- OneProcess
  Changes <- TwoChanges
  Clients <- OneClient
  MaxQueued = 1
  MaxReplay = 1
  FaultKinds = {"persist", "answer", "listener", "drain", "close", "death", "prune"}
  MaxFaults = 1
  Marker = Marker
  None = None
ACTION_CONSTRAINT OneFirst
INVARIANTS CursorsAreTrue
PROPERTIES ChangesAreSeen
CHECK_DEADLOCK FALSE
