CONSTANTS
  c1 = c1
  c2 = c2
  Commands = {c1, c2}
  Shas = {1}
  Window = 2
  Failures = 1
SPECIFICATION RunsSpec
ACTION_CONSTRAINT OneOrTheOther
INVARIANTS IInv EndIsShown
PROPERTIES RunIsStartedOnce QueuedRunsMoveOn
CHECK_DEADLOCK FALSE
