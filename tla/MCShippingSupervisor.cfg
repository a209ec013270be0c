CONSTANTS
  Offered <- Contracts
  Executions = 2
  Crashes = 1
  Trees = 12
SPECIFICATION Spec
INVARIANTS IInv ShippedPassedEveryGate
PROPERTIES VerdictsStandOnDisk ImplementsReleaseRun
CHECK_DEADLOCK FALSE
