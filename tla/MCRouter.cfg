SPECIFICATION MCSpec
CONSTANTS
  c1 = c1
  c2 = c2
  m1 = m1
  a = a
  b = b
  Commands <- TwoCommands
  Machines <- OneMachine
  Instances <- TwoProcesses
  MachineOf <- AllToOne
  BatchLimit = 2
  RollingUpgrade = TRUE
  OldProcess = OldProcess
  Faults = 1
  Unlimited = Unlimited
  None = None
INVARIANTS IInv CloseLeavesNothing FirstDeliveryInOrder
PROPERTIES ImplementsQueue CommandsAreClosed
CHECK_DEADLOCK FALSE
