SPECIFICATION MCSpec
CONSTANTS
  message = message
  interrupt = interrupt
  wrong = wrong
  start = start
  ship = ship
  ship2 = ship2
  r1 = r1
  Commands <- AllCommands
  Action <- ActionOf
  Runs <- OneRun
  RunOf <- SameRun
  Unusable <- NoAgent
  MaxEntries = 1
  MaxConnects = 2
  MaxFrames = 1
  None = None
INVARIANT IInv
PROPERTIES DeliveredIsAnswered
CHECK_DEADLOCK FALSE
