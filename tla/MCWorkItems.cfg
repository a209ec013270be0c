SPECIFICATION FairSpec
CONSTANTS
  x = x
  y = y
  k1 = k1
  k2 = k2
  p = p
  q = q
  Items <- TwoItems
  Commands <- TwoCommands
  Asks <- TwoLives
  Slots <- TwoSlots
  Faults = Unlimited
  Unlimited = Unlimited
  None = None
ACTION_CONSTRAINT SecondForOther
INVARIANTS IInv
PROPERTIES ImplementsJournal EveryRequestIsAnswered
