\* One deck and its control record.
CONSTANTS
  None = None
  MaxRate = 2
  MaxGroove = 4
  Budget = 2
  Faults = 2
  Spots = {2}
  Sticky = 2
  Relock = 3
  Confirm = 1
  CalBlocks = 1
  SettleBlocks = 2
  LiftBlocks = 2
  Relocation = 1
  Travel = 3
  Skid = 1
  Fallback = 4
  Slew = 1
SPECIFICATION Spec
INVARIANTS LiftStops MovesAreNotHealed
PROPERTIES HandBackIsEarned LoopHolds
CHECK_DEADLOCK FALSE
