SPECIFICATION Spec
CONSTANTS
  Horizon = 4
  AutoDisarm = 3
  Stale = 1
  EmfiConfigs <- MCEmfiConfigs
  FireTimeouts <- MCFireTimeouts
INVARIANTS
  HeldLowUntilTrigger
