SPECIFICATION LaSpec
CONSTANTS
  Ring = 4
  Forever = 10
  PretriggerMin = 1
  PretriggerShare = 2
  Gap = 1
  Overshoot = 1
  LaSizes <- MCLaSizes
  Stall = 3
  TriggerWait = 2
INVARIANT
  LapIsFlagged
