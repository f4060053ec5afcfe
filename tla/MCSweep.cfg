SPECIFICATION HSpec
CONSTANTS
  WordMod = 8
  Horizon = 2
  Depth = 2
  Configs <- MCConfigs
  DrainSizes <- MCDrainSizes
  FailCodes = {"FAILED"}
INVARIANTS
  TypeOK
  SweepCoherent
  ResultAccounting
  ResultsInOrder
  SweepCovers
PROPERTIES
  LiveSweepFrozen
  StopWins
  SettleHonoured
  StopHonoured
  RingIsLossyQueue
