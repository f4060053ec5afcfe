SPECIFICATION Spec
CONSTANTS
  Horizon = 3
  CbConfigs <- MCCbConfigs
  FireTimeouts <- MCFireTimeouts
INVARIANTS
  ArmedGatesLow
