SPECIFICATION Spec
CONSTANTS
  WordMod = 4
  Horizon = 2
  Depth = 1
  Configs <- MCCrowbarSweeps
  DrainSizes = {1}
  FailCodes = {"CONFIGURE_ERR", "CHARGE_TIMEOUT", "FIRE_REJECTED", "ENGINE_STUCK", "ENGINE_ERR"}
  AutoDisarm = 1
  Stale = 0
  EmfiConfigs = {}
  CbConfigs <- MCCbConfigs
  ChargeWait = 1
  ChargeSlack = 1
  FireWait = 1
  FireTimeouts = {0}
INVARIANTS
  TypeOK
PROPERTIES
  OverstaysOnlyInCrowbarWait
  StopEndsStep
