SPECIFICATION Spec
CONSTANTS
  WordMod = 4
  Horizon = 3
  Depth = 1
  Configs <- MCEmfiSweep
  DrainSizes = {}
  FailCodes = {"CONFIGURE_ERR", "CHARGE_TIMEOUT", "FIRE_REJECTED", "ENGINE_STUCK", "ENGINE_ERR"}
  AutoDisarm = 2
  Stale = 0
  EmfiConfigs <- MCEmfiConfigs
  CbConfigs = {}
  ChargeWait = 1
  ChargeSlack = 1
  FireWait = 1
  FireTimeouts = {0}
PROPERTIES
  StopLeavesEngineSafe
