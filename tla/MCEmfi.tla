------------------------------- MODULE MCEmfi -------------------------------
(* Small instance of EmfiFirePath: one refused configuration, one without a *)
(* charge timeout and one with.                                             *)
EXTENDS EmfiFirePath

EmfiCfg(t, ok) == [trigger |-> "IMMEDIATE", chargeTimeout |-> t, ok |-> ok]

MCEmfiConfigs == {EmfiCfg(0, TRUE), EmfiCfg(1, TRUE), EmfiCfg(1, FALSE)}

MCFireTimeouts == {0, 1}
=============================================================================
