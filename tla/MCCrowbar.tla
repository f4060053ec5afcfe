------------------------------ MODULE MCCrowbar ------------------------------
(* Small instance of CrowbarFirePath: both gates and a refused configuration. *)
EXTENDS CrowbarFirePath

CbCfg(g, ok) == [trigger |-> "EDGE", out |-> g, ok |-> ok]

MCCbConfigs == {CbCfg("LP", TRUE), CbCfg("HP", TRUE), CbCfg("LP", FALSE)}

MCFireTimeouts == {0, 1, 2}
=============================================================================
