---------------------------- MODULE CrowbarEngine ----------------------------
(***************************************************************************)
(* services/glitch_engine/crowbar: the campaign state machine              *)
(* (crowbar_campaign.c) and the PIO path that drives one of the two        *)
(* crowbar gates (crowbar_pio.c), with the part of drivers/crowbar_mosfet  *)
(* the firmware uses.  That part is CROWBAR_PATH_NONE only: nobody selects *)
(* a gate through the driver, so the CPU side of both pins is always low   *)
(* and a gate is high only while it is muxed to PIO and PIO last wrote 1.  *)
(***************************************************************************)
EXTENDS Clock, GlitchProgram

CONSTANT CbConfigs   \* the configurations a host sends

Gates == {"LP", "HP"}

ASSUME CbAssumption ==
  CbConfigs \subseteq [trigger : Triggers, out : Gates, ok : BOOLEAN]

\* CROWBAR_STATE_ARMING exists on the wire only.
CbStates == {"IDLE", "ARMED", "WAITING", "FIRED", "ERROR"}

CbErrors == {"NONE", "BAD_CONFIG", "TRIGGER_TIMEOUT", "PIO_FAULT"}

VARIABLES
  cbState, cbErr, cbCfg, cbCfgValid,
  cbAge,       \* age of s_fire_start_ms in WAITING, 0 elsewhere
  cbTimeout,   \* s_fire_timeout_ms
  cbClaimed,   \* s_claimed: SM 1 of pio0 is ours
  cbLoaded,    \* s_loaded
  cbOut,       \* s_out: the gate handed to PIO
  gateFn,      \* the function each gate pin is muxed to
  gateLatch,   \* what PIO last wrote to each gate
  sm1,         \* phase of the state machine
  irq1         \* the flag it raises when done

cbCtl == <<cbState, cbErr, cbCfg, cbCfgValid, cbAge, cbTimeout>>
cbPath == <<cbClaimed, cbLoaded, cbOut, gateFn, gateLatch, sm1, irq1>>
cbVars == <<cbCtl, cbPath>>

\* The statically zeroed configuration, refused by arm() until one is stored.
CbZeroConfig == [trigger |-> "IMMEDIATE", out |-> "NONE", ok |-> FALSE]

CbInit ==
  /\ cbState = "IDLE"
  /\ cbErr = "NONE"
  /\ cbCfg = CbZeroConfig
  /\ cbCfgValid = FALSE
  /\ cbAge = 0
  /\ cbTimeout = 0
  /\ cbClaimed = FALSE
  /\ cbLoaded = FALSE
  /\ cbOut = "NONE"
  /\ gateFn = [g \in Gates |-> "SIO"]
  /\ gateLatch = [g \in Gates |-> FALSE]
  /\ sm1 = "OFF"
  /\ irq1 = FALSE

GateHigh(g) == gateFn[g] = "PIO" /\ gateLatch[g]

-----------------------------------------------------------------------------
(* Teardown.                                                                *)

\* Fault: the gate stays muxed to PIO.
CbTeardown_KeepsGate(claimed) ==
  /\ sm1' = IF claimed THEN "OFF" ELSE sm1
  /\ irq1' = IF claimed THEN FALSE ELSE irq1
  /\ cbLoaded' = IF claimed THEN FALSE ELSE cbLoaded
  /\ cbOut' = IF claimed THEN "NONE" ELSE cbOut
  /\ cbClaimed' = FALSE
  /\ UNCHANGED <<gateFn, gateLatch>>

\* Fault: the state machine is released while still enabled.
CbTeardown_LeavesSmRunning(claimed) ==
  /\ UNCHANGED <<sm1, irq1, gateFn, gateLatch>>
  /\ cbLoaded' = IF claimed THEN FALSE ELSE cbLoaded
  /\ cbOut' = IF claimed THEN "NONE" ELSE cbOut
  /\ cbClaimed' = FALSE

\* claimed is s_claimed at the time of the call.  The gate in use goes back to
\* the CPU; its bit in the PIO's output register keeps its last value.
CbTeardown(claimed) ==
  /\ sm1' = IF claimed THEN "OFF" ELSE sm1
  /\ irq1' = IF claimed THEN FALSE ELSE irq1
  /\ cbLoaded' = IF claimed THEN FALSE ELSE cbLoaded
  /\ cbOut' = IF claimed THEN "NONE" ELSE cbOut
  /\ gateFn' = [g \in Gates |-> IF claimed /\ g = cbOut THEN "SIO" ELSE gateFn[g]]
  /\ cbClaimed' = FALSE
  /\ UNCHANGED gateLatch

CbError(err, claimed) ==
  /\ CbTeardown(claimed)
  /\ cbState' = "ERROR"
  /\ cbErr' = err
  /\ cbAge' = 0
  /\ UNCHANGED <<cbCfg, cbCfgValid, cbTimeout>>

-----------------------------------------------------------------------------
(* The host's commands.                                                     *)

\* Fault: the ranges are not checked.
CbConfigure_Unchecked(c) ==
  /\ cbCfg' = c
  /\ cbCfgValid' = TRUE
  /\ cbState' = "IDLE"
  /\ cbErr' = "NONE"
  /\ cbAge' = 0
  /\ UNCHANGED <<cbTimeout, cbPath>>

\* As in the EMFI engine, a good configuration is stored in any state and drops
\* the engine to IDLE without a teardown.
CbConfigure(c) ==
  IF c.ok
  THEN /\ cbCfg' = c
       /\ cbCfgValid' = TRUE
       /\ cbState' = "IDLE"
       /\ cbErr' = "NONE"
       /\ cbAge' = 0
       /\ UNCHANGED <<cbTimeout, cbPath>>
  ELSE UNCHANGED cbVars

CbArmable == cbState \in {"IDLE", "FIRED"}

\* Dropping both gates reaches the CPU side of the pins, which is low already.
CbArm ==
  \/ ~cbCfgValid /\ CbError("BAD_CONFIG", cbClaimed)
  \/ cbCfgValid /\ ~CbArmable /\ UNCHANGED cbVars
  \/ /\ cbCfgValid
     /\ CbArmable
     /\ cbState' = "ARMED"
     /\ cbErr' = "NONE"
     /\ UNCHANGED <<cbCfg, cbCfgValid, cbAge, cbTimeout, cbPath>>

\* crowbar_pio_init, load and start.
CbStartPath ==
  /\ cbClaimed' = TRUE
  /\ cbLoaded' = TRUE
  /\ cbOut' = cbCfg.out
  /\ gateFn' = [gateFn EXCEPT ![cbCfg.out] = "PIO"]
  /\ irq1' = FALSE
  /\ sm1' = "WAIT"
  /\ UNCHANGED gateLatch

\* room: the program fits in pio0's memory.  The test of cfg.output in the code
\* cannot fail, configure() has made it.
CbFire(timeout, room) ==
  \/ cbState # "ARMED" /\ UNCHANGED cbVars
  \/ cbState = "ARMED" /\ (cbClaimed \/ ~room) /\ CbError("PIO_FAULT", TRUE)
  \/ /\ cbState = "ARMED"
     /\ ~cbClaimed
     /\ room
     /\ CbStartPath
     /\ cbState' = "WAITING"
     /\ cbErr' = "NONE"
     /\ cbAge' = 0
     /\ cbTimeout' = timeout
     /\ UNCHANGED <<cbCfg, cbCfgValid>>

CbDisarm ==
  /\ CbTeardown(cbClaimed)
  /\ cbState' = "IDLE"
  /\ cbErr' = "NONE"
  /\ cbAge' = 0
  /\ UNCHANGED <<cbCfg, cbCfgValid, cbTimeout>>

-----------------------------------------------------------------------------
(* crowbar_campaign_tick, the state machine and the clock.                  *)

CbDone == cbClaimed /\ irq1

CbTimedOut == cbTimeout # 0 /\ cbAge > cbTimeout

CbFired ==
  /\ cbState' = "FIRED"
  /\ cbAge' = 0
  /\ UNCHANGED <<cbErr, cbCfg, cbCfgValid, cbTimeout>>

\* Fault: a fire that completed is reported without a teardown.
CbTick_NoTeardown ==
  \/ cbState # "WAITING" /\ UNCHANGED cbVars
  \/ cbState = "WAITING" /\ CbDone /\ CbFired /\ UNCHANGED cbPath
  \/ cbState = "WAITING" /\ ~CbDone /\ CbTimedOut /\ CbError("TRIGGER_TIMEOUT", cbClaimed)
  \/ cbState = "WAITING" /\ ~CbDone /\ ~CbTimedOut /\ UNCHANGED cbVars

\* Fault: the trigger wait has no timeout.
CbTick_NoTimeout ==
  \/ cbState = "WAITING" /\ CbDone /\ CbFired /\ CbTeardown(cbClaimed)
  \/ ~(cbState = "WAITING" /\ CbDone) /\ UNCHANGED cbVars

CbTick ==
  \/ cbState # "WAITING" /\ UNCHANGED cbVars
  \/ cbState = "WAITING" /\ CbDone /\ CbFired /\ CbTeardown(cbClaimed)
  \/ cbState = "WAITING" /\ ~CbDone /\ CbTimedOut /\ CbError("TRIGGER_TIMEOUT", cbClaimed)
  \/ cbState = "WAITING" /\ ~CbDone /\ ~CbTimedOut /\ UNCHANGED cbVars

\* SM 1 runs beside the CPU and drives the gate it was set up for.
CbPioStep ==
  \E p \in NextPhase(sm1) :
    /\ sm1' = p
    /\ gateLatch' = [g \in Gates |-> IF g = cbOut THEN p = "HIGH" ELSE gateLatch[g]]
    /\ irq1' = (irq1 \/ p = "DONE")
    /\ UNCHANGED <<cbCtl, cbClaimed, cbLoaded, cbOut, gateFn>>

CbElapse ==
  /\ cbAge' = IF cbState = "WAITING" THEN Older(cbAge) ELSE cbAge
  /\ UNCHANGED <<cbState, cbErr, cbCfg, cbCfgValid, cbTimeout, cbPath>>
=============================================================================
