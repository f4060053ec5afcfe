----------------------------- MODULE EmfiEngine -----------------------------
(***************************************************************************)
(* services/glitch_engine/emfi with the drivers it owns: the campaign      *)
(* state machine (emfi_campaign.c), the PIO fire path (emfi_pio.c), the    *)
(* ADC capture (emfi_capture.c) and the GP14 pulse driver (emfi_pulse.c).  *)
(*                                                                         *)
(* The three time stamps of the engine are each written on the entry to a  *)
(* state and read only in it, so one age, emfiAge, stands for them: of     *)
(* s_arm_start_ms in ARMING, of s_hv_last_charged_ms in CHARGED and of     *)
(* s_fire_start_ms in WAITING.  It is 0 elsewhere.                         *)
(***************************************************************************)
EXTENDS HvCharger, GlitchProgram

CONSTANTS
  Stale,         \* EMFI_CAMPAIGN_HV_STALE_MS
  EmfiConfigs    \* the configurations a host sends

ASSUME EmfiAssumption ==
  /\ Stale \in Nat
  /\ EmfiConfigs \subseteq [trigger : Triggers, chargeTimeout : Nat, ok : BOOLEAN]

EmfiStates == {"IDLE", "ARMING", "CHARGED", "WAITING", "FIRED", "ERROR"}

EmfiErrors == {"NONE", "BAD_CONFIG", "HV_NOT_CHARGED", "TRIGGER_TIMEOUT", "PIO_FAULT"}

\* The states whose entry starts a clock.
EmfiTimed == {"ARMING", "CHARGED", "WAITING"}

VARIABLES
  emfiState, emfiErr, emfiCfg, emfiCfgValid,
  emfiAge,        \* age of the stamp the current state reads
  emfiTimeout,    \* s_fire_timeout_ms
  emfiClaimed,    \* s_claimed: SM 0 of pio0 is ours
  emfiLoaded,     \* s_loaded: the program is in instruction memory
  emfiAttached,   \* s_attached of emfi_pulse: GP14 belongs to PIO
  gp14Fn,         \* the function GP14 is muxed to
  gp14Latch,      \* what PIO last wrote to GP14; a disabled SM leaves it
  sm0,            \* phase of the state machine
  irq0,           \* the flag it raises when done
  capturing       \* s_running of emfi_capture

emfiCtl == <<emfiState, emfiErr, emfiCfg, emfiCfgValid, emfiAge, emfiTimeout>>
emfiPath == <<emfiClaimed, emfiLoaded, emfiAttached, gp14Fn, gp14Latch, sm0, irq0, capturing>>
emfiVars == <<emfiCtl, emfiPath>>

\* The statically zeroed configuration, refused by arm() until one is stored.
EmfiZeroConfig == [trigger |-> "IMMEDIATE", chargeTimeout |-> 0, ok |-> TRUE]

EmfiInit ==
  /\ emfiState = "IDLE"
  /\ emfiErr = "NONE"
  /\ emfiCfg = EmfiZeroConfig
  /\ emfiCfgValid = FALSE
  /\ emfiAge = 0
  /\ emfiTimeout = 0
  /\ emfiClaimed = FALSE
  /\ emfiLoaded = FALSE
  /\ emfiAttached = FALSE
  /\ gp14Fn = "SIO"
  /\ gp14Latch = FALSE
  /\ sm0 = "OFF"
  /\ irq0 = FALSE
  /\ capturing = FALSE

\* The level on the HV pulse pin.  The CPU leaves it low outside a manual pulse.
Gp14High == gp14Fn = "PIO" /\ gp14Latch

-----------------------------------------------------------------------------
(* Teardown, shared by DISARM, by the end of a fire and by every error.     *)

\* Fault: the program is unloaded without giving GP14 back.
EmfiTeardown_KeepsPin(claimed) ==
  /\ capturing' = FALSE
  /\ sm0' = IF claimed THEN "OFF" ELSE sm0
  /\ irq0' = IF claimed THEN FALSE ELSE irq0
  /\ emfiClaimed' = FALSE
  /\ emfiLoaded' = IF claimed THEN FALSE ELSE emfiLoaded
  /\ UNCHANGED <<emfiAttached, gp14Fn, gp14Latch>>
  /\ HvDisarm

\* Fault: the charger is left armed.
EmfiTeardown_KeepsHv(claimed) ==
  /\ capturing' = FALSE
  /\ sm0' = IF claimed THEN "OFF" ELSE sm0
  /\ irq0' = IF claimed THEN FALSE ELSE irq0
  /\ emfiClaimed' = FALSE
  /\ emfiLoaded' = IF claimed THEN FALSE ELSE emfiLoaded
  /\ emfiAttached' = FALSE
  /\ gp14Fn' = IF emfiAttached THEN "SIO" ELSE gp14Fn
  /\ UNCHANGED <<gp14Latch, hvVars>>

\* Every piece is released only if it was taken; claimed is s_claimed at the
\* time of the call.  The PIO's output register keeps its last value.
EmfiTeardown(claimed) ==
  /\ capturing' = FALSE
  /\ sm0' = IF claimed THEN "OFF" ELSE sm0
  /\ irq0' = IF claimed THEN FALSE ELSE irq0
  /\ emfiClaimed' = FALSE
  /\ emfiLoaded' = IF claimed THEN FALSE ELSE emfiLoaded
  /\ emfiAttached' = FALSE
  /\ gp14Fn' = IF emfiAttached THEN "SIO" ELSE gp14Fn
  /\ UNCHANGED gp14Latch
  /\ HvDisarm

EmfiError(err, claimed) ==
  /\ EmfiTeardown(claimed)
  /\ emfiState' = "ERROR"
  /\ emfiErr' = err
  /\ emfiAge' = 0
  /\ UNCHANGED <<emfiCfg, emfiCfgValid, emfiTimeout>>

-----------------------------------------------------------------------------
(* The host's commands.                                                     *)

\* Fault: the ranges are not checked.
EmfiConfigure_Unchecked(c) ==
  /\ emfiCfg' = c
  /\ emfiCfgValid' = TRUE
  /\ emfiState' = "IDLE"
  /\ emfiErr' = "NONE"
  /\ emfiAge' = 0
  /\ UNCHANGED <<emfiTimeout, emfiPath, hvVars>>

\* A configuration out of range is refused.  A good one is stored in any state
\* and drops the engine to IDLE, whatever is still running underneath.
EmfiConfigure(c) ==
  IF c.ok
  THEN /\ emfiCfg' = c
       /\ emfiCfgValid' = TRUE
       /\ emfiState' = "IDLE"
       /\ emfiErr' = "NONE"
       /\ emfiAge' = 0
       /\ UNCHANGED <<emfiTimeout, emfiPath, hvVars>>
  ELSE UNCHANGED <<emfiVars, hvVars>>

EmfiArm ==
  \/ ~emfiCfgValid /\ EmfiError("BAD_CONFIG", emfiClaimed)
  \/ emfiCfgValid /\ emfiState # "IDLE" /\ UNCHANGED <<emfiVars, hvVars>>
  \/ /\ emfiCfgValid
     /\ emfiState = "IDLE"
     /\ HvArm
     /\ emfiState' = "ARMING"
     /\ emfiErr' = "NONE"
     /\ emfiAge' = 0
     /\ UNCHANGED <<emfiCfg, emfiCfgValid, emfiTimeout, emfiPath>>

\* The capacitor was seen charged recently, or is now.
EmfiFresh(seen) == emfiAge <= Stale \/ seen

\* emfi_pio_init, load and start, with the capture started in between.
EmfiStartPath ==
  /\ emfiClaimed' = TRUE
  /\ emfiLoaded' = TRUE
  /\ emfiAttached' = TRUE
  /\ gp14Fn' = "PIO"
  /\ irq0' = FALSE
  /\ sm0' = "WAIT"
  /\ capturing' = TRUE
  /\ UNCHANGED gp14Latch

\* Fault: a stale sample is not taken again.
EmfiFire_TrustsStamp(timeout, room, seen) ==
  /\ emfiState = "CHARGED"
  /\ ~emfiClaimed
  /\ room
  /\ EmfiStartPath
  /\ emfiState' = "WAITING"
  /\ emfiAge' = 0
  /\ emfiTimeout' = timeout
  /\ UNCHANGED <<emfiErr, emfiCfg, emfiCfgValid, hvVars>>

\* Fault: SM 0 is taken over although a program is still running on it.
EmfiFire_NoClaimCheck(timeout, room, seen) ==
  /\ emfiState = "CHARGED"
  /\ EmfiFresh(seen)
  /\ IF room
     THEN /\ emfiClaimed' = TRUE
          /\ emfiLoaded' = TRUE
          /\ sm0' = "WAIT"
          /\ UNCHANGED <<emfiAttached, gp14Fn, gp14Latch, irq0, capturing>>
     ELSE UNCHANGED emfiPath
  /\ emfiState' = "WAITING"
  /\ emfiAge' = 0
  /\ emfiTimeout' = timeout
  /\ UNCHANGED <<emfiErr, emfiCfg, emfiCfgValid, hvVars>>

\* seen is the level of GP18, room whether the program fits in pio0's memory.
\* Claiming SM 0 fails when an earlier fire still holds it; teardown then
\* releases that one.
EmfiFire(timeout, room, seen) ==
  \/ emfiState # "CHARGED" /\ UNCHANGED <<emfiVars, hvVars>>
  \/ /\ emfiState = "CHARGED"
     /\ ~EmfiFresh(seen)
     /\ EmfiError("HV_NOT_CHARGED", emfiClaimed)
  \/ /\ emfiState = "CHARGED"
     /\ EmfiFresh(seen)
     /\ emfiClaimed \/ ~room \/ emfiAttached
     /\ EmfiError("PIO_FAULT", TRUE)
  \/ /\ emfiState = "CHARGED"
     /\ EmfiFresh(seen)
     /\ ~emfiClaimed
     /\ ~emfiAttached
     /\ room
     /\ EmfiStartPath
     /\ emfiState' = "WAITING"
     /\ emfiAge' = 0
     /\ emfiTimeout' = timeout
     /\ UNCHANGED <<emfiErr, emfiCfg, emfiCfgValid, hvVars>>

EmfiDisarm ==
  /\ EmfiTeardown(emfiClaimed)
  /\ emfiState' = "IDLE"
  /\ emfiErr' = "NONE"
  /\ emfiAge' = 0
  /\ UNCHANGED <<emfiCfg, emfiCfgValid, emfiTimeout>>

-----------------------------------------------------------------------------
(* emfi_campaign_tick: the charger's safety net, then the state's own work. *)

EmfiChargeTimedOut == emfiCfg.chargeTimeout # 0 /\ emfiAge > emfiCfg.chargeTimeout

EmfiTickArming(seen) ==
  /\ emfiState = "ARMING"
  /\ \/ /\ seen
        /\ emfiState' = "CHARGED"
        /\ emfiAge' = 0
        /\ HvTick
        /\ UNCHANGED <<emfiErr, emfiCfg, emfiCfgValid, emfiTimeout, emfiPath>>
     \/ ~seen /\ EmfiChargeTimedOut /\ EmfiError("HV_NOT_CHARGED", emfiClaimed)
     \/ ~seen /\ ~EmfiChargeTimedOut /\ HvTick /\ UNCHANGED emfiVars

EmfiTickCharged(seen) ==
  /\ emfiState = "CHARGED"
  /\ emfiAge' = IF seen THEN 0 ELSE emfiAge
  /\ HvTick
  /\ UNCHANGED <<emfiState, emfiErr, emfiCfg, emfiCfgValid, emfiTimeout, emfiPath>>

EmfiDone == emfiClaimed /\ irq0

EmfiTriggerTimedOut == emfiTimeout # 0 /\ emfiAge > emfiTimeout

\* Fault: the trigger wait has no timeout.
EmfiTickWaiting_NoTimeout ==
  /\ emfiState = "WAITING"
  /\ \/ /\ EmfiDone
        /\ EmfiTeardown(emfiClaimed)
        /\ emfiState' = "FIRED"
        /\ emfiAge' = 0
        /\ UNCHANGED <<emfiErr, emfiCfg, emfiCfgValid, emfiTimeout>>
     \/ ~EmfiDone /\ HvTick /\ UNCHANGED emfiVars

\* Fault: a fire that completed is reported without a teardown.
EmfiTickWaiting_NoTeardown ==
  /\ emfiState = "WAITING"
  /\ \/ /\ EmfiDone
        /\ HvTick
        /\ emfiState' = "FIRED"
        /\ emfiAge' = 0
        /\ UNCHANGED <<emfiErr, emfiCfg, emfiCfgValid, emfiTimeout, emfiPath>>
     \/ ~EmfiDone /\ EmfiTriggerTimedOut /\ EmfiError("TRIGGER_TIMEOUT", emfiClaimed)
     \/ ~EmfiDone /\ ~EmfiTriggerTimedOut /\ HvTick /\ UNCHANGED emfiVars

EmfiTickWaiting ==
  /\ emfiState = "WAITING"
  /\ \/ /\ EmfiDone
        /\ EmfiTeardown(emfiClaimed)
        /\ emfiState' = "FIRED"
        /\ emfiAge' = 0
        /\ UNCHANGED <<emfiErr, emfiCfg, emfiCfgValid, emfiTimeout>>
     \/ ~EmfiDone /\ EmfiTriggerTimedOut /\ EmfiError("TRIGGER_TIMEOUT", emfiClaimed)
     \/ ~EmfiDone /\ ~EmfiTriggerTimedOut /\ HvTick /\ UNCHANGED emfiVars

EmfiTick(seen) ==
  \/ EmfiTickArming(seen)
  \/ EmfiTickCharged(seen)
  \/ EmfiTickWaiting
  \/ emfiState \notin EmfiTimed /\ HvTick /\ UNCHANGED emfiVars

-----------------------------------------------------------------------------
(* The state machine, the buttons and the clock.                            *)

\* SM 0 runs beside the CPU and drives GP14 through the PIO output register.
EmfiPioStep ==
  \E p \in NextPhase(sm0) :
    /\ sm0' = p
    /\ gp14Latch' = (p = "HIGH")
    /\ irq0' = (irq0 \/ p = "DONE")
    /\ UNCHANGED <<emfiCtl, emfiClaimed, emfiLoaded, emfiAttached, gp14Fn, capturing, hvVars>>

\* The ARM button toggles the charger behind the engine's back.
ButtonArm ==
  /\ IF hvArmed THEN HvDisarm ELSE HvArm
  /\ UNCHANGED emfiVars

\* The PULSE button fires by hand and disarms, unless PIO owns the pin.
ButtonPulse(seen) ==
  /\ hvArmed
  /\ seen
  /\ ~emfiAttached
  /\ HvDisarm
  /\ UNCHANGED emfiVars

EmfiElapse ==
  /\ emfiAge' = IF emfiState \in EmfiTimed THEN Older(emfiAge) ELSE emfiAge
  /\ UNCHANGED <<emfiState, emfiErr, emfiCfg, emfiCfgValid, emfiTimeout, emfiPath>>
=============================================================================
