--------------------------- MODULE GlitchFirmware ---------------------------
(***************************************************************************)
(* apps/faultycat_fw/main.c, the glitching half: one CPU that either runs  *)
(* the main loop or sits in the executor of a sweep step, the campaign     *)
(* manager above it, both glitch engines and the charger below it.         *)
(*                                                                         *)
(* exec says where the CPU is.  An executor polls its engine and yields to *)
(* the two serial pumps between polls, so host commands run at the yield   *)
(* points NONE (the main loop), CHARGE, FIRE and WAIT; in BEGIN, FIRE_CALL *)
(* and RETURN the code runs on without a yield and only the hardware moves. *)
(***************************************************************************)
EXTENDS CampaignManager, EmfiEngine, CrowbarEngine

CONSTANTS
  ChargeWait,    \* CAMPAIGN_HV_CHARGE_WAIT_MS
  ChargeSlack,   \* the 500 ms by which the executor outwaits the engine
  FireWait,      \* CAMPAIGN_FIRE_TIMEOUT_MS
  FireTimeouts   \* the trigger timeouts a host asks for, 0 for none

ASSUME FirmwareAssumption ==
  /\ ChargeWait \in Nat \ {0}
  /\ ChargeSlack \in Nat \ {0}
  /\ FireWait \in Nat \ {0}
  /\ FireTimeouts \subseteq Nat

ExecStates == {"NONE", "BEGIN", "CHARGE", "FIRE_CALL", "FIRE", "WAIT", "RETURN"}

ExecFailures == {"CONFIGURE_ERR", "CHARGE_TIMEOUT", "FIRE_REJECTED", "ENGINE_STUCK",
                 "ENGINE_ERR"}

ASSUME FailCodesAssumption == FailCodes = ExecFailures

VARIABLES
  exec,        \* where the executor is
  execAge,     \* age of charge_start in CHARGE, of start in FIRE, else 0
  execOk, execFire,      \* what it is about to report, TRUE and OK before that
  emfiProg, cbProg,      \* where the two PIO programs sit in pio0's memory
  capCharged,  \* GP18: the capacitor is charged
  polled,      \* the loop in charge has run since the clock last moved
  bursts,      \* bursts fired since the step began (up to 2); 0 outside a step
  touched      \* a host command reached the step's engine; FALSE outside a step

execVars == <<exec, execAge, execOk, execFire>>
ghosts == <<bursts, touched>>
world == <<capCharged, polled>>
engines == <<emfiVars, hvVars, cbVars>>
vars == <<cmVars, engines, emfiProg, cbProg, execVars, world, ghosts>>

Init ==
  /\ CmInit
  /\ EmfiInit
  /\ HvInit
  /\ CbInit
  /\ exec = "NONE"
  /\ execAge = 0
  /\ execOk = TRUE
  /\ execFire = "OK"
  /\ emfiProg = NoProgram
  /\ cbProg = NoProgram
  /\ capCharged = FALSE
  /\ polled = FALSE
  /\ bursts = 0
  /\ touched = FALSE

-----------------------------------------------------------------------------
(* pio0's instruction memory: a program appears when an engine loads it and *)
(* disappears when the engine lets go of it.                                *)

EmfiLength == ProgramLength(emfiCfg.trigger, FALSE)
CbLength == ProgramLength(cbCfg.trigger, TRUE)

EmfiRoom == Fitting(EmfiLength, cbProg) # {}
CbRoom == Fitting(CbLength, emfiProg) # {}

Memory ==
  /\ emfiProg' = CASE ~emfiLoaded' -> NoProgram
                   [] emfiLoaded' /\ ~emfiLoaded -> Placed(EmfiLength, cbProg)
                   [] emfiLoaded' /\ emfiLoaded -> emfiProg
  /\ cbProg' = CASE ~cbLoaded' -> NoProgram
                 [] cbLoaded' /\ ~cbLoaded -> Placed(CbLength, emfiProg)
                 [] cbLoaded' /\ cbLoaded -> cbProg

-----------------------------------------------------------------------------
(* Host commands.                                                           *)

AtYield == exec \in {"NONE", "CHARGE", "FIRE", "WAIT"}

\* Fault: the engine is not told that the sweep stopped.
StopHook_Forgotten == UNCHANGED engines

\* campaign_stop_hook, called by the manager as the sweep settles in STOPPED.
StopHook ==
  IF CmStopSettles
  THEN IF cmCfg.engine = "EMFI"
       THEN EmfiDisarm /\ UNCHANGED cbVars
       ELSE CbDisarm /\ UNCHANGED <<emfiVars, hvVars>>
  ELSE UNCHANGED engines

HostCampaign ==
  /\ AtYield
  /\ \/ \E c \in Configs : CmConfigure(c) /\ UNCHANGED engines
     \/ CmStart /\ UNCHANGED engines
     \/ CmStop /\ StopHook
     \/ \E n \in DrainSizes : CmDrain(n) /\ UNCHANGED engines
  /\ UNCHANGED <<execVars, world, ghosts>>

HostEmfi ==
  /\ AtYield
  /\ \/ \E c \in EmfiConfigs : EmfiConfigure(c)
     \/ EmfiArm
     \/ \E t \in FireTimeouts : EmfiFire(t, EmfiRoom, capCharged)
     \/ EmfiDisarm
  /\ touched' = (touched \/ (inStep /\ cmCfg.engine = "EMFI"))
  /\ UNCHANGED <<cmVars, cbVars, execVars, world, bursts>>

HostCrowbar ==
  /\ AtYield
  /\ \/ \E c \in CbConfigs : CbConfigure(c)
     \/ CbArm
     \/ \E t \in FireTimeouts : CbFire(t, CbRoom)
     \/ CbDisarm
  /\ touched' = (touched \/ (inStep /\ cmCfg.engine = "CROWBAR"))
  /\ UNCHANGED <<cmVars, emfiVars, hvVars, execVars, world, bursts>>

-----------------------------------------------------------------------------
(* The main loop.                                                           *)

\* One pass: both engines are ticked, then the manager, which may enter a step.
MainPass ==
  /\ exec = "NONE"
  /\ EmfiTick(capCharged)
  /\ CbTick
  /\ IF StepDue
     THEN CmBeginStep /\ exec' = (IF inStep' THEN "BEGIN" ELSE "NONE")
     ELSE UNCHANGED <<cmVars, exec>>
  /\ polled' = TRUE
  /\ UNCHANGED <<execAge, execOk, execFire, capCharged, ghosts>>

Buttons ==
  /\ exec = "NONE"
  /\ ButtonArm \/ ButtonPulse(capCharged)
  /\ UNCHANGED <<cmVars, cbVars, execVars, world, ghosts>>

-----------------------------------------------------------------------------
(* The step executors.                                                      *)

Goto(place) ==
  /\ exec' = place
  /\ execAge' = 0
  /\ UNCHANGED <<execOk, execFire>>

Report(ok, fire) ==
  /\ exec' = "RETURN"
  /\ execAge' = 0
  /\ execOk' = ok
  /\ execFire' = fire

\* A width of 0 stands for parameters outside an engine's range.
Refused == CurrentParams.width = 0

\* configure() and arm(), one after the other.  The operator's trigger is kept.
EmfiRearm ==
  /\ emfiCfg' = [trigger |-> emfiCfg.trigger, chargeTimeout |-> ChargeWait, ok |-> TRUE]
  /\ emfiCfgValid' = TRUE
  /\ emfiState' = "ARMING"
  /\ emfiErr' = "NONE"
  /\ emfiAge' = 0
  /\ HvArm
  /\ UNCHANGED <<emfiTimeout, emfiPath>>

CbRearm ==
  /\ cbCfg' = [trigger |-> cbCfg.trigger, ok |-> TRUE,
               out |-> IF CurrentParams.power = 2 THEN "HP" ELSE "LP"]
  /\ cbCfgValid' = TRUE
  /\ cbState' = "ARMED"
  /\ cbErr' = "NONE"
  /\ cbAge' = 0
  /\ UNCHANGED <<cbTimeout, cbPath>>

\* Fault: the step starts on the engine as the last one left it.
ExecBegin_KeepsEngine ==
  /\ exec = "BEGIN"
  /\ Goto(IF cmCfg.engine = "EMFI" THEN "CHARGE" ELSE "FIRE_CALL")
  /\ UNCHANGED <<cmVars, engines, world, ghosts>>

\* Parameters out of range are refused; arm() cannot fail right after a good
\* configure(), so CAMPAIGN_FIRE_ARM_ERR is never reported.
ExecBegin ==
  /\ exec = "BEGIN"
  /\ \/ Refused /\ Report(FALSE, "CONFIGURE_ERR") /\ UNCHANGED engines
     \/ /\ ~Refused
        /\ cmCfg.engine = "EMFI"
        /\ EmfiRearm
        /\ Goto("CHARGE")
        /\ UNCHANGED cbVars
     \/ /\ ~Refused
        /\ cmCfg.engine = "CROWBAR"
        /\ CbRearm
        /\ Goto("FIRE_CALL")
        /\ UNCHANGED <<emfiVars, hvVars>>
  /\ UNCHANGED <<cmVars, world, ghosts>>

\* The executor's own limit is over, or still is not.  It reads the clock again
\* after the engine's tick has read it, so at the limit either can be the case.
Overdue(limit) == execAge >= limit

InTime(limit) == execAge <= limit

\* Fault: the executor waits no longer than the engine's own charge timeout.
ExecCharge_NoSlack ==
  /\ exec = "CHARGE"
  /\ EmfiTick(capCharged)
  /\ \/ emfiState' = "CHARGED" /\ Goto("FIRE_CALL")
     \/ emfiState' = "ERROR" /\ Report(FALSE, "ENGINE_ERR")
     \/ /\ emfiState' \notin {"CHARGED", "ERROR"}
        /\ Overdue(ChargeWait)
        /\ Report(FALSE, "CHARGE_TIMEOUT")
     \/ /\ emfiState' \notin {"CHARGED", "ERROR"}
        /\ InTime(ChargeWait)
        /\ UNCHANGED execVars
  /\ polled' = TRUE
  /\ UNCHANGED <<cmVars, cbVars, capCharged, ghosts>>

\* One turn of the charge loop.  A pending STOP is not looked at here.
ExecCharge ==
  /\ exec = "CHARGE"
  /\ EmfiTick(capCharged)
  /\ \/ emfiState' = "CHARGED" /\ Goto("FIRE_CALL")
     \/ emfiState' = "ERROR" /\ Report(FALSE, "ENGINE_ERR")
     \/ /\ emfiState' \notin {"CHARGED", "ERROR"}
        /\ Overdue(ChargeWait + ChargeSlack)
        /\ Report(FALSE, "CHARGE_TIMEOUT")
     \/ /\ emfiState' \notin {"CHARGED", "ERROR"}
        /\ InTime(ChargeWait + ChargeSlack)
        /\ UNCHANGED execVars
  /\ polled' = TRUE
  /\ UNCHANGED <<cmVars, cbVars, capCharged, ghosts>>

\* fire(): with a timeout on the EMFI engine, without one on the crowbar.
ExecFireCall ==
  /\ exec = "FIRE_CALL"
  /\ \/ /\ cmCfg.engine = "EMFI"
        /\ EmfiFire(FireWait, EmfiRoom, capCharged)
        /\ IF emfiState' = "WAITING" THEN Goto("FIRE") ELSE Report(FALSE, "FIRE_REJECTED")
        /\ UNCHANGED cbVars
     \/ /\ cmCfg.engine = "CROWBAR"
        /\ CbFire(0, CbRoom)
        /\ IF cbState' = "WAITING" THEN Goto("WAIT") ELSE Report(FALSE, "FIRE_REJECTED")
        /\ UNCHANGED <<emfiVars, hvVars>>
  /\ UNCHANGED <<cmVars, world, ghosts>>

\* The state the engines' ticks lead to, looked at right after them.
EmfiAfterTick ==
  CASE emfiState = "ARMING" /\ capCharged -> "CHARGED"
    [] emfiState = "ARMING" /\ ~capCharged /\ EmfiChargeTimedOut -> "ERROR"
    [] emfiState = "WAITING" /\ EmfiDone -> "FIRED"
    [] emfiState = "WAITING" /\ ~EmfiDone /\ EmfiTriggerTimedOut -> "ERROR"
    [] OTHER -> emfiState

CbAfterTick ==
  CASE cbState = "WAITING" /\ CbDone -> "FIRED"
    [] cbState = "WAITING" /\ ~CbDone /\ CbTimedOut -> "ERROR"
    [] OTHER -> cbState

\* Fault: the executor leaves every timeout to the engine.
ExecFire_NoLimit ==
  /\ exec = "FIRE"
  /\ \/ EmfiAfterTick = "FIRED" /\ EmfiTick(capCharged) /\ Report(TRUE, "OK")
     \/ EmfiAfterTick = "ERROR" /\ EmfiTick(capCharged) /\ Report(FALSE, "ENGINE_ERR")
     \/ /\ EmfiAfterTick \notin {"FIRED", "ERROR"}
        /\ IF pendingStop THEN EmfiDisarm /\ Report(TRUE, "ABORTED")
           ELSE EmfiTick(capCharged) /\ UNCHANGED execVars
  /\ polled' = TRUE
  /\ UNCHANGED <<cmVars, cbVars, capCharged, ghosts>>

\* One turn of the EMFI fire loop: fired, failed, stopped, out of time, or again.
ExecFire ==
  /\ exec = "FIRE"
  /\ \/ EmfiAfterTick = "FIRED" /\ EmfiTick(capCharged) /\ Report(TRUE, "OK")
     \/ EmfiAfterTick = "ERROR" /\ EmfiTick(capCharged) /\ Report(FALSE, "ENGINE_ERR")
     \/ /\ EmfiAfterTick \notin {"FIRED", "ERROR"}
        /\ pendingStop
        /\ EmfiDisarm
        /\ Report(TRUE, "ABORTED")
     \/ /\ EmfiAfterTick \notin {"FIRED", "ERROR"}
        /\ ~pendingStop
        /\ EmfiTick(capCharged)
        /\ \/ Overdue(FireWait) /\ Report(FALSE, "ENGINE_STUCK")
           \/ InTime(FireWait) /\ UNCHANGED execVars
  /\ polled' = TRUE
  /\ UNCHANGED <<cmVars, cbVars, capCharged, ghosts>>

\* Fault: the trigger wait does not look at a pending STOP.
ExecWait_IgnoresStop ==
  /\ exec = "WAIT"
  /\ CbTick
  /\ \/ cbState' = "FIRED" /\ Report(TRUE, "OK")
     \/ cbState' = "ERROR" /\ Report(FALSE, "ENGINE_ERR")
     \/ cbState' \notin {"FIRED", "ERROR"} /\ UNCHANGED execVars
  /\ polled' = TRUE
  /\ UNCHANGED <<cmVars, emfiVars, hvVars, capCharged, ghosts>>

\* One turn of the crowbar wait.  It has no timeout, and nothing in it polls the
\* charger or the buttons.
ExecWait ==
  /\ exec = "WAIT"
  /\ \/ CbAfterTick = "FIRED" /\ CbTick /\ Report(TRUE, "OK")
     \/ CbAfterTick = "ERROR" /\ CbTick /\ Report(FALSE, "ENGINE_ERR")
     \/ /\ CbAfterTick \notin {"FIRED", "ERROR"}
        /\ pendingStop
        /\ CbDisarm
        /\ Report(TRUE, "ABORTED")
     \/ /\ CbAfterTick \notin {"FIRED", "ERROR"}
        /\ ~pendingStop
        /\ CbTick
        /\ UNCHANGED execVars
  /\ polled' = TRUE
  /\ UNCHANGED <<cmVars, emfiVars, hvVars, capCharged, ghosts>>

\* The step returns to campaign_manager_tick, and the main loop goes on.
ExecReturn ==
  /\ exec = "RETURN"
  /\ CmEndStep(execOk, execFire)
  /\ StopHook
  /\ exec' = "NONE"
  /\ execOk' = TRUE
  /\ execFire' = "OK"
  /\ polled' = FALSE
  /\ bursts' = 0
  /\ touched' = FALSE
  /\ UNCHANGED <<execAge, capCharged>>

Executor == ExecBegin \/ ExecCharge \/ ExecFireCall \/ ExecFire \/ ExecWait \/ ExecReturn

-----------------------------------------------------------------------------
(* The hardware and the clock.                                              *)

CountBurst(engine, before, after) ==
  bursts' = IF /\ inStep
               /\ cmCfg.engine = engine
               /\ before = "WAIT"
               /\ after = "HIGH"
               /\ bursts < 2
            THEN bursts + 1 ELSE bursts

PioStep ==
  /\ \/ EmfiPioStep /\ CountBurst("EMFI", sm0, sm0') /\ UNCHANGED cbVars
     \/ CbPioStep /\ CountBurst("CROWBAR", sm1, sm1') /\ UNCHANGED <<emfiVars, hvVars>>
  /\ UNCHANGED <<cmVars, execVars, world, touched>>

Capacitor ==
  /\ hvArmed \/ capCharged
  /\ capCharged' = ~capCharged
  /\ UNCHANGED <<cmVars, engines, execVars, polled, ghosts>>

Elapse ==
  /\ polled
  /\ AtYield
  /\ polled' = FALSE
  /\ CmElapse
  /\ EmfiElapse
  /\ CbElapse
  /\ HvElapse
  /\ execAge' = IF exec \in {"CHARGE", "FIRE"} THEN Older(execAge) ELSE execAge
  /\ UNCHANGED <<exec, execOk, execFire, capCharged, ghosts>>

Next ==
  /\ \/ HostCampaign
     \/ HostEmfi
     \/ HostCrowbar
     \/ MainPass
     \/ Buttons
     \/ Executor
     \/ PioStep
     \/ Capacitor
     \/ Elapse
  /\ Memory

\* The CPU never stops and time goes on.  Nothing is assumed of the host, of the
\* trigger lines or of the capacitor.
Spec ==
  /\ Init
  /\ [][Next]_vars
  /\ WF_vars((MainPass \/ Executor) /\ Memory)
  /\ WF_vars(Elapse /\ Memory)
=============================================================================
