----------------------------- MODULE GlitchSafety -----------------------------
(***************************************************************************)
(* What the glitching half of the firmware promises as a whole: the        *)
(* properties that relate the sweep, the executor, the engines and the     *)
(* charger to one another.                                                 *)
(***************************************************************************)
EXTENDS GlitchFirmware

-----------------------------------------------------------------------------
(* Invariants.                                                              *)

\* pio_glitch_prog.h and the SDK's loader: the programs of the two engines lie in
\* pio0's memory side by side, in whatever order the engines load and drop them.
ProgramsApart ==
  /\ Slots(emfiProg) \subseteq 0 .. MemorySize - 1
  /\ Slots(cbProg) \subseteq 0 .. MemorySize - 1
  /\ Slots(emfiProg) \cap Slots(cbProg) = {}

\* The composition's own variables keep their types, and the loaded programs their
\* places in pio0's memory.
TypeOK ==
  /\ exec \in ExecStates
  /\ execAge \in Age
  /\ execOk \in BOOLEAN
  /\ execFire \in FireCodes
  /\ ProgramsApart
  /\ capCharged \in BOOLEAN
  /\ polled \in BOOLEAN
  /\ bursts \in 0 .. 2
  /\ touched \in BOOLEAN

\* The manager believes a step is in progress exactly while an executor is on the
\* stack.  As long as no host command has reached its engine in the step, that
\* executor waits for an engine on its way to the answer.  After such a command
\* it may wait for a charge or a trigger the engine no longer expects: an EMFI
\* step then ends by its own limits, a crowbar step only by a STOP.
WaitIsAnswered ==
  /\ inStep <=> exec # "NONE"
  /\ ~touched =>
       /\ exec = "CHARGE" => emfiState = "ARMING"
       /\ exec = "FIRE" => emfiState = "WAITING"
       /\ exec = "WAIT" => cbState = "WAITING"

\* SAFETY.md: the charger is never armed for longer than the auto-disarm period.
HvNeverOverstays == hvArmed => hvAge <= AutoDisarm

-----------------------------------------------------------------------------
(* Action properties.                                                       *)

\* The auto-disarm period is only ever exceeded while time passes inside the
\* trigger wait of a crowbar step; everywhere else the safety net is polled.
OverstaysOnlyInCrowbarWait ==
  [][(hvArmed /\ hvAge = AutoDisarm /\ hvAge' > AutoDisarm) => exec = "WAIT"]_vars

\* main.c: the engine's own charge timeout wins the race against the executor's,
\* so that the host learns the real cause.  The generic CHARGE_TIMEOUT is reported
\* only after a host command to the engine.
EngineTimeoutWins ==
  [][(exec' = "RETURN" /\ execFire' = "CHARGE_TIMEOUT") => touched]_vars

\* A step reported as fired has fired: its engine's program ran its trigger block
\* during this step, and just once unless the host drove the engine as well.
ReportIsTrue ==
  [][(exec # "RETURN" /\ exec' = "RETURN" /\ execFire' = "OK") =>
       bursts >= 1 /\ (touched \/ bursts = 1)]_vars

\* A sweep that settles in STOPPED leaves its own engine idle with nothing on the
\* PIO and, for EMFI, the charger disarmed.  Nothing is said of the other engine,
\* nor of the charger after a crowbar sweep: the stop hook leaves them alone.
StoppedIsSafe ==
  [][CmStopSettles =>
       IF cmCfg.engine = "EMFI" THEN emfiState' = "IDLE" /\ ~emfiClaimed' /\ ~hvArmed'
       ELSE cbState' = "IDLE" /\ ~cbClaimed']_vars

\* main.c: once a sweep that a STOP was sent to has halted, the engine is back at
\* IDLE (or its terminal states, which are torn down) and the charger disarmed.
StopLeavesEngineSafe ==
  [][(pendingStop /\ inStep /\ ~inStep' /\ cmCfg.engine = "EMFI") => ~hvArmed']_vars

-----------------------------------------------------------------------------
(* Liveness.                                                                *)

\* A STOP that arrives inside a step ends the step, although the charge loop does
\* not look at it and the crowbar wait has no timeout of its own.
StopEndsStep == pendingStop ~> ~inStep

\* An EMFI step ends by itself, whatever the host does to the engine meanwhile.
EmfiStepEnds == (inStep /\ cmCfg.engine = "EMFI") ~> ~inStep
=============================================================================
