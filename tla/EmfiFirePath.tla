---------------------------- MODULE EmfiFirePath ----------------------------
(***************************************************************************)
(* The EMFI engine in its surroundings: a host that sends any command at   *)
(* any time, the main loop that ticks the engine, the two buttons, the     *)
(* capacitor behind GP18 and the trigger line behind SM 0.                 *)
(*                                                                         *)
(* The clock moves only between two polls: this is the engine under a main *)
(* loop that comes round.  A crowbar campaign step that waits for its      *)
(* trigger, a logic analyser's trigger wait and the sleep of `reset` keep  *)
(* the loop from polling; GlitchFirmware has the first of them.            *)
(***************************************************************************)
EXTENDS EmfiEngine

CONSTANT FireTimeouts   \* the trigger timeouts a host asks for, 0 for none

ASSUME FireTimeoutsAssumption == FireTimeouts \subseteq Nat

VARIABLES
  capCharged,   \* GP18: the capacitor is charged
  capAge,       \* age of the last moment it was
  polled        \* the main loop has run since the clock last moved

environment == <<capCharged, capAge, polled>>
vars == <<emfiVars, hvVars, environment>>

Init ==
  /\ EmfiInit
  /\ HvInit
  /\ capCharged = FALSE
  /\ capAge = Horizon
  /\ polled = FALSE

Host ==
  /\ \/ \E c \in EmfiConfigs : EmfiConfigure(c)
     \/ EmfiArm
     \/ \E t \in FireTimeouts, room \in BOOLEAN : EmfiFire(t, room, capCharged)
     \/ EmfiDisarm
  /\ UNCHANGED environment

Poll ==
  /\ EmfiTick(capCharged)
  /\ polled' = TRUE
  /\ UNCHANGED <<capCharged, capAge>>

Buttons ==
  /\ ButtonArm \/ ButtonPulse(capCharged)
  /\ UNCHANGED environment

PioStep == EmfiPioStep /\ UNCHANGED environment

\* The flyback fills the capacitor only while armed; it may droop at any time.
Capacitor ==
  /\ hvArmed \/ capCharged
  /\ capCharged' = ~capCharged
  /\ capAge' = 0
  /\ UNCHANGED <<emfiVars, hvVars, polled>>

\* A main-loop pass takes far less than one time unit.
Elapse ==
  /\ polled
  /\ polled' = FALSE
  /\ EmfiElapse
  /\ HvElapse
  /\ capAge' = IF capCharged THEN 0 ELSE Older(capAge)
  /\ UNCHANGED capCharged

Next == Host \/ Poll \/ Buttons \/ PioStep \/ Capacitor \/ Elapse

\* Time goes on.  The main loop need not: the crowbar executor inside it waits for
\* an edge without a time-out, and serves the host all the while.  Nothing is
\* assumed of the host, of the trigger line or of the capacitor either.
Spec == Init /\ [][Next]_vars /\ WF_vars(Elapse)

-----------------------------------------------------------------------------
(* Invariants.                                                              *)

\* Every variable keeps its type, and only a configuration in range is ever valid.
TypeOK ==
  /\ emfiState \in EmfiStates
  /\ emfiErr \in EmfiErrors
  /\ emfiCfg \in EmfiConfigs \cup {EmfiZeroConfig}
  /\ emfiCfgValid \in BOOLEAN
  /\ emfiCfgValid => emfiCfg.ok
  /\ emfiAge \in Age
  /\ emfiTimeout \in FireTimeouts \cup {0}
  /\ emfiClaimed \in BOOLEAN
  /\ emfiLoaded \in BOOLEAN
  /\ emfiAttached \in BOOLEAN
  /\ gp14Fn \in {"SIO", "PIO"}
  /\ gp14Latch \in BOOLEAN
  /\ sm0 \in Phases
  /\ irq0 \in BOOLEAN
  /\ capturing \in BOOLEAN
  /\ hvArmed \in BOOLEAN
  /\ hvAge \in Age
  /\ capCharged \in BOOLEAN
  /\ capAge \in Age
  /\ polled \in BOOLEAN

\* The pieces of the fire path are taken and given back together: SM 0, its
\* program, the driver's ownership of GP14, the pin mux and the ADC agree, and
\* a fire that is waited for has all of them, so its end can be observed.
FirePathOwned ==
  /\ emfiLoaded = emfiClaimed
  /\ emfiAttached = emfiClaimed
  /\ capturing = emfiClaimed
  /\ (gp14Fn = "PIO") = emfiClaimed
  /\ (sm0 # "OFF") = emfiClaimed
  /\ irq0 = (sm0 = "DONE")
  /\ emfiState = "WAITING" => emfiClaimed

\* emfi_campaign.h: teardown on every terminal state.  An engine that reports
\* FIRED or ERROR has no program left that could still pulse, and GP14 is low.
TerminalQuiet ==
  emfiState \in {"FIRED", "ERROR"} => ~emfiClaimed /\ sm0 = "OFF" /\ ~Gp14High

\* SAFETY.md: the charger is never armed for longer than the auto-disarm period,
\* whoever armed it and whatever the engine is doing, under a main loop that polls.
HvNeverOverstays == hvArmed => hvAge <= AutoDisarm

\* emfi_pulse.h: the program holds GP14 low until its trigger and delay are over.
HeldLowUntilTrigger == sm0 = "WAIT" => ~Gp14High

-----------------------------------------------------------------------------
(* Action and liveness properties.                                          *)

\* Reaching FIRED or ERROR disarms the charger in the same step.
TerminalDisarms ==
  [][(emfiState' # emfiState /\ emfiState' \in {"FIRED", "ERROR"}) => ~hvArmed']_vars

\* SAFETY.md invariant 5: a PIO fire starts only if the capacitor really was
\* charged within the last Stale time units.
FireOnFreshCharge ==
  [][(emfiState # "WAITING" /\ emfiState' = "WAITING") => capAge <= Stale]_vars

\* The main loop always gets to the engine again.
LoopComesRound == []<>polled

\* As long as the main loop comes round, a charge or trigger wait with a timeout
\* ends, whatever the host, the trigger line and the capacitor do.  An engine that
\* a host armed during a crowbar step waits for the end of that step.
WaitsEnd ==
  LoopComesRound =>
    /\ (emfiState = "ARMING" /\ emfiCfg.chargeTimeout # 0) ~> emfiState # "ARMING"
    /\ (emfiState = "WAITING" /\ emfiTimeout # 0) ~> emfiState # "WAITING"
=============================================================================
