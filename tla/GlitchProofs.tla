----------------------------- MODULE GlitchProofs -----------------------------
(***************************************************************************)
(* Proofs about the glitching half as a whole, for every set of sweep and  *)
(* engine configurations, every timeout, every depth of the result ring    *)
(* and every clock horizon: the executor's waits are answered, its reports *)
(* are true, the timeouts race as main.c intends, a stopped sweep leaves   *)
(* its engine idle, the two PIO programs never overlap, the executors keep *)
(* to what the campaign manager expects of them, and what is proved of     *)
(* either engine by itself holds of it in the firmware.                    *)
(***************************************************************************)
EXTENDS GlitchSafety, WellFoundedInduction, TLAPS

-----------------------------------------------------------------------------
(* The parts of the inductive invariant.                                    *)

\* Where the executor is agrees with what the manager believes, with the engine
\* that is swept and with the pending STOP.
ExecTyped ==
  /\ exec \in ExecStates
  /\ execAge \in Age
  /\ execOk \in BOOLEAN
  /\ execFire \in FireCodes
  /\ inStep \in BOOLEAN
  /\ pendingStop \in BOOLEAN
  /\ cmCfg.engine \in {"EMFI", "CROWBAR"}
  /\ capCharged \in BOOLEAN
  /\ polled \in BOOLEAN
  /\ touched \in BOOLEAN
  /\ bursts \in 0 .. 2

ExecAgrees ==
  /\ inStep <=> exec # "NONE"
  /\ inStep => cmState = "SWEEPING"
  /\ pendingStop => inStep
  /\ exec \in {"CHARGE", "FIRE"} => cmCfg.engine = "EMFI"
  /\ exec = "WAIT" => cmCfg.engine = "CROWBAR"
  /\ exec = "NONE" => ~touched /\ bursts = 0
  /\ exec = "RETURN" => Reportable(execOk, execFire)
  /\ exec = "RETURN" /\ execFire = "CHARGE_TIMEOUT" => touched

EmfiTyped ==
  /\ emfiState \in EmfiStates
  /\ emfiCfg \in [trigger : Triggers, chargeTimeout : Nat, ok : BOOLEAN]
  /\ emfiAge \in Age
  /\ emfiClaimed \in BOOLEAN
  /\ emfiLoaded \in BOOLEAN
  /\ emfiAttached \in BOOLEAN
  /\ sm0 \in Phases
  /\ irq0 \in BOOLEAN
  /\ hvArmed \in BOOLEAN
  /\ hvAge \in Age

\* As in EmfiFirePath and CrowbarFirePath: a fire path is held or released as a
\* whole, so a fire that is waited for can be seen to end.
EmfiPathHeld ==
  /\ emfiLoaded = emfiClaimed
  /\ emfiAttached = emfiClaimed
  /\ (sm0 # "OFF") = emfiClaimed
  /\ irq0 = (sm0 = "DONE")
  /\ emfiState = "WAITING" => emfiClaimed

CbTyped ==
  /\ cbState \in CbStates
  /\ cbCfg.trigger \in Triggers
  /\ cbClaimed \in BOOLEAN
  /\ cbLoaded \in BOOLEAN
  /\ sm1 \in Phases
  /\ irq1 \in BOOLEAN

CbPathHeld ==
  /\ cbLoaded = cbClaimed
  /\ (sm1 # "OFF") = cbClaimed
  /\ irq1 = (sm1 = "DONE")
  /\ cbState = "WAITING" => cbClaimed

\* What the executor waits for is under way: always as it calls fire(), and while
\* the host keeps off the engine afterwards as well.  The executor's charge clock
\* and the engine's run together.
EngineAnswers ==
  /\ exec = "FIRE_CALL" /\ cmCfg.engine = "EMFI" => emfiState = "CHARGED"
  /\ exec = "FIRE_CALL" /\ cmCfg.engine = "CROWBAR" => cbState = "ARMED"
  /\ exec = "FIRE" => emfiState # "FIRED"
  /\ exec = "WAIT" => cbState # "FIRED"
  /\ ~touched /\ exec = "CHARGE" =>
       /\ emfiState = "ARMING"
       /\ emfiCfg.chargeTimeout = ChargeWait
       /\ emfiAge = execAge
  /\ ~touched /\ exec = "FIRE" => emfiState = "WAITING"
  /\ ~touched /\ exec = "WAIT" => cbState = "WAITING"

Running == {"HIGH", "GAP", "DONE"}

\* A program that is past its trigger has been counted.  A burst before the
\* executor's own fire() comes from a program an earlier fire left behind, which
\* still holds the state machine, so that fire() will refuse.
BurstsCounted ==
  /\ exec = "FIRE" /\ sm0 \in Running => bursts >= 1
  /\ exec = "WAIT" /\ sm1 \in Running => bursts >= 1
  /\ ~touched /\ exec = "FIRE" => bursts = IF sm0 = "WAIT" THEN 0 ELSE 1
  /\ ~touched /\ exec = "WAIT" => bursts = IF sm1 = "WAIT" THEN 0 ELSE 1
  /\ ~touched /\ exec \in {"BEGIN", "CHARGE", "FIRE_CALL"} /\ bursts # 0 =>
       IF cmCfg.engine = "EMFI" THEN emfiClaimed ELSE cbClaimed

IInv ==
  /\ ExecTyped
  /\ ExecAgrees
  /\ EmfiTyped
  /\ EmfiPathHeld
  /\ CbTyped
  /\ CbPathHeld
  /\ EngineAnswers
  /\ BurstsCounted
  /\ ProgramsApart

\* The safety net keeps ahead of the clock wherever it is polled.
SafetyNet ==
  exec \notin {"WAIT", "RETURN"} /\ polled /\ hvArmed => hvAge < AutoDisarm

-----------------------------------------------------------------------------
(* The EMFI engine and the charger.                                         *)

EmfiSound == EmfiTyped /\ EmfiPathHeld

LEMMA AgeZero == 0 \in Age
  BY HorizonAssumption DEF Age

LEMMA OlderAge ==
  ASSUME NEW a \in Age
  PROVE  Older(a) \in Age /\ Older(a) <= a + 1
  BY HorizonAssumption DEF Age, Older

LEMMA HvKeepsType ==
  ASSUME EmfiTyped, HvTick \/ HvArm \/ HvDisarm \/ UNCHANGED hvVars
  PROVE  hvArmed' \in BOOLEAN /\ hvAge' \in Age
  BY AgeZero DEF EmfiTyped, HvTick, HvArm, HvDisarm, hvVars

\* A teardown leaves nothing of the fire path behind, and the charger disarmed.
LEMMA EmfiTeardownReleases ==
  ASSUME EmfiSound, NEW claimed \in BOOLEAN, emfiClaimed => claimed, EmfiTeardown(claimed)
  PROVE  /\ emfiClaimed' = FALSE
         /\ emfiLoaded' = FALSE
         /\ emfiAttached' = FALSE
         /\ sm0' = "OFF"
         /\ irq0' = FALSE
         /\ hvArmed' = FALSE
         /\ hvAge' = 0
  BY DEF EmfiSound, EmfiTyped, EmfiPathHeld, EmfiTeardown, HvDisarm

\* The engine stays sound wherever a teardown leads.
LEMMA EmfiReleasedSound ==
  ASSUME EmfiSound, NEW claimed \in BOOLEAN, emfiClaimed => claimed, EmfiTeardown(claimed),
         emfiState' \in {"IDLE", "FIRED", "ERROR"}, emfiAge' = 0, UNCHANGED emfiCfg
  PROVE  EmfiSound' /\ sm0' = "OFF" /\ ~emfiLoaded' /\ ~emfiClaimed'
<1>1. /\ emfiClaimed' = FALSE
      /\ emfiLoaded' = FALSE
      /\ emfiAttached' = FALSE
      /\ sm0' = "OFF"
      /\ irq0' = FALSE
      /\ hvArmed' = FALSE
      /\ hvAge' = 0
  BY EmfiTeardownReleases
<1>2. EmfiTyped'
  BY <1>1, AgeZero DEF EmfiSound, EmfiTyped, EmfiStates, Phases
<1>3. EmfiPathHeld'
  BY <1>1 DEF EmfiPathHeld
<1>4. QED
  BY <1>1, <1>2, <1>3 DEF EmfiSound

\* The fire path alone stays as it is.
LEMMA EmfiSamePath ==
  ASSUME EmfiSound, UNCHANGED emfiPath, emfiState' \in EmfiStates,
         emfiState' = "WAITING" => emfiState = "WAITING",
         emfiCfg' \in [trigger : Triggers, chargeTimeout : Nat, ok : BOOLEAN],
         emfiAge' \in Age, hvArmed' \in BOOLEAN, hvAge' \in Age
  PROVE  EmfiSound'
  BY DEF EmfiSound, EmfiTyped, EmfiPathHeld, emfiPath

LEMMA EmfiIdle ==
  ASSUME EmfiSound, UNCHANGED emfiVars, hvArmed' \in BOOLEAN, hvAge' \in Age
  PROVE  EmfiSound'
  BY DEF EmfiSound, EmfiTyped, EmfiPathHeld, emfiVars, emfiCtl, emfiPath

\* What any of the host's commands does to a sound engine: a program is loaded only
\* where it fits, none gets past its trigger by it, and none is reported as fired.
EmfiCommanded(room) ==
  /\ EmfiSound'
  /\ sm0' \in {sm0, "OFF", "WAIT"}
  /\ emfiState' = "FIRED" => emfiState = "FIRED"
  /\ emfiLoaded' => emfiLoaded \/ room
  /\ emfiLoaded' /\ ~emfiLoaded => UNCHANGED emfiCfg

LEMMA EmfiErrorIsCommanded ==
  ASSUME EmfiSound, NEW room \in BOOLEAN, NEW err, NEW claimed \in BOOLEAN, emfiClaimed => claimed,
         EmfiError(err, claimed)
  PROVE  EmfiCommanded(room)
<1>1. EmfiSound' /\ sm0' = "OFF" /\ ~emfiLoaded'
  BY EmfiReleasedSound DEF EmfiError
<1>2. emfiState' = "ERROR"
  BY DEF EmfiError
<1>3. QED
  BY <1>1, <1>2 DEF EmfiCommanded

LEMMA EmfiIdleIsCommanded ==
  ASSUME EmfiSound, NEW room \in BOOLEAN, UNCHANGED <<emfiVars, hvVars>>
  PROVE  EmfiCommanded(room)
<1>1. EmfiSound'
  BY EmfiIdle, HvKeepsType DEF EmfiSound, hvVars, EmfiTyped
<1>2. QED
  BY <1>1 DEF EmfiCommanded, emfiVars, emfiCtl, emfiPath

LEMMA EmfiFireIsCommanded ==
  ASSUME EmfiSound, NEW t, NEW room \in BOOLEAN, NEW seen \in BOOLEAN, EmfiFire(t, room, seen)
  PROVE  EmfiCommanded(room)
<1> emfiClaimed \in BOOLEAN
  BY DEF EmfiSound, EmfiTyped
<1>1. CASE UNCHANGED <<emfiVars, hvVars>>
  BY <1>1, EmfiIdleIsCommanded
<1>2. CASE EmfiError("HV_NOT_CHARGED", emfiClaimed)
  BY <1>2, EmfiErrorIsCommanded
<1>3. CASE EmfiError("PIO_FAULT", TRUE)
  BY <1>3, EmfiErrorIsCommanded
<1>4. CASE /\ room
           /\ EmfiStartPath
           /\ emfiState' = "WAITING"
           /\ emfiAge' = 0
           /\ emfiTimeout' = t
           /\ UNCHANGED <<emfiErr, emfiCfg, emfiCfgValid, hvVars>>
  <2>1. EmfiTyped'
    BY <1>4, AgeZero DEF EmfiSound, EmfiTyped, EmfiStartPath, EmfiStates, Phases, hvVars
  <2>2. EmfiPathHeld'
    BY <1>4 DEF EmfiPathHeld, EmfiStartPath
  <2>3. QED
    BY <1>4, <2>1, <2>2 DEF EmfiSound, EmfiCommanded, EmfiStartPath
<1>5. QED
  BY <1>1, <1>2, <1>3, <1>4 DEF EmfiFire

LEMMA EmfiHostIsCommanded ==
  ASSUME EmfiSound, NEW room \in BOOLEAN, NEW seen \in BOOLEAN,
         \/ \E c \in EmfiConfigs : EmfiConfigure(c)
         \/ EmfiArm
         \/ \E t \in FireTimeouts : EmfiFire(t, room, seen)
         \/ EmfiDisarm
  PROVE  EmfiCommanded(room)
<1> emfiClaimed \in BOOLEAN
  BY DEF EmfiSound, EmfiTyped
<1>1. ASSUME NEW c \in EmfiConfigs, EmfiConfigure(c)
      PROVE  EmfiCommanded(room)
  <2>1. CASE c.ok
    <3>1. c \in [trigger : Triggers, chargeTimeout : Nat, ok : BOOLEAN]
      BY EmfiAssumption
    <3>2. EmfiSound'
      BY <1>1, <2>1, <3>1, EmfiSamePath, AgeZero, HvKeepsType
         DEF EmfiConfigure, EmfiStates, EmfiSound, hvVars, EmfiTyped
    <3>3. QED
      BY <1>1, <2>1, <3>2 DEF EmfiConfigure, EmfiCommanded, emfiPath
  <2>2. CASE ~c.ok
    BY <1>1, <2>2, EmfiIdleIsCommanded DEF EmfiConfigure
  <2>3. QED
    BY <2>1, <2>2
<1>2. CASE EmfiArm
  <2>1. CASE EmfiError("BAD_CONFIG", emfiClaimed)
    BY <2>1, EmfiErrorIsCommanded
  <2>2. CASE UNCHANGED <<emfiVars, hvVars>>
    BY <2>2, EmfiIdleIsCommanded
  <2>3. CASE /\ HvArm
             /\ emfiState' = "ARMING"
             /\ emfiErr' = "NONE"
             /\ emfiAge' = 0
             /\ UNCHANGED <<emfiCfg, emfiCfgValid, emfiTimeout, emfiPath>>
    <3>1. EmfiSound'
      BY <2>3, EmfiSamePath, AgeZero, HvKeepsType DEF EmfiStates, EmfiSound, EmfiTyped
    <3>2. QED
      BY <2>3, <3>1 DEF EmfiCommanded, emfiPath
  <2>4. QED
    BY <1>2, <2>1, <2>2, <2>3 DEF EmfiArm
<1>3. ASSUME NEW t \in FireTimeouts, EmfiFire(t, room, seen)
      PROVE  EmfiCommanded(room)
  BY <1>3, EmfiFireIsCommanded
<1>4. CASE EmfiDisarm
  <2>1. EmfiSound' /\ sm0' = "OFF" /\ ~emfiLoaded'
    BY <1>4, EmfiReleasedSound DEF EmfiDisarm
  <2>2. QED
    BY <1>4, <2>1 DEF EmfiCommanded, EmfiDisarm
<1>5. QED
  BY <1>1, <1>2, <1>3, <1>4

\* What a poll of the engine does: it loads nothing, ends a fire only by reporting
\* it, and leads to the state the executor's branches are chosen by.
EmfiPolled ==
  /\ EmfiSound'
  /\ sm0' \in {sm0, "OFF"}
  /\ ~emfiLoaded => ~emfiLoaded'
  /\ UNCHANGED emfiCfg
  /\ emfiState' = EmfiAfterTick
  /\ emfiState' \notin {"FIRED", "ERROR"} => UNCHANGED emfiPath

LEMMA EmfiTickIsPolled ==
  ASSUME EmfiSound, capCharged \in BOOLEAN, EmfiTick(capCharged)
  PROVE  EmfiPolled
<1> emfiClaimed \in BOOLEAN /\ emfiState \in EmfiStates /\ hvArmed \in BOOLEAN
  BY DEF EmfiSound, EmfiTyped
<1> DEFINE Released(state) ==
      EmfiTeardown(emfiClaimed) /\ emfiState' = state /\ emfiAge' = 0 /\ UNCHANGED emfiCfg
<1>1. ASSUME HvTick, UNCHANGED emfiVars, EmfiAfterTick = emfiState
      PROVE  EmfiPolled
  <2>1. EmfiSound'
    BY <1>1, EmfiIdle, HvKeepsType DEF EmfiSound
  <2>2. QED
    BY <1>1, <2>1 DEF EmfiPolled, emfiVars, emfiCtl, emfiPath
<1>2. ASSUME Released("FIRED") \/ Released("ERROR"), EmfiAfterTick = emfiState'
      PROVE  EmfiPolled
  <2>1. EmfiSound' /\ sm0' = "OFF" /\ ~emfiLoaded'
    BY <1>2, EmfiReleasedSound
  <2>2. QED
    BY <1>2, <2>1 DEF EmfiPolled
<1>3. CASE EmfiTickArming(capCharged)
  <2>1. CASE /\ capCharged
             /\ emfiState' = "CHARGED"
             /\ emfiAge' = 0
             /\ HvTick
             /\ UNCHANGED <<emfiErr, emfiCfg, emfiCfgValid, emfiTimeout, emfiPath>>
    <3>1. EmfiSound'
      BY <2>1, EmfiSamePath, AgeZero, HvKeepsType DEF EmfiStates, EmfiSound, EmfiTyped
    <3>2. QED
      BY <1>3, <2>1, <3>1 DEF EmfiPolled, EmfiTickArming, EmfiAfterTick, emfiPath
  <2>2. CASE ~capCharged /\ EmfiChargeTimedOut /\ EmfiError("HV_NOT_CHARGED", emfiClaimed)
    BY <1>2, <1>3, <2>2 DEF EmfiTickArming, EmfiAfterTick, EmfiError
  <2>3. CASE ~capCharged /\ ~EmfiChargeTimedOut /\ HvTick /\ UNCHANGED emfiVars
    BY <1>1, <1>3, <2>3 DEF EmfiTickArming, EmfiAfterTick
  <2>4. QED
    BY <1>3, <2>1, <2>2, <2>3 DEF EmfiTickArming
<1>4. CASE EmfiTickCharged(capCharged)
  <2>1. EmfiSound'
    BY <1>4, EmfiSamePath, AgeZero, HvKeepsType DEF EmfiTickCharged, EmfiSound, EmfiTyped
  <2>2. QED
    BY <1>4, <2>1 DEF EmfiPolled, EmfiTickCharged, EmfiAfterTick, emfiPath
<1>5. CASE EmfiTickWaiting
  <2>1. CASE /\ EmfiDone
             /\ EmfiTeardown(emfiClaimed)
             /\ emfiState' = "FIRED"
             /\ emfiAge' = 0
             /\ UNCHANGED <<emfiErr, emfiCfg, emfiCfgValid, emfiTimeout>>
    BY <1>2, <1>5, <2>1 DEF EmfiTickWaiting, EmfiAfterTick
  <2>2. CASE ~EmfiDone /\ EmfiTriggerTimedOut /\ EmfiError("TRIGGER_TIMEOUT", emfiClaimed)
    BY <1>2, <1>5, <2>2 DEF EmfiTickWaiting, EmfiAfterTick, EmfiError
  <2>3. CASE ~EmfiDone /\ ~EmfiTriggerTimedOut /\ HvTick /\ UNCHANGED emfiVars
    BY <1>1, <1>5, <2>3 DEF EmfiTickWaiting, EmfiAfterTick
  <2>4. QED
    BY <1>5, <2>1, <2>2, <2>3 DEF EmfiTickWaiting
<1>6. CASE emfiState \notin EmfiTimed /\ HvTick /\ UNCHANGED emfiVars
  BY <1>1, <1>6 DEF EmfiTimed, EmfiAfterTick
<1>7. QED
  BY <1>3, <1>4, <1>5, <1>6 DEF EmfiTick

LEMMA EmfiPioKeepsSound ==
  ASSUME EmfiSound, EmfiPioStep
  PROVE  /\ EmfiSound'
         /\ UNCHANGED <<emfiState, emfiAge, emfiCfg, emfiClaimed, emfiLoaded, hvVars>>
         /\ sm0' \in NextPhase(sm0)
<1>1. PICK p \in NextPhase(sm0) :
        /\ sm0' = p
        /\ gp14Latch' = (p = "HIGH")
        /\ irq0' = (irq0 \/ p = "DONE")
        /\ UNCHANGED <<emfiCtl, emfiClaimed, emfiLoaded, emfiAttached, gp14Fn, capturing, hvVars>>
  BY DEF EmfiPioStep
<1>2. sm0 \in {"WAIT", "HIGH", "GAP"} /\ p \in {"HIGH", "GAP", "DONE"}
  BY <1>1 DEF NextPhase
<1>3. irq0' = (sm0' = "DONE") /\ irq0' \in BOOLEAN
  BY <1>1, <1>2 DEF EmfiSound, EmfiPathHeld
<1>4. EmfiTyped'
  BY <1>1, <1>2, <1>3 DEF EmfiSound, EmfiTyped, Phases, emfiCtl, hvVars
<1>5. EmfiPathHeld'
  BY <1>1, <1>2, <1>3 DEF EmfiSound, EmfiPathHeld, emfiCtl
<1>6. QED
  BY <1>1, <1>4, <1>5 DEF EmfiSound, emfiCtl

LEMMA EmfiElapseKeepsSound ==
  ASSUME EmfiSound, EmfiElapse, HvElapse
  PROVE  EmfiSound'
<1>1. emfiAge' \in Age /\ hvAge' \in Age /\ hvArmed' \in BOOLEAN
  BY OlderAge DEF EmfiSound, EmfiTyped, EmfiElapse, HvElapse
<1>2. QED
  BY <1>1, EmfiSamePath DEF EmfiSound, EmfiTyped, EmfiElapse

LEMMA EmfiRearmKeepsSound ==
  ASSUME EmfiSound, EmfiRearm
  PROVE  EmfiSound' /\ UNCHANGED emfiPath
<1>1. [trigger |-> emfiCfg.trigger, chargeTimeout |-> ChargeWait, ok |-> TRUE]
        \in [trigger : Triggers, chargeTimeout : Nat, ok : BOOLEAN]
  BY FirmwareAssumption DEF EmfiSound, EmfiTyped
<1>2. QED
  BY <1>1, EmfiSamePath, AgeZero, HvKeepsType DEF EmfiRearm, EmfiStates, EmfiSound, EmfiTyped

-----------------------------------------------------------------------------
(* The crowbar engine.                                                      *)

CbSound == CbTyped /\ CbPathHeld

LEMMA CbReleasedSound ==
  ASSUME CbSound, NEW claimed \in BOOLEAN, cbClaimed => claimed, CbTeardown(claimed),
         cbState' \in {"IDLE", "FIRED", "ERROR"}, UNCHANGED cbCfg
  PROVE  CbSound' /\ sm1' = "OFF" /\ ~cbLoaded' /\ ~cbClaimed'
<1>1. /\ cbClaimed' = FALSE
      /\ cbLoaded' = FALSE
      /\ sm1' = "OFF"
      /\ irq1' = FALSE
  BY DEF CbSound, CbTyped, CbPathHeld, CbTeardown
<1>2. CbTyped'
  BY <1>1 DEF CbSound, CbTyped, CbStates, Phases
<1>3. CbPathHeld'
  BY <1>1 DEF CbPathHeld
<1>4. QED
  BY <1>1, <1>2, <1>3 DEF CbSound

LEMMA CbSamePath ==
  ASSUME CbSound, UNCHANGED cbPath, cbState' \in CbStates,
         cbState' = "WAITING" => cbState = "WAITING", cbCfg'.trigger \in Triggers
  PROVE  CbSound'
  BY DEF CbSound, CbTyped, CbPathHeld, cbPath

LEMMA CbIdle ==
  ASSUME CbSound, UNCHANGED cbVars
  PROVE  CbSound'
  BY DEF CbSound, CbTyped, CbPathHeld, cbVars, cbCtl, cbPath

CbCommanded(room) ==
  /\ CbSound'
  /\ sm1' \in {sm1, "OFF", "WAIT"}
  /\ cbState' = "FIRED" => cbState = "FIRED"
  /\ cbLoaded' => cbLoaded \/ room
  /\ cbLoaded' /\ ~cbLoaded => UNCHANGED cbCfg

LEMMA CbErrorIsCommanded ==
  ASSUME CbSound, NEW room \in BOOLEAN, NEW err, NEW claimed \in BOOLEAN, cbClaimed => claimed,
         CbError(err, claimed)
  PROVE  CbCommanded(room)
<1>1. CbSound' /\ sm1' = "OFF" /\ ~cbLoaded'
  BY CbReleasedSound DEF CbError
<1>2. cbState' = "ERROR"
  BY DEF CbError
<1>3. QED
  BY <1>1, <1>2 DEF CbCommanded

LEMMA CbIdleIsCommanded ==
  ASSUME CbSound, NEW room \in BOOLEAN, UNCHANGED cbVars
  PROVE  CbCommanded(room)
<1>1. CbSound'
  BY CbIdle
<1>2. QED
  BY <1>1 DEF CbCommanded, cbVars, cbCtl, cbPath

LEMMA CbFireIsCommanded ==
  ASSUME CbSound, NEW t, NEW room \in BOOLEAN, CbFire(t, room)
  PROVE  CbCommanded(room)
<1>1. CASE UNCHANGED cbVars
  BY <1>1, CbIdleIsCommanded
<1>2. CASE CbError("PIO_FAULT", TRUE)
  BY <1>2, CbErrorIsCommanded
<1>3. CASE /\ room
           /\ CbStartPath
           /\ cbState' = "WAITING"
           /\ UNCHANGED <<cbCfg, cbCfgValid>>
  <2>1. CbTyped'
    BY <1>3 DEF CbSound, CbTyped, CbStartPath, CbStates, Phases
  <2>2. CbPathHeld'
    BY <1>3 DEF CbPathHeld, CbStartPath
  <2>3. QED
    BY <1>3, <2>1, <2>2 DEF CbSound, CbCommanded, CbStartPath
<1>4. QED
  BY <1>1, <1>2, <1>3 DEF CbFire

LEMMA CbHostIsCommanded ==
  ASSUME CbSound, NEW room \in BOOLEAN,
         \/ \E c \in CbConfigs : CbConfigure(c)
         \/ CbArm
         \/ \E t \in FireTimeouts : CbFire(t, room)
         \/ CbDisarm
  PROVE  CbCommanded(room)
<1> cbClaimed \in BOOLEAN
  BY DEF CbSound, CbTyped
<1>1. ASSUME NEW c \in CbConfigs, CbConfigure(c)
      PROVE  CbCommanded(room)
  <2>1. CASE c.ok
    <3>1. c.trigger \in Triggers
      BY CbAssumption
    <3>2. CbSound'
      BY <1>1, <2>1, <3>1, CbSamePath DEF CbConfigure, CbStates
    <3>3. QED
      BY <1>1, <2>1, <3>2 DEF CbConfigure, CbCommanded, cbPath
  <2>2. CASE ~c.ok
    BY <1>1, <2>2, CbIdleIsCommanded DEF CbConfigure
  <2>3. QED
    BY <2>1, <2>2
<1>2. CASE CbArm
  <2>1. CASE CbError("BAD_CONFIG", cbClaimed)
    BY <2>1, CbErrorIsCommanded
  <2>2. CASE UNCHANGED cbVars
    BY <2>2, CbIdleIsCommanded
  <2>3. CASE /\ cbState' = "ARMED"
             /\ cbErr' = "NONE"
             /\ UNCHANGED <<cbCfg, cbCfgValid, cbAge, cbTimeout, cbPath>>
    <3>1. CbSound'
      BY <2>3, CbSamePath DEF CbStates, CbSound, CbTyped
    <3>2. QED
      BY <2>3, <3>1 DEF CbCommanded, cbPath
  <2>4. QED
    BY <1>2, <2>1, <2>2, <2>3 DEF CbArm
<1>3. ASSUME NEW t \in FireTimeouts, CbFire(t, room)
      PROVE  CbCommanded(room)
  BY <1>3, CbFireIsCommanded
<1>4. CASE CbDisarm
  <2>1. CbSound' /\ sm1' = "OFF" /\ ~cbLoaded'
    BY <1>4, CbReleasedSound DEF CbDisarm
  <2>2. QED
    BY <1>4, <2>1 DEF CbCommanded, CbDisarm
<1>5. QED
  BY <1>1, <1>2, <1>3, <1>4

CbPolled ==
  /\ CbSound'
  /\ sm1' \in {sm1, "OFF"}
  /\ ~cbLoaded => ~cbLoaded'
  /\ UNCHANGED cbCfg
  /\ cbState' = CbAfterTick
  /\ cbState' \notin {"FIRED", "ERROR"} => UNCHANGED cbPath

LEMMA CbTickIsPolled ==
  ASSUME CbSound, CbTick
  PROVE  CbPolled
<1> cbClaimed \in BOOLEAN /\ cbState \in CbStates
  BY DEF CbSound, CbTyped
<1>1. CASE UNCHANGED cbVars /\ CbAfterTick = cbState
  <2>1. CbSound'
    BY <1>1, CbIdle
  <2>2. QED
    BY <1>1, <2>1 DEF CbPolled, cbVars, cbCtl, cbPath
<1>2. ASSUME CbTeardown(cbClaimed), cbState' \in {"FIRED", "ERROR"}, UNCHANGED cbCfg,
             CbAfterTick = cbState'
      PROVE  CbPolled
  <2>1. CbSound' /\ sm1' = "OFF" /\ ~cbLoaded'
    BY <1>2, CbReleasedSound
  <2>2. QED
    BY <1>2, <2>1 DEF CbPolled
<1>3. CASE cbState # "WAITING" /\ UNCHANGED cbVars
  BY <1>1, <1>3 DEF CbAfterTick
<1>4. CASE cbState = "WAITING" /\ CbDone /\ CbFired /\ CbTeardown(cbClaimed)
  BY <1>2, <1>4 DEF CbAfterTick, CbFired
<1>5. CASE cbState = "WAITING" /\ ~CbDone /\ CbTimedOut /\ CbError("TRIGGER_TIMEOUT", cbClaimed)
  BY <1>2, <1>5 DEF CbAfterTick, CbError
<1>6. CASE cbState = "WAITING" /\ ~CbDone /\ ~CbTimedOut /\ UNCHANGED cbVars
  BY <1>1, <1>6 DEF CbAfterTick
<1>7. QED
  BY <1>3, <1>4, <1>5, <1>6 DEF CbTick

LEMMA CbPioKeepsSound ==
  ASSUME CbSound, CbPioStep
  PROVE  /\ CbSound'
         /\ UNCHANGED <<cbState, cbCfg, cbClaimed, cbLoaded>>
         /\ sm1' \in NextPhase(sm1)
<1>1. PICK p \in NextPhase(sm1) :
        /\ sm1' = p
        /\ irq1' = (irq1 \/ p = "DONE")
        /\ UNCHANGED <<cbCtl, cbClaimed, cbLoaded, cbOut, gateFn>>
  BY DEF CbPioStep
<1>2. sm1 \in {"WAIT", "HIGH", "GAP"} /\ p \in {"HIGH", "GAP", "DONE"}
  BY <1>1 DEF NextPhase
<1>3. irq1' = (sm1' = "DONE") /\ irq1' \in BOOLEAN
  BY <1>1, <1>2 DEF CbSound, CbPathHeld
<1>4. CbTyped'
  BY <1>1, <1>2, <1>3 DEF CbSound, CbTyped, Phases, cbCtl
<1>5. CbPathHeld'
  BY <1>1, <1>2, <1>3 DEF CbSound, CbPathHeld, cbCtl
<1>6. QED
  BY <1>1, <1>4, <1>5 DEF CbSound, cbCtl

LEMMA CbRearmKeepsSound ==
  ASSUME CbSound, CbRearm
  PROVE  CbSound' /\ UNCHANGED cbPath
  BY CbSamePath DEF CbRearm, CbStates, CbSound, CbTyped

LEMMA CbElapseKeepsSound ==
  ASSUME CbSound, CbElapse
  PROVE  CbSound'
  BY CbSamePath DEF CbSound, CbTyped, CbElapse

-----------------------------------------------------------------------------
(* pio0's memory.                                                           *)

LEMMA Lengths ==
  ASSUME NEW t \in Triggers, NEW withPindir \in BOOLEAN
  PROVE  ProgramLength(t, withPindir) \in 13 .. 17
  BY DEF Triggers, ProgramLength, TriggerLength

NatLess == OpToRel(<, Nat)

\* The SDK's search ends at the highest of the offsets that fit.
LEMMA PlacedFits ==
  ASSUME NEW n \in 1 .. MemorySize, NEW p, Fitting(n, p) # {}
  PROVE  /\ Placed(n, p).length = n
         /\ Placed(n, p).at \in Fitting(n, p)
<1> DEFINE fit == Fitting(n, p)
           mirror == {MemorySize - i : i \in fit}
<1>1. fit \subseteq 0 .. MemorySize - n
  BY DEF Fitting
<1>2. mirror \subseteq Nat /\ mirror # {}
  BY <1>1 DEF MemorySize
<1>3. IsWellFoundedOn(NatLess, Nat)
  BY NatLessThanWellFounded DEF NatLess
<1>4. PICK m \in mirror : \A k \in mirror : ~(<<k, m>> \in NatLess)
  <2> HIDE DEF mirror
  <2>1. QED
    BY <1>2, <1>3, WFMin
<1>5. PICK i \in fit : m = MemorySize - i
  BY <1>4
<1>6. \A j \in fit : j <= i
  <2> SUFFICES ASSUME NEW j \in fit
               PROVE  j <= i
    OBVIOUS
  <2>1. MemorySize - j \in mirror
    OBVIOUS
  <2>2. ~(<<MemorySize - j, m>> \in NatLess)
    BY <1>4, <2>1
  <2>3. MemorySize - j \in Nat /\ m \in Nat
    BY <1>2, <1>4, <2>1
  <2>4. ~(MemorySize - j < m)
    BY <2>2, <2>3 DEF NatLess, OpToRel
  <2>5. i \in Int /\ j \in Int
    BY <1>1
  <2>6. QED
    BY <1>5, <2>4, <2>5 DEF MemorySize
<1>7. QED
  BY <1>6 DEF Placed

\* A program that is placed beside another stays inside the memory and off it.
LEMMA PlacedIsApart ==
  ASSUME NEW n \in 1 .. MemorySize, NEW p, Fitting(n, p) # {}
  PROVE  /\ Slots(Placed(n, p)) \subseteq 0 .. MemorySize - 1
         /\ Slots(Placed(n, p)) \cap Slots(p) = {}
<1> DEFINE q == Placed(n, p)
<1>1. q.length = n /\ q.at \in Fitting(n, p)
  BY PlacedFits
<1>2. q.at \in 0 .. MemorySize - n /\ (q.at .. q.at + n - 1) \cap Slots(p) = {}
  BY <1>1 DEF Fitting
<1>3. q.at .. q.at + n - 1 \subseteq 0 .. MemorySize - 1
  BY <1>2 DEF MemorySize
<1>4. QED
  BY <1>1, <1>2, <1>3 DEF Slots

LEMMA NoProgramIsNowhere == Slots(NoProgram) = {}
  BY DEF Slots, NoProgram

\* A program appears only where it fits, and the two never at once.
LoadsFit ==
  /\ emfiLoaded' /\ ~emfiLoaded => EmfiRoom
  /\ cbLoaded' /\ ~cbLoaded => CbRoom
  /\ ~(emfiLoaded' /\ ~emfiLoaded /\ cbLoaded' /\ ~cbLoaded)

LEMMA MemoryKeepsApart ==
  ASSUME EmfiTyped, CbTyped, ProgramsApart, LoadsFit, Memory,
         emfiLoaded' \in BOOLEAN, cbLoaded' \in BOOLEAN
  PROVE  ProgramsApart'
<1>1. EmfiLength \in 1 .. MemorySize /\ CbLength \in 1 .. MemorySize
  <2>1. EmfiLength \in 13 .. 17
    BY Lengths DEF EmfiTyped, EmfiLength
  <2>2. CbLength \in 13 .. 17
    BY Lengths DEF CbTyped, CbLength
  <2>3. QED
    BY <2>1, <2>2 DEF MemorySize
<1>2. ASSUME emfiLoaded', ~emfiLoaded
      PROVE  /\ Slots(emfiProg') \subseteq 0 .. MemorySize - 1
             /\ Slots(emfiProg') \cap Slots(cbProg) = {}
             /\ cbProg' \in {cbProg, NoProgram}
  <2>1. emfiProg' = Placed(EmfiLength, cbProg)
    BY <1>2 DEF Memory
  <2>2. Fitting(EmfiLength, cbProg) # {}
    BY <1>2 DEF LoadsFit, EmfiRoom
  <2>3. cbProg' \in {cbProg, NoProgram}
    BY <1>2 DEF Memory, LoadsFit, CbTyped
  <2>4. QED
    BY <1>1, <2>1, <2>2, <2>3, PlacedIsApart
<1>3. ASSUME cbLoaded', ~cbLoaded
      PROVE  /\ Slots(cbProg') \subseteq 0 .. MemorySize - 1
             /\ Slots(cbProg') \cap Slots(emfiProg) = {}
             /\ emfiProg' \in {emfiProg, NoProgram}
  <2>1. cbProg' = Placed(CbLength, emfiProg)
    BY <1>3 DEF Memory
  <2>2. Fitting(CbLength, emfiProg) # {}
    BY <1>3 DEF LoadsFit, CbRoom
  <2>3. emfiProg' \in {emfiProg, NoProgram}
    BY <1>3 DEF Memory, LoadsFit, EmfiTyped
  <2>4. QED
    BY <1>1, <2>1, <2>2, <2>3, PlacedIsApart
<1>4. ASSUME ~(emfiLoaded' /\ ~emfiLoaded), ~(cbLoaded' /\ ~cbLoaded)
      PROVE  emfiProg' \in {emfiProg, NoProgram} /\ cbProg' \in {cbProg, NoProgram}
  BY <1>4 DEF Memory, EmfiTyped, CbTyped
<1>5. QED
  BY <1>2, <1>3, <1>4, NoProgramIsNowhere DEF ProgramsApart

-----------------------------------------------------------------------------
(* The initial states.                                                      *)

THEOREM InitIInv == Init => IInv
<1> SUFFICES ASSUME Init
             PROVE  IInv
  OBVIOUS
<1> USE DEF Init
<1>1. ExecTyped /\ ExecAgrees
  <2>1. cmCfg.engine = "EMFI"
    BY DEF CmInit, ZeroConfig
  <2>2. execFire \in FireCodes /\ exec \in ExecStates /\ execAge \in Age
    BY AgeZero DEF FireCodes, ExecStates
  <2>3. inStep \in BOOLEAN /\ pendingStop \in BOOLEAN
    BY DEF CmInit
  <2>4. ExecTyped
    <3>1. execOk \in BOOLEAN /\ capCharged \in BOOLEAN /\ polled \in BOOLEAN /\ touched \in BOOLEAN
      OBVIOUS
    <3>2. bursts \in 0 .. 2
      OBVIOUS
    <3>3. QED
      BY <2>1, <2>2, <2>3, <3>1, <3>2 DEF ExecTyped
  <2>5. ExecAgrees
    BY DEF CmInit, ExecAgrees
  <2>6. QED
    BY <2>4, <2>5
<1>2. EmfiTyped /\ EmfiPathHeld
  BY AgeZero DEF EmfiInit, HvInit, EmfiZeroConfig, EmfiTyped, EmfiPathHeld, EmfiStates, Triggers,
                 Phases
<1>3. CbTyped /\ CbPathHeld
  BY DEF CbInit, CbZeroConfig, CbTyped, CbPathHeld, CbStates, Triggers, Phases
<1>4. EngineAnswers /\ BurstsCounted
  BY DEF EngineAnswers, BurstsCounted
<1>5. ProgramsApart
  BY NoProgramIsNowhere DEF ProgramsApart
<1>6. QED
  BY <1>1, <1>2, <1>3, <1>4, <1>5 DEF IInv

-----------------------------------------------------------------------------
(* The invariant is kept: pio0's memory apart, by one lemma per action.     *)

Kept ==
  /\ ExecTyped'
  /\ ExecAgrees'
  /\ EmfiSound'
  /\ CbSound'
  /\ EngineAnswers'
  /\ BurstsCounted'
  /\ LoadsFit

LEMMA SoundEngines ==
  ASSUME IInv
  PROVE  /\ EmfiSound /\ CbSound
         /\ emfiClaimed \in BOOLEAN /\ cbClaimed \in BOOLEAN
         /\ EmfiRoom \in BOOLEAN /\ CbRoom \in BOOLEAN
         /\ capCharged \in BOOLEAN
  BY DEF IInv, EmfiSound, EmfiTyped, CbSound, CbTyped, EmfiRoom, CbRoom, ExecTyped

LEMMA EmfiUntouched ==
  ASSUME EmfiSound, UNCHANGED <<emfiVars, hvVars>>
  PROVE  EmfiSound'
  BY EmfiIdle, HvKeepsType DEF EmfiSound, hvVars, EmfiTyped

\* The manager's entry points leave a step in progress alone; a STOP is noted in one.
LEMMA CmHostLeavesStep ==
  ASSUME IInv, CmHost
  PROVE  /\ inStep' = inStep
         /\ pendingStop' \in BOOLEAN
         /\ pendingStop' => inStep
         /\ inStep => UNCHANGED <<cmState, cmCfg>>
         /\ cmCfg'.engine \in {"EMFI", "CROWBAR"}
<1> USE DEF IInv, ExecTyped, ExecAgrees, cmVars, sweepVars, ringVars, Busy
<1>1. ASSUME NEW c \in Configs, CmConfigure(c)
      PROVE  /\ UNCHANGED <<inStep, pendingStop>>
             /\ inStep => UNCHANGED <<cmState, cmCfg>>
             /\ cmCfg'.engine \in {"EMFI", "CROWBAR"}
  <2>1. c.engine \in {"EMFI", "CROWBAR"}
    BY CampaignAssumption
  <2>2. QED
    BY <1>1, <2>1 DEF CmConfigure
<1>2. ASSUME CmStart
      PROVE  /\ UNCHANGED <<inStep, pendingStop, cmCfg>>
             /\ inStep => UNCHANGED cmState
  BY <1>2 DEF CmStart, Startable
<1>3. ASSUME CmStop
      PROVE  /\ UNCHANGED <<inStep, cmCfg>>
             /\ pendingStop' = (pendingStop \/ inStep)
             /\ inStep => UNCHANGED cmState
  BY <1>3 DEF CmStop
<1>4. ASSUME NEW n \in DrainSizes, CmDrain(n)
      PROVE  UNCHANGED <<inStep, pendingStop, cmCfg, cmState>>
  BY <1>4 DEF CmDrain
<1>5. QED
  BY <1>1, <1>2, <1>3, <1>4 DEF CmHost

\* The stop hook disarms one engine or does nothing.
LEMMA StopHookIsCommanded ==
  ASSUME IInv, NEW room \in BOOLEAN, StopHook
  PROVE  /\ EmfiCommanded(room)
         /\ CbCommanded(room)
<1>1. ASSUME UNCHANGED <<emfiVars, hvVars>>
      PROVE  EmfiCommanded(room)
  BY <1>1, SoundEngines, EmfiIdleIsCommanded
<1>2. ASSUME EmfiDisarm
      PROVE  EmfiCommanded(room)
  <2>1. EmfiSound' /\ sm0' = "OFF" /\ ~emfiLoaded'
    BY <1>2, EmfiReleasedSound, SoundEngines DEF EmfiDisarm
  <2>2. QED
    BY <1>2, <2>1 DEF EmfiCommanded, EmfiDisarm
<1>3. ASSUME UNCHANGED cbVars
      PROVE  CbCommanded(room)
  BY <1>3, SoundEngines, CbIdleIsCommanded
<1>4. ASSUME CbDisarm
      PROVE  CbCommanded(room)
  <2>1. CbSound' /\ sm1' = "OFF" /\ ~cbLoaded'
    BY <1>4, CbReleasedSound, SoundEngines DEF CbDisarm
  <2>2. QED
    BY <1>4, <2>1 DEF CbCommanded, CbDisarm
<1>5. UNCHANGED <<emfiVars, hvVars>> \/ EmfiDisarm
  BY DEF StopHook, engines
<1>6. UNCHANGED cbVars \/ CbDisarm
  BY DEF StopHook, engines
<1>7. EmfiCommanded(room)
  BY <1>1, <1>2, <1>5
<1>8. CbCommanded(room)
  BY <1>3, <1>4, <1>6
<1>9. QED
  BY <1>7, <1>8

LEMMA HostCampaignKeeps ==
  ASSUME IInv, HostCampaign
  PROVE  Kept
<1>1. CmHost /\ UNCHANGED <<execVars, world, ghosts>>
  BY DEF HostCampaign, CmHost
<1>2. /\ inStep' = inStep
      /\ pendingStop' \in BOOLEAN
      /\ pendingStop' => inStep
      /\ inStep => UNCHANGED <<cmState, cmCfg>>
      /\ cmCfg'.engine \in {"EMFI", "CROWBAR"}
  BY <1>1, CmHostLeavesStep
<1>3. ExecTyped'
  BY <1>1, <1>2 DEF IInv, ExecTyped, execVars, world, ghosts
<1>4. ExecAgrees'
  BY <1>1, <1>2 DEF IInv, ExecTyped, ExecAgrees, execVars, ghosts, HostCampaign, AtYield
<1>5. StopHook \/ UNCHANGED engines
  BY DEF HostCampaign
<1>6. UNCHANGED engines => StopHook \/ UNCHANGED <<emfiVars, hvVars, cbVars>>
  BY DEF engines
<1>7. EmfiSound' /\ CbSound' /\ LoadsFit
  <2>1. CASE StopHook
    <3>1. EmfiCommanded(FALSE) /\ CbCommanded(FALSE)
      BY <2>1, StopHookIsCommanded
    <3>2. QED
      BY <3>1, SoundEngines DEF EmfiCommanded, CbCommanded, LoadsFit
  <2>2. CASE UNCHANGED engines
    BY <2>2, SoundEngines, EmfiUntouched, CbIdle
       DEF engines, LoadsFit, emfiVars, emfiPath, cbVars, cbPath
  <2>3. QED
    BY <1>5, <2>1, <2>2
<1>8. CASE ~inStep
  <2>1. exec' = "NONE"
    BY <1>1, <1>8 DEF IInv, ExecAgrees, execVars
  <2>2. QED
    BY <1>3, <1>4, <1>7, <2>1 DEF Kept, EngineAnswers, BurstsCounted
<1>9. CASE inStep
  <2>1. UNCHANGED engines
    BY <1>2, <1>5, <1>9 DEF StopHook, CmStopSettles
  <2>2. UNCHANGED <<exec, execAge, touched, bursts, cmCfg>>
    BY <1>1, <1>2, <1>9 DEF execVars, ghosts
  <2>3. UNCHANGED <<emfiState, emfiCfg, emfiAge, emfiClaimed, sm0, cbState, cbClaimed, sm1>>
    BY <2>1 DEF engines, emfiVars, emfiCtl, emfiPath, cbVars, cbCtl, cbPath
  <2>4. EngineAnswers' /\ BurstsCounted'
    BY <2>2, <2>3 DEF IInv, EngineAnswers, BurstsCounted
  <2>5. QED
    BY <1>3, <1>4, <1>7, <2>4 DEF Kept
<1>10. QED
  BY <1>2, <1>8, <1>9 DEF IInv, ExecTyped

LEMMA HostEmfiKeeps ==
  ASSUME IInv, HostEmfi
  PROVE  Kept
<1>1. EmfiCommanded(EmfiRoom)
  BY EmfiHostIsCommanded, SoundEngines DEF HostEmfi
<1>2. /\ touched' = (touched \/ (inStep /\ cmCfg.engine = "EMFI"))
      /\ UNCHANGED <<cmVars, cbVars, execVars, world, bursts>>
  BY DEF HostEmfi
<1>3. UNCHANGED <<inStep, pendingStop, cmState, cmCfg>>
  BY <1>2 DEF cmVars, sweepVars
<1>4. CbSound' /\ UNCHANGED <<cbState, cbClaimed, cbLoaded, sm1>>
  BY <1>2, CbIdle, SoundEngines DEF cbVars, cbCtl, cbPath
<1>5. ExecTyped'
  BY <1>2, <1>3 DEF IInv, ExecTyped, execVars, world
<1>6. ExecAgrees'
  BY <1>2, <1>3 DEF IInv, ExecTyped, ExecAgrees, execVars, Reportable
<1>7. LoadsFit
  BY <1>1, <1>4 DEF EmfiCommanded, LoadsFit
<1>8. /\ exec \in {"NONE", "CHARGE", "FIRE", "WAIT"}
      /\ exec \in {"CHARGE", "FIRE"} => touched'
      /\ exec = "WAIT" => touched' = touched
  BY <1>2 DEF HostEmfi, AtYield, IInv, ExecTyped, ExecAgrees
<1>9. EngineAnswers'
  BY <1>1, <1>2, <1>3, <1>4, <1>8 DEF IInv, EngineAnswers, execVars, EmfiCommanded
<1>10. BurstsCounted'
  BY <1>1, <1>2, <1>3, <1>4, <1>8 DEF IInv, BurstsCounted, execVars, EmfiCommanded, Running
<1>11. QED
  BY <1>1, <1>4, <1>5, <1>6, <1>7, <1>9, <1>10 DEF Kept, EmfiCommanded

LEMMA HostCrowbarKeeps ==
  ASSUME IInv, HostCrowbar
  PROVE  Kept
<1>1. CbCommanded(CbRoom)
  BY CbHostIsCommanded, SoundEngines DEF HostCrowbar
<1>2. /\ touched' = (touched \/ (inStep /\ cmCfg.engine = "CROWBAR"))
      /\ UNCHANGED <<cmVars, emfiVars, hvVars, execVars, world, bursts>>
  BY DEF HostCrowbar
<1>3. UNCHANGED <<inStep, pendingStop, cmState, cmCfg>>
  BY <1>2 DEF cmVars, sweepVars
<1>4. EmfiSound' /\ UNCHANGED <<emfiState, emfiCfg, emfiAge, emfiClaimed, emfiLoaded, sm0>>
  BY <1>2, EmfiUntouched, SoundEngines DEF emfiVars, emfiCtl, emfiPath
<1>5. ExecTyped'
  BY <1>2, <1>3 DEF IInv, ExecTyped, execVars, world
<1>6. ExecAgrees'
  BY <1>2, <1>3 DEF IInv, ExecTyped, ExecAgrees, execVars, Reportable
<1>7. LoadsFit
  BY <1>1, <1>4 DEF CbCommanded, LoadsFit
<1>8. /\ exec \in {"NONE", "CHARGE", "FIRE", "WAIT"}
      /\ exec = "WAIT" => touched'
      /\ exec = "CHARGE" => cmCfg.engine = "EMFI"
      /\ exec \in {"CHARGE", "FIRE"} => touched' = touched
  BY <1>2 DEF HostCrowbar, AtYield, IInv, ExecTyped, ExecAgrees
<1>9. EngineAnswers'
  BY <1>1, <1>2, <1>3, <1>4, <1>8 DEF IInv, EngineAnswers, execVars, CbCommanded
<1>10. BurstsCounted'
  BY <1>1, <1>2, <1>3, <1>4, <1>8 DEF IInv, BurstsCounted, execVars, CbCommanded, Running
<1>11. QED
  BY <1>1, <1>4, <1>5, <1>6, <1>7, <1>9, <1>10 DEF Kept, CbCommanded

LEMMA MainPassKeeps ==
  ASSUME IInv, MainPass
  PROVE  Kept
<1>1. EmfiPolled /\ CbPolled
  BY EmfiTickIsPolled, CbTickIsPolled, SoundEngines DEF MainPass
<1>2. /\ exec = "NONE" /\ polled' = TRUE
      /\ UNCHANGED <<execAge, execOk, execFire, capCharged, bursts, touched>>
  BY DEF MainPass, ghosts
<1>3. /\ ~inStep /\ ~pendingStop /\ ~touched /\ bursts = 0
      /\ inStep \in BOOLEAN /\ pendingStop \in BOOLEAN
  BY <1>2 DEF IInv, ExecTyped, ExecAgrees
<1>4. CASE StepDue
  <2>1. CmBeginStep /\ exec' = (IF inStep' THEN "BEGIN" ELSE "NONE")
    BY <1>4 DEF MainPass
  <2>2. /\ inStep' \in BOOLEAN
        /\ inStep' => cmState' = "SWEEPING"
        /\ UNCHANGED <<cmCfg, pendingStop>>
    BY <2>1 DEF CmBeginStep, StepDue
  <2>3. ExecTyped'
    <3>1. exec' \in ExecStates
      BY <2>1 DEF ExecStates
    <3>2. polled' \in BOOLEAN
      BY <1>2
    <3>3. QED
      BY <1>2, <2>2, <3>1, <3>2 DEF IInv, ExecTyped
  <2>4. ExecAgrees'
    BY <1>2, <1>3, <2>1, <2>2 DEF ExecAgrees
  <2>5. EngineAnswers' /\ BurstsCounted'
    BY <1>2, <1>3, <2>1 DEF EngineAnswers, BurstsCounted
  <2>6. QED
    BY <1>1, <2>3, <2>4, <2>5 DEF Kept, EmfiPolled, CbPolled, LoadsFit
<1>5. CASE ~StepDue
  <2>1. UNCHANGED <<exec, inStep, pendingStop, cmState, cmCfg>>
    BY <1>5 DEF MainPass, cmVars, sweepVars
  <2>2. ExecTyped' /\ ExecAgrees'
    BY <1>2, <1>3, <2>1 DEF IInv, ExecTyped, ExecAgrees
  <2>3. EngineAnswers' /\ BurstsCounted'
    BY <1>2, <1>3, <2>1 DEF EngineAnswers, BurstsCounted
  <2>4. QED
    BY <1>1, <2>2, <2>3 DEF Kept, EmfiPolled, CbPolled, LoadsFit
<1>6. QED
  BY <1>4, <1>5

LEMMA ButtonsKeep ==
  ASSUME IInv, Buttons
  PROVE  Kept
<1>1. UNCHANGED emfiVars /\ (HvArm \/ HvDisarm)
  BY DEF Buttons, ButtonArm, ButtonPulse
<1>2. EmfiSound' /\ UNCHANGED emfiLoaded
  BY <1>1, EmfiIdle, HvKeepsType, SoundEngines DEF EmfiSound, emfiVars, emfiPath
<1>3. CbSound' /\ UNCHANGED cbLoaded
  BY CbIdle, SoundEngines DEF Buttons, cbVars, cbPath
<1>4. exec' = "NONE"
  BY DEF Buttons, execVars
<1>5. ExecTyped' /\ ExecAgrees'
  BY DEF IInv, ExecTyped, ExecAgrees, Reportable, Buttons, cmVars, sweepVars, execVars, world,
         ghosts
<1>6. EngineAnswers' /\ BurstsCounted'
  BY <1>4 DEF EngineAnswers, BurstsCounted
<1>7. QED
  BY <1>2, <1>3, <1>5, <1>6 DEF Kept, LoadsFit

LEMMA ExecBeginKeeps ==
  ASSUME IInv, ExecBegin
  PROVE  Kept
<1>1. /\ exec = "BEGIN"
      /\ UNCHANGED <<inStep, pendingStop, cmState, cmCfg, capCharged, polled, bursts, touched>>
  BY DEF ExecBegin, cmVars, sweepVars, world, ghosts
<1>2. inStep /\ cmState = "SWEEPING"
  BY <1>1 DEF IInv, ExecAgrees
<1>3. CASE Report(FALSE, "CONFIGURE_ERR") /\ UNCHANGED engines
  <2>1. EmfiSound' /\ CbSound' /\ LoadsFit
    BY <1>3, SoundEngines, EmfiUntouched, CbIdle
       DEF engines, LoadsFit, emfiVars, emfiPath, cbVars, cbPath
  <2>2. "CONFIGURE_ERR" \in FailCodes
    BY FailCodesAssumption DEF ExecFailures
  <2>3. ExecTyped' /\ ExecAgrees'
    BY <1>1, <1>2, <1>3, <2>2, AgeZero
       DEF IInv, ExecTyped, ExecAgrees, ExecStates, FireCodes, Report, Reportable
  <2>4. EngineAnswers' /\ BurstsCounted'
    BY <1>3 DEF Report, EngineAnswers, BurstsCounted
  <2>5. QED
    BY <2>1, <2>3, <2>4 DEF Kept
<1>4. CASE cmCfg.engine = "EMFI" /\ EmfiRearm /\ Goto("CHARGE") /\ UNCHANGED cbVars
  <2>1. EmfiSound' /\ UNCHANGED emfiPath
    BY <1>4, SoundEngines, EmfiRearmKeepsSound
  <2>2. CbSound' /\ LoadsFit
    BY <1>4, <2>1, SoundEngines, CbIdle DEF LoadsFit, emfiPath, cbVars, cbPath
  <2>3. ExecTyped' /\ ExecAgrees'
    BY <1>1, <1>2, <1>4, AgeZero DEF IInv, ExecTyped, ExecAgrees, ExecStates, Goto
  <2>4. EngineAnswers'
    BY <1>4 DEF EngineAnswers, Goto, EmfiRearm
  <2>5. BurstsCounted'
    BY <1>1, <1>4, <2>1 DEF IInv, BurstsCounted, Goto, emfiPath
  <2>6. QED
    BY <2>1, <2>2, <2>3, <2>4, <2>5 DEF Kept
<1>5. CASE cmCfg.engine = "CROWBAR" /\ CbRearm /\ Goto("FIRE_CALL")
             /\ UNCHANGED <<emfiVars, hvVars>>
  <2>1. CbSound' /\ UNCHANGED cbPath
    BY <1>5, SoundEngines, CbRearmKeepsSound
  <2>2. EmfiSound' /\ LoadsFit
    BY <1>5, <2>1, SoundEngines, EmfiUntouched DEF LoadsFit, emfiVars, emfiPath, cbPath
  <2>3. ExecTyped' /\ ExecAgrees'
    BY <1>1, <1>2, <1>5, AgeZero DEF IInv, ExecTyped, ExecAgrees, ExecStates, Goto
  <2>4. EngineAnswers'
    BY <1>1, <1>5 DEF EngineAnswers, Goto, CbRearm
  <2>5. BurstsCounted'
    BY <1>1, <1>5, <2>1 DEF IInv, BurstsCounted, Goto, cbPath
  <2>6. QED
    BY <2>1, <2>2, <2>3, <2>4, <2>5 DEF Kept
<1>6. QED
  BY <1>3, <1>4, <1>5 DEF ExecBegin

\* What is reported keeps the agreement with the manager, if it may be reported.
LEMMA ReportKeeps ==
  ASSUME IInv, inStep, NEW ok \in BOOLEAN, NEW fire \in FireCodes, Report(ok, fire),
         Reportable(ok, fire), fire = "CHARGE_TIMEOUT" => touched,
         polled' \in BOOLEAN, UNCHANGED <<cmVars, capCharged, ghosts>>,
         EmfiSound', CbSound', LoadsFit
  PROVE  Kept
<1>1. UNCHANGED <<inStep, pendingStop, cmState, cmCfg, touched, bursts>>
  BY DEF cmVars, sweepVars, ghosts
<1>2. ExecTyped'
  BY <1>1, AgeZero DEF IInv, ExecTyped, ExecStates, Report
<1>3. ExecAgrees'
  BY <1>1 DEF IInv, ExecAgrees, Report, Reportable
<1>4. EngineAnswers' /\ BurstsCounted'
  BY DEF EngineAnswers, BurstsCounted, Report
<1>5. QED
  BY <1>2, <1>3, <1>4 DEF Kept

LEMMA Codes ==
  /\ {"CHARGE_TIMEOUT", "FIRE_REJECTED", "ENGINE_STUCK", "ENGINE_ERR"} \subseteq FailCodes
  /\ FailCodes \subseteq FireCodes /\ {"OK", "ABORTED"} \subseteq FireCodes
  BY FailCodesAssumption DEF ExecFailures, FireCodes

LEMMA ExecChargeKeeps ==
  ASSUME IInv, ExecCharge
  PROVE  Kept
<1>1. EmfiPolled
  BY EmfiTickIsPolled, SoundEngines DEF ExecCharge
<1>2. /\ exec = "CHARGE" /\ polled' = TRUE
      /\ UNCHANGED <<cmVars, capCharged, ghosts>>
      /\ UNCHANGED <<inStep, pendingStop, cmState, cmCfg, capCharged, bursts, touched>>
  BY DEF ExecCharge, cmVars, sweepVars, ghosts
<1>3. inStep /\ cmState = "SWEEPING" /\ cmCfg.engine = "EMFI"
  BY <1>2 DEF IInv, ExecAgrees
<1>4. CbSound' /\ EmfiSound' /\ LoadsFit
  BY <1>1, SoundEngines, CbIdle DEF ExecCharge, EmfiPolled, LoadsFit, cbVars, cbPath
<1>5. CASE emfiState' = "CHARGED" /\ Goto("FIRE_CALL")
  <2>1. ExecTyped' /\ ExecAgrees'
    BY <1>2, <1>3, <1>5, AgeZero DEF IInv, ExecTyped, ExecAgrees, ExecStates, Goto
  <2>2. EngineAnswers'
    BY <1>2, <1>3, <1>5 DEF EngineAnswers, Goto
  <2>3. UNCHANGED emfiClaimed
    BY <1>1, <1>5 DEF EmfiPolled, emfiPath
  <2>4. BurstsCounted'
    BY <1>2, <1>3, <1>5, <2>3 DEF IInv, BurstsCounted, Goto
  <2>5. QED
    BY <1>4, <2>1, <2>2, <2>4 DEF Kept
<1>6. CASE emfiState' = "ERROR" /\ Report(FALSE, "ENGINE_ERR")
  BY <1>2, <1>3, <1>4, <1>6, ReportKeeps, Codes DEF Reportable
<1>7. CASE /\ emfiState' \notin {"CHARGED", "ERROR"}
           /\ Overdue(ChargeWait + ChargeSlack)
           /\ Report(FALSE, "CHARGE_TIMEOUT")
  <2>1. ASSUME ~touched
        PROVE  FALSE
    <3>1. emfiState = "ARMING" /\ emfiCfg.chargeTimeout = ChargeWait /\ emfiAge = execAge
      BY <1>2, <2>1 DEF IInv, EngineAnswers
    <3>2. ~capCharged /\ ~EmfiChargeTimedOut
      BY <1>1, <1>7, <3>1 DEF EmfiPolled, EmfiAfterTick
    <3>3. emfiAge <= ChargeWait
      BY <3>1, <3>2, FirmwareAssumption DEF EmfiChargeTimedOut, IInv, EmfiTyped, Age
    <3>4. emfiAge >= ChargeWait + ChargeSlack
      BY <1>7, <3>1 DEF Overdue
    <3>5. QED
      BY <3>3, <3>4, FirmwareAssumption DEF IInv, EmfiTyped, Age
  <2>2. touched
    BY <2>1
  <2>3. QED
    BY <1>2, <1>3, <1>4, <1>7, <2>2, ReportKeeps, Codes DEF Reportable
<1>8. CASE emfiState' \notin {"CHARGED", "ERROR"} /\ UNCHANGED execVars
  <2>1. ExecTyped' /\ ExecAgrees'
    BY <1>2, <1>3, <1>8 DEF IInv, ExecTyped, ExecAgrees, execVars
  <2>2. ASSUME ~touched
        PROVE  emfiState' = "ARMING" /\ UNCHANGED <<emfiCfg, emfiAge>>
    <3>1. emfiState = "ARMING"
      BY <1>2, <2>2 DEF IInv, EngineAnswers
    <3>2. EmfiTickArming(capCharged)
      BY <3>1 DEF ExecCharge, EmfiTick, EmfiTickCharged, EmfiTickWaiting, EmfiTimed
    <3>3. QED
      BY <1>8, <3>1, <3>2 DEF EmfiTickArming, EmfiError, emfiVars, emfiCtl
  <2>3. EngineAnswers'
    BY <1>2, <1>8, <2>2 DEF IInv, EngineAnswers, execVars
  <2>4. ~touched => UNCHANGED emfiClaimed
    BY <1>1, <1>8, <2>2 DEF EmfiPolled, emfiPath
  <2>5. BurstsCounted'
    BY <1>2, <1>3, <1>8, <2>4 DEF IInv, BurstsCounted, execVars
  <2>6. QED
    BY <1>4, <2>1, <2>3, <2>5 DEF Kept
<1>9. QED
  BY <1>5, <1>6, <1>7, <1>8 DEF ExecCharge

LEMMA ExecFireCallKeeps ==
  ASSUME IInv, ExecFireCall
  PROVE  Kept
<1>1. /\ exec = "FIRE_CALL"
      /\ UNCHANGED <<cmVars, capCharged, polled, ghosts>>
      /\ UNCHANGED <<inStep, pendingStop, cmState, cmCfg, bursts, touched>>
  BY DEF ExecFireCall, cmVars, sweepVars, world, ghosts
<1>2. inStep /\ cmState = "SWEEPING" /\ polled' \in BOOLEAN
  BY <1>1 DEF IInv, ExecTyped, ExecAgrees
<1>3. CASE /\ cmCfg.engine = "EMFI"
           /\ EmfiFire(FireWait, EmfiRoom, capCharged)
           /\ IF emfiState' = "WAITING" THEN Goto("FIRE") ELSE Report(FALSE, "FIRE_REJECTED")
           /\ UNCHANGED cbVars
  <2>1. EmfiCommanded(EmfiRoom)
    BY <1>3, EmfiFireIsCommanded, SoundEngines
  <2>2. EmfiSound' /\ CbSound' /\ LoadsFit
    BY <1>3, <2>1, SoundEngines, CbIdle DEF EmfiCommanded, LoadsFit, cbVars, cbPath
  <2>3. CASE emfiState' = "WAITING" /\ Goto("FIRE")
    <3>1. emfiState = "CHARGED"
      BY <1>1, <1>3 DEF IInv, EngineAnswers
    <3>2. ~emfiClaimed /\ sm0' = "WAIT"
      BY <1>3, <2>3, <3>1 DEF EmfiFire, EmfiError, EmfiStartPath
    <3>3. ExecTyped' /\ ExecAgrees'
      BY <1>1, <1>2, <1>3, <2>3, AgeZero DEF IInv, ExecTyped, ExecAgrees, ExecStates, Goto
    <3>4. EngineAnswers'
      BY <2>3 DEF EngineAnswers, Goto
    <3>5. BurstsCounted'
      BY <1>1, <1>3, <2>3, <3>2 DEF IInv, BurstsCounted, Goto, Running
    <3>6. QED
      BY <2>2, <3>3, <3>4, <3>5 DEF Kept
  <2>4. CASE Report(FALSE, "FIRE_REJECTED")
    BY <1>1, <1>2, <2>2, <2>4, ReportKeeps, Codes DEF IInv, ExecTyped, Reportable
  <2>5. QED
    BY <1>3, <2>3, <2>4
<1>4. CASE /\ cmCfg.engine = "CROWBAR"
           /\ CbFire(0, CbRoom)
           /\ IF cbState' = "WAITING" THEN Goto("WAIT") ELSE Report(FALSE, "FIRE_REJECTED")
           /\ UNCHANGED <<emfiVars, hvVars>>
  <2>1. CbCommanded(CbRoom)
    BY <1>4, CbFireIsCommanded, SoundEngines
  <2>2. EmfiSound' /\ CbSound' /\ LoadsFit
    BY <1>4, <2>1, SoundEngines, EmfiUntouched DEF CbCommanded, LoadsFit, emfiVars, emfiPath
  <2>3. CASE cbState' = "WAITING" /\ Goto("WAIT")
    <3>1. cbState = "ARMED"
      BY <1>1, <1>4 DEF IInv, EngineAnswers
    <3>2. ~cbClaimed /\ sm1' = "WAIT"
      BY <1>4, <2>3, <3>1 DEF CbFire, CbError, CbStartPath
    <3>3. ExecTyped' /\ ExecAgrees'
      BY <1>1, <1>2, <1>4, <2>3, AgeZero DEF IInv, ExecTyped, ExecAgrees, ExecStates, Goto
    <3>4. EngineAnswers'
      BY <2>3 DEF EngineAnswers, Goto
    <3>5. BurstsCounted'
      BY <1>1, <1>4, <2>3, <3>2 DEF IInv, BurstsCounted, Goto, Running
    <3>6. QED
      BY <2>2, <3>3, <3>4, <3>5 DEF Kept
  <2>4. CASE Report(FALSE, "FIRE_REJECTED")
    BY <1>1, <1>2, <2>2, <2>4, ReportKeeps, Codes DEF IInv, ExecTyped, Reportable
  <2>5. QED
    BY <1>4, <2>3, <2>4
<1>5. QED
  BY <1>3, <1>4 DEF ExecFireCall

LEMMA ExecFireKeeps ==
  ASSUME IInv, ExecFire
  PROVE  Kept
<1>1. /\ exec = "FIRE" /\ polled' = TRUE
      /\ UNCHANGED <<cmVars, capCharged, ghosts>>
      /\ UNCHANGED <<inStep, pendingStop, cmState, cmCfg, bursts, touched>>
  BY DEF ExecFire, cmVars, sweepVars, ghosts
<1>2. inStep /\ cmState = "SWEEPING" /\ cmCfg.engine = "EMFI"
  BY <1>1 DEF IInv, ExecAgrees
<1>3. CbSound' /\ UNCHANGED cbLoaded
  BY SoundEngines, CbIdle DEF ExecFire, cbVars, cbPath
<1>4. CASE /\ EmfiTick(capCharged)
           /\ \/ UNCHANGED execVars /\ EmfiAfterTick \notin {"FIRED", "ERROR"}
              \/ Report(TRUE, "OK")
              \/ Report(FALSE, "ENGINE_ERR")
              \/ Report(FALSE, "ENGINE_STUCK")
  <2>1. EmfiPolled
    BY <1>4, EmfiTickIsPolled, SoundEngines
  <2>2. EmfiSound' /\ LoadsFit
    BY <1>3, <2>1, SoundEngines DEF EmfiPolled, LoadsFit
  <2>3. CASE UNCHANGED execVars /\ EmfiAfterTick \notin {"FIRED", "ERROR"}
    <3>1. UNCHANGED <<exec, execAge, execOk, execFire>>
      BY <2>3 DEF execVars
    <3>2. UNCHANGED emfiPath /\ emfiState' # "FIRED" /\ emfiState' = EmfiAfterTick
      BY <2>1, <2>3 DEF EmfiPolled
    <3>3. ExecTyped' /\ ExecAgrees'
      BY <1>1, <1>2, <3>1 DEF IInv, ExecTyped, ExecAgrees
    <3>4. ~touched => emfiState' = "WAITING"
      BY <1>1, <2>3, <3>2 DEF IInv, EngineAnswers, EmfiAfterTick
    <3>5. EngineAnswers' /\ BurstsCounted'
      BY <1>1, <3>1, <3>2, <3>4 DEF IInv, EngineAnswers, BurstsCounted, emfiPath
    <3>6. QED
      BY <1>3, <2>2, <3>3, <3>5 DEF Kept
  <2>4. CASE Report(TRUE, "OK") \/ Report(FALSE, "ENGINE_ERR") \/ Report(FALSE, "ENGINE_STUCK")
    BY <1>1, <1>2, <1>3, <2>2, <2>4, ReportKeeps, Codes DEF Reportable
  <2>5. QED
    BY <1>4, <2>3, <2>4
<1>5. CASE pendingStop /\ EmfiDisarm /\ Report(TRUE, "ABORTED")
  <2>1. EmfiSound' /\ ~emfiLoaded'
    BY <1>5, EmfiReleasedSound, SoundEngines DEF EmfiDisarm
  <2>2. QED
    BY <1>1, <1>2, <1>3, <1>5, <2>1, ReportKeeps, Codes DEF Reportable, LoadsFit
<1>6. QED
  BY <1>4, <1>5 DEF ExecFire

LEMMA ExecWaitKeeps ==
  ASSUME IInv, ExecWait
  PROVE  Kept
<1>1. /\ exec = "WAIT" /\ polled' = TRUE
      /\ UNCHANGED <<cmVars, capCharged, ghosts>>
      /\ UNCHANGED <<inStep, pendingStop, cmState, cmCfg, bursts, touched>>
  BY DEF ExecWait, cmVars, sweepVars, ghosts
<1>2. inStep /\ cmState = "SWEEPING" /\ cmCfg.engine = "CROWBAR"
  BY <1>1 DEF IInv, ExecAgrees
<1>3. EmfiSound' /\ UNCHANGED emfiLoaded
  BY SoundEngines, EmfiUntouched DEF ExecWait, emfiVars, emfiPath
<1>4. CASE CbTick /\ (Report(TRUE, "OK") \/ Report(FALSE, "ENGINE_ERR"))
  <2>1. CbSound' /\ LoadsFit
    BY <1>3, <1>4, CbTickIsPolled, SoundEngines DEF CbPolled, LoadsFit
  <2>2. QED
    BY <1>1, <1>2, <1>3, <1>4, <2>1, ReportKeeps, Codes DEF Reportable
<1>5. CASE CbAfterTick \notin {"FIRED", "ERROR"} /\ CbTick /\ UNCHANGED execVars
  <2>1. CbPolled
    BY <1>5, CbTickIsPolled, SoundEngines
  <2>2. CbSound' /\ LoadsFit
    BY <1>3, <2>1, SoundEngines DEF CbPolled, LoadsFit
  <2>3. UNCHANGED <<exec, execAge, execOk, execFire>>
    BY <1>5 DEF execVars
  <2>4. UNCHANGED cbPath /\ cbState' # "FIRED" /\ cbState' = CbAfterTick
    BY <1>5, <2>1 DEF CbPolled
  <2>5. ExecTyped' /\ ExecAgrees'
    BY <1>1, <1>2, <2>3 DEF IInv, ExecTyped, ExecAgrees
  <2>6. ~touched => cbState' = "WAITING"
    BY <1>1, <1>5, <2>4 DEF IInv, EngineAnswers, CbAfterTick
  <2>7. EngineAnswers' /\ BurstsCounted'
    BY <1>1, <2>3, <2>4, <2>6 DEF IInv, EngineAnswers, BurstsCounted, cbPath
  <2>8. QED
    BY <1>3, <2>2, <2>5, <2>7 DEF Kept
<1>6. CASE pendingStop /\ CbDisarm /\ Report(TRUE, "ABORTED")
  <2>1. CbSound' /\ ~cbLoaded'
    BY <1>6, CbReleasedSound, SoundEngines DEF CbDisarm
  <2>2. QED
    BY <1>1, <1>2, <1>3, <1>6, <2>1, ReportKeeps, Codes DEF Reportable, LoadsFit
<1>7. QED
  BY <1>4, <1>5, <1>6 DEF ExecWait

LEMMA ExecReturnKeeps ==
  ASSUME IInv, ExecReturn
  PROVE  Kept
<1>1. /\ CmEndStep(execOk, execFire) /\ StopHook
      /\ exec' = "NONE" /\ execOk' = TRUE /\ execFire' = "OK" /\ polled' = FALSE
      /\ bursts' = 0 /\ touched' = FALSE
      /\ UNCHANGED <<execAge, capCharged>>
  BY DEF ExecReturn
<1>2. inStep' = FALSE /\ pendingStop' = FALSE /\ UNCHANGED cmCfg
  BY <1>1 DEF CmEndStep
<1>3. EmfiCommanded(FALSE) /\ CbCommanded(FALSE)
  BY <1>1, StopHookIsCommanded
<1>4. EmfiSound' /\ CbSound' /\ LoadsFit
  BY <1>3, SoundEngines DEF EmfiCommanded, CbCommanded, LoadsFit
<1>5. ExecTyped'
  <2>1. bursts' \in 0 .. 2
    BY <1>1
  <2>2. execOk' \in BOOLEAN /\ polled' \in BOOLEAN /\ touched' \in BOOLEAN
        /\ inStep' \in BOOLEAN /\ pendingStop' \in BOOLEAN
    BY <1>1, <1>2
  <2>3. exec' \in ExecStates /\ execFire' \in FireCodes
    BY <1>1, Codes DEF ExecStates
  <2>4. QED
    BY <1>1, <1>2, <2>1, <2>2, <2>3 DEF IInv, ExecTyped
<1>6. ExecAgrees' /\ EngineAnswers' /\ BurstsCounted'
  BY <1>1, <1>2 DEF ExecAgrees, EngineAnswers, BurstsCounted
<1>7. QED
  BY <1>4, <1>5, <1>6 DEF Kept

LEMMA Advancing ==
  ASSUME NEW s \in Phases, NEW p \in NextPhase(s)
  PROVE  /\ p \in Running
         /\ s # "OFF"
         /\ s = "WAIT" <=> (s = "WAIT" /\ p = "HIGH")
         /\ s # "WAIT" => s \in Running
  BY DEF Phases, NextPhase, Running

LEMMA PioStepKeeps ==
  ASSUME IInv, PioStep
  PROVE  Kept
<1>1. UNCHANGED <<cmVars, execVars, world, touched>>
      /\ UNCHANGED <<exec, execAge, inStep, pendingStop, cmState, cmCfg, touched>>
  BY DEF PioStep, cmVars, sweepVars, execVars
<1>2. ExecAgrees /\ bursts \in 0 .. 2 /\ inStep \in BOOLEAN
  BY DEF IInv, ExecTyped
<1>3. CASE EmfiPioStep /\ CountBurst("EMFI", sm0, sm0') /\ UNCHANGED cbVars
  <2>1. /\ EmfiSound'
        /\ UNCHANGED <<emfiState, emfiAge, emfiCfg, emfiClaimed, emfiLoaded, hvVars>>
        /\ sm0' \in NextPhase(sm0)
    BY <1>3, EmfiPioKeepsSound, SoundEngines
  <2>2. /\ CbSound'
        /\ UNCHANGED <<cbState, cbClaimed, cbLoaded, sm1>>
    BY <1>3, SoundEngines, CbIdle DEF cbVars, cbCtl, cbPath
  <2>3. LoadsFit
    BY <2>1, <2>2 DEF LoadsFit
  <2>4. /\ sm0' \in Running /\ sm0 # "OFF"
        /\ sm0 = "WAIT" => sm0' = "HIGH"
        /\ sm0 # "WAIT" => sm0 \in Running
    BY <2>1, Advancing DEF IInv, EmfiTyped
  <2>5. /\ bursts' = (IF inStep /\ cmCfg.engine = "EMFI" /\ sm0 = "WAIT" /\ bursts < 2
                      THEN bursts + 1 ELSE bursts)
    BY <1>3, <2>4 DEF CountBurst
  <2>6. bursts' \in 0 .. 2 /\ (~inStep => bursts' = bursts)
    BY <1>2, <2>5
  <2>7. ExecTyped'
    BY <1>1, <2>6 DEF IInv, ExecTyped, execVars, world
  <2>8. ExecAgrees'
    BY <1>1, <1>2, <2>6 DEF ExecAgrees, Reportable, execVars
  <2>9. EngineAnswers'
    BY <1>1, <2>1, <2>2 DEF IInv, EngineAnswers
  <2>10. emfiClaimed
    BY <2>4 DEF IInv, EmfiPathHeld
  <2>11. BurstsCounted'
    <3>1. ASSUME exec = "FIRE"
          PROVE  bursts' >= 1 /\ (~touched => bursts' = 1)
      <4>1. inStep /\ cmCfg.engine = "EMFI"
        BY <1>2, <3>1 DEF ExecAgrees
      <4>2. CASE sm0 = "WAIT"
        BY <1>2, <2>5, <3>1, <4>1, <4>2 DEF IInv, BurstsCounted
      <4>3. CASE sm0 # "WAIT"
        BY <1>2, <2>4, <2>5, <3>1, <4>3 DEF IInv, BurstsCounted
      <4>4. QED
        BY <4>2, <4>3
    <3>2. cmCfg.engine = "CROWBAR" => bursts' = bursts
      BY <2>5
    <3>3. sm0' # "WAIT"
      BY <2>4 DEF Running
    <3>4. exec = "WAIT" => cmCfg.engine = "CROWBAR"
      BY <1>2 DEF ExecAgrees
    <3>5. cmCfg.engine \in {"EMFI", "CROWBAR"}
      BY DEF IInv, ExecTyped
    <3>6. QED
      BY <1>1, <2>1, <2>2, <2>10, <3>1, <3>2, <3>3, <3>4, <3>5 DEF IInv, BurstsCounted
  <2>12. QED
    BY <2>1, <2>2, <2>3, <2>7, <2>8, <2>9, <2>11 DEF Kept
<1>4. CASE CbPioStep /\ CountBurst("CROWBAR", sm1, sm1') /\ UNCHANGED <<emfiVars, hvVars>>
  <2>1. /\ CbSound'
        /\ UNCHANGED <<cbState, cbCfg, cbClaimed, cbLoaded>>
        /\ sm1' \in NextPhase(sm1)
    BY <1>4, CbPioKeepsSound, SoundEngines
  <2>2. /\ EmfiSound'
        /\ UNCHANGED <<emfiState, emfiAge, emfiCfg, emfiClaimed, emfiLoaded, sm0>>
    BY <1>4, SoundEngines, EmfiUntouched DEF emfiVars, emfiCtl, emfiPath
  <2>3. LoadsFit
    BY <2>1, <2>2 DEF LoadsFit
  <2>4. /\ sm1' \in Running /\ sm1 # "OFF"
        /\ sm1 = "WAIT" => sm1' = "HIGH"
        /\ sm1 # "WAIT" => sm1 \in Running
    BY <2>1, Advancing DEF IInv, CbTyped
  <2>5. /\ bursts' = (IF inStep /\ cmCfg.engine = "CROWBAR" /\ sm1 = "WAIT" /\ bursts < 2
                      THEN bursts + 1 ELSE bursts)
    BY <1>4, <2>4 DEF CountBurst
  <2>6. bursts' \in 0 .. 2 /\ (~inStep => bursts' = bursts)
    BY <1>2, <2>5
  <2>7. ExecTyped'
    BY <1>1, <2>6 DEF IInv, ExecTyped, execVars, world
  <2>8. ExecAgrees'
    BY <1>1, <1>2, <2>6 DEF ExecAgrees, Reportable, execVars
  <2>9. EngineAnswers'
    BY <1>1, <2>1, <2>2 DEF IInv, EngineAnswers
  <2>10. cbClaimed
    BY <2>4 DEF IInv, CbPathHeld
  <2>11. BurstsCounted'
    <3>1. ASSUME exec = "WAIT"
          PROVE  bursts' >= 1 /\ (~touched => bursts' = 1)
      <4>1. inStep /\ cmCfg.engine = "CROWBAR"
        BY <1>2, <3>1 DEF ExecAgrees
      <4>2. CASE sm1 = "WAIT"
        BY <1>2, <2>5, <3>1, <4>1, <4>2 DEF IInv, BurstsCounted
      <4>3. CASE sm1 # "WAIT"
        BY <1>2, <2>4, <2>5, <3>1, <4>3 DEF IInv, BurstsCounted
      <4>4. QED
        BY <4>2, <4>3
    <3>2. cmCfg.engine = "EMFI" => bursts' = bursts
      BY <2>5
    <3>3. sm1' # "WAIT"
      BY <2>4 DEF Running
    <3>4. exec \in {"CHARGE", "FIRE"} => cmCfg.engine = "EMFI"
      BY <1>2 DEF ExecAgrees
    <3>5. cmCfg.engine \in {"EMFI", "CROWBAR"}
      BY DEF IInv, ExecTyped
    <3>6. QED
      BY <1>1, <2>1, <2>2, <2>10, <3>1, <3>2, <3>3, <3>4, <3>5 DEF IInv, BurstsCounted
  <2>12. QED
    BY <2>1, <2>2, <2>3, <2>7, <2>8, <2>9, <2>11 DEF Kept
<1>5. QED
  BY <1>3, <1>4 DEF PioStep

LEMMA CapacitorKeeps ==
  ASSUME IInv, Capacitor
  PROVE  Kept
<1>1. UNCHANGED <<cmVars, engines, execVars, polled, ghosts>> /\ capCharged' = ~capCharged
  BY DEF Capacitor
<1>2. EmfiSound' /\ CbSound' /\ LoadsFit
  BY <1>1, SoundEngines, EmfiUntouched, CbIdle
     DEF engines, LoadsFit, emfiVars, emfiPath, cbVars, cbPath
<1>3. capCharged' \in BOOLEAN
  BY <1>1
<1>4. ExecTyped' /\ ExecAgrees'
  BY <1>1, <1>3
     DEF IInv, ExecTyped, ExecAgrees, Reportable, cmVars, sweepVars, execVars, ghosts
<1>5. EngineAnswers' /\ BurstsCounted'
  BY <1>1 DEF IInv, EngineAnswers, BurstsCounted, cmVars, sweepVars, execVars, ghosts, engines,
              emfiVars, emfiCtl, emfiPath, cbVars, cbCtl, cbPath
<1>6. QED
  BY <1>2, <1>4, <1>5 DEF Kept

LEMMA ElapseKeeps ==
  ASSUME IInv, Elapse
  PROVE  Kept
<1>1. /\ AtYield /\ polled' = FALSE /\ CmElapse /\ EmfiElapse /\ CbElapse /\ HvElapse
      /\ execAge' = (IF exec \in {"CHARGE", "FIRE"} THEN Older(execAge) ELSE execAge)
      /\ UNCHANGED <<exec, execOk, execFire, capCharged, bursts, touched>>
      /\ UNCHANGED <<cmState, cmCfg, inStep, pendingStop>>
  BY DEF Elapse, ghosts, CmElapse
<1>2. EmfiSound' /\ CbSound'
  BY <1>1, EmfiElapseKeepsSound, CbElapseKeepsSound, SoundEngines
<1>3. /\ UNCHANGED <<emfiState, emfiCfg, emfiClaimed, emfiLoaded, sm0>>
      /\ UNCHANGED <<cbState, cbClaimed, cbLoaded, sm1>>
      /\ emfiAge' = (IF emfiState \in EmfiTimed THEN Older(emfiAge) ELSE emfiAge)
  BY <1>1 DEF EmfiElapse, CbElapse, emfiPath, cbPath
<1>4. ExecTyped'
  <2>1. execAge' \in Age
    BY <1>1, OlderAge DEF IInv, ExecTyped
  <2>2. polled' \in BOOLEAN
    BY <1>1
  <2>3. QED
    BY <1>1, <2>1, <2>2 DEF IInv, ExecTyped
<1>5. ExecAgrees'
  BY <1>1 DEF IInv, ExecAgrees, Reportable
<1>6. EngineAnswers'
  <2>1. ASSUME ~touched, exec = "CHARGE"
        PROVE  emfiAge' = execAge'
    BY <1>1, <1>3, <2>1 DEF IInv, EngineAnswers, EmfiTimed
  <2>2. QED
    BY <1>1, <1>3, <2>1 DEF IInv, EngineAnswers
<1>7. BurstsCounted'
  BY <1>1, <1>3 DEF IInv, BurstsCounted
<1>8. LoadsFit
  BY <1>3 DEF LoadsFit
<1>9. QED
  BY <1>2, <1>4, <1>5, <1>6, <1>7, <1>8 DEF Kept

THEOREM NextIInv == IInv /\ [Next]_vars => IInv'
<1> SUFFICES ASSUME IInv, [Next]_vars
             PROVE  IInv'
  OBVIOUS
<1>1. CASE Next
  <2>1. Kept
    BY <1>1, HostCampaignKeeps, HostEmfiKeeps, HostCrowbarKeeps, MainPassKeeps, ButtonsKeep,
       ExecBeginKeeps, ExecChargeKeeps, ExecFireCallKeeps, ExecFireKeeps, ExecWaitKeeps,
       ExecReturnKeeps, PioStepKeeps, CapacitorKeeps, ElapseKeeps DEF Next, Executor
  <2>2. emfiLoaded' \in BOOLEAN /\ cbLoaded' \in BOOLEAN
    BY <2>1 DEF Kept, EmfiSound, EmfiTyped, CbSound, CbTyped
  <2>3. ProgramsApart'
    BY <1>1, <2>1, <2>2, MemoryKeepsApart DEF Next, IInv, Kept
  <2>4. QED
    BY <2>1, <2>3 DEF Kept, IInv, EmfiSound, CbSound
<1>2. CASE UNCHANGED vars
  <2> USE <1>2 DEF vars, cmVars, sweepVars, engines, emfiVars, emfiCtl, emfiPath, hvVars, cbVars,
                  cbCtl, cbPath, execVars, world, ghosts
  <2>1. ExecTyped' /\ ExecAgrees'
    BY DEF IInv, ExecTyped, ExecAgrees, Reportable
  <2>2. EmfiTyped' /\ EmfiPathHeld'
    BY DEF IInv, EmfiTyped, EmfiPathHeld
  <2>3. CbTyped' /\ CbPathHeld'
    BY DEF IInv, CbTyped, CbPathHeld
  <2>4. EngineAnswers' /\ BurstsCounted'
    BY DEF IInv, EngineAnswers, BurstsCounted
  <2>5. ProgramsApart'
    BY DEF IInv, ProgramsApart
  <2>6. QED
    BY <2>1, <2>2, <2>3, <2>4, <2>5 DEF IInv
<1>3. QED
  BY <1>1, <1>2

THEOREM InductiveInvariant == Spec => []IInv
  BY InitIInv, NextIInv, PTL DEF Spec

-----------------------------------------------------------------------------
(* What follows from it.                                                    *)

\* The composition's variables keep their types, whatever hosts and hardware do.
THEOREM TypeCorrect == Spec => []TypeOK
<1>1. IInv => TypeOK
  BY DEF IInv, ExecTyped, TypeOK
<1>2. QED
  BY <1>1, InductiveInvariant, PTL

\* Whichever engine loads first, and whatever either has left behind, the two
\* programs share no instruction of pio0.
THEOREM ProgramsNeverOverlap == Spec => []ProgramsApart
<1>1. IInv => ProgramsApart
  BY DEF IInv
<1>2. QED
  BY <1>1, InductiveInvariant, PTL

\* The manager's in_step tells whether an executor runs; and in a step in which no
\* host command has reached its engine, the executor waits for an engine on its
\* way to the answer.  A step the host has meddled with is left out of the second
\* part: its executor may wait for what will not come.
THEOREM WaitsAreAnswered == Spec => []WaitIsAnswered
<1>1. IInv => WaitIsAnswered
  BY DEF IInv, ExecAgrees, EngineAnswers, WaitIsAnswered
<1>2. QED
  BY <1>1, InductiveInvariant, PTL

\* A step that starts to return is in one of three places.
LEMMA ReturnsFrom ==
  ASSUME IInv, Next, exec # "RETURN", exec' = "RETURN"
  PROVE  \/ ExecBegin /\ execFire' = "CONFIGURE_ERR"
         \/ ExecCharge
         \/ ExecFireCall /\ execFire' = "FIRE_REJECTED"
         \/ ExecFire
         \/ ExecWait
<1>1. HostCampaign \/ HostEmfi \/ HostCrowbar \/ PioStep \/ Capacitor \/ Elapse \/ Buttons
        => UNCHANGED exec
  BY DEF HostCampaign, HostEmfi, HostCrowbar, PioStep, Capacitor, Elapse, Buttons, execVars
<1>2. MainPass => exec' # "RETURN"
  BY DEF MainPass
<1>3. ExecReturn => exec' # "RETURN"
  BY DEF ExecReturn
<1>4. ExecBegin => execFire' = "CONFIGURE_ERR"
  BY DEF ExecBegin, Report, Goto
<1>5. ExecFireCall => execFire' = "FIRE_REJECTED"
  BY DEF ExecFireCall, Report, Goto
<1>6. QED
  BY <1>1, <1>2, <1>3, <1>4, <1>5 DEF Next, Executor

\* The engine's charge timeout comes first by ChargeSlack: the generic
\* CHARGE_TIMEOUT is reported only if the host touched the engine in the step.
THEOREM EngineTimeoutWinsTheRace == Spec => EngineTimeoutWins
<1>1. IInv /\ IInv' /\ [Next]_vars =>
        [(exec' = "RETURN" /\ execFire' = "CHARGE_TIMEOUT") => touched]_vars
  <2> SUFFICES ASSUME IInv, IInv', Next, exec' = "RETURN", execFire' = "CHARGE_TIMEOUT"
               PROVE  touched
    OBVIOUS
  <2>1. touched'
    BY DEF IInv, ExecAgrees
  <2>2. CASE exec = "RETURN"
    <3>1. UNCHANGED touched
      BY <2>2 DEF Next, HostCampaign, HostEmfi, HostCrowbar, AtYield, MainPass, Buttons, Executor,
             ExecBegin, ExecCharge, ExecFireCall, ExecFire, ExecWait, ExecReturn, PioStep,
             Capacitor, Elapse, ghosts
    <3>2. QED
      BY <2>1, <3>1
  <2>3. CASE exec # "RETURN"
    <3>1. ExecCharge \/ ExecFire \/ ExecWait
      BY <2>3, ReturnsFrom
    <3>2. UNCHANGED touched
      BY <3>1 DEF ExecCharge, ExecFire, ExecWait, ghosts
    <3>3. QED
      BY <2>1, <3>2
  <2>4. QED
    BY <2>2, <2>3
<1>2. QED
  BY <1>1, InductiveInvariant, PTL DEF Spec, EngineTimeoutWins

\* OK is reported only after the program ran its trigger block in this step, and
\* exactly once if the host kept its hands off the engine.
THEOREM ReportsAreTrue == Spec => ReportIsTrue
<1>1. IInv /\ [Next]_vars =>
        [(exec # "RETURN" /\ exec' = "RETURN" /\ execFire' = "OK") =>
           bursts >= 1 /\ (touched \/ bursts = 1)]_vars
  <2> SUFFICES ASSUME IInv, Next, exec # "RETURN", exec' = "RETURN", execFire' = "OK"
               PROVE  bursts >= 1 /\ (touched \/ bursts = 1)
    OBVIOUS
  <2>1. ExecCharge \/ ExecFire \/ ExecWait
    BY ReturnsFrom
  <2>2. ~ExecCharge
    BY DEF ExecCharge, Goto, Report, execVars
  <2>3. CASE ExecFire
    <3>1. exec = "FIRE" /\ EmfiAfterTick = "FIRED"
      BY <2>3 DEF ExecFire, Report, execVars
    <3>2. emfiState # "FIRED"
      BY <3>1 DEF IInv, EngineAnswers
    <3>3. irq0
      BY <3>1, <3>2 DEF EmfiAfterTick, EmfiDone
    <3>4. sm0 = "DONE"
      BY <3>3 DEF IInv, EmfiPathHeld
    <3>5. QED
      BY <3>1, <3>4 DEF IInv, BurstsCounted, Running
  <2>4. CASE ExecWait
    <3>1. exec = "WAIT" /\ CbAfterTick = "FIRED"
      BY <2>4 DEF ExecWait, Report, execVars
    <3>2. cbState # "FIRED"
      BY <3>1 DEF IInv, EngineAnswers
    <3>3. irq1
      BY <3>1, <3>2 DEF CbAfterTick, CbDone
    <3>4. sm1 = "DONE"
      BY <3>3 DEF IInv, CbPathHeld
    <3>5. QED
      BY <3>1, <3>4 DEF IInv, BurstsCounted, Running
  <2>5. QED
    BY <2>1, <2>2, <2>3, <2>4
<1>2. QED
  BY <1>1, InductiveInvariant, PTL DEF Spec, ReportIsTrue

\* However a sweep comes to STOPPED, the engine it swept is idle and holds nothing
\* then; after an EMFI sweep the charger is off as well.  The other engine, and
\* the charger after a crowbar sweep, are as they were.
THEOREM StoppedLeavesItSafe == Spec => StoppedIsSafe
<1>1. [Next]_vars =>
        [CmStopSettles =>
           IF cmCfg.engine = "EMFI" THEN emfiState' = "IDLE" /\ ~emfiClaimed' /\ ~hvArmed'
           ELSE cbState' = "IDLE" /\ ~cbClaimed']_vars
  <2> SUFFICES ASSUME Next, CmStopSettles
               PROVE  IF cmCfg.engine = "EMFI" THEN emfiState' = "IDLE" /\ ~emfiClaimed' /\ ~hvArmed'
                      ELSE cbState' = "IDLE" /\ ~cbClaimed'
    OBVIOUS
  <2>1. UNCHANGED cmState => FALSE
    BY DEF CmStopSettles
  <2>2. HostCampaign \/ MainPass \/ ExecReturn
    BY <2>1 DEF Next, HostEmfi, HostCrowbar, Buttons, Executor, ExecBegin, ExecCharge,
           ExecFireCall, ExecFire, ExecWait, PioStep, Capacitor, Elapse, CmElapse, cmVars, sweepVars
  <2>3. ~MainPass
    BY DEF MainPass, CmBeginStep, CmStopSettles, cmVars, sweepVars
  <2>4. HostCampaign => StopHook
    BY DEF HostCampaign, CmConfigure, CmStart, CmDrain, CmStopSettles, cmVars, sweepVars
  <2>5. StopHook
    BY <2>2, <2>3, <2>4 DEF ExecReturn
  <2>6. QED
    BY <2>5 DEF StopHook, EmfiDisarm, EmfiTeardown, HvDisarm, CbDisarm, CbTeardown
<1>2. QED
  BY <1>1, PTL DEF Spec, StoppedIsSafe

-----------------------------------------------------------------------------
(* The executors and the manager.                                           *)

\* Whatever is on the stack, the manager's variables only ever move by its own
\* entry points, its tick and a return its rules allow: a step is aborted after a
\* STOP only, and a failure has one of the known codes.
THEOREM ExecutorsKeepTheRules == Spec => CmInit /\ [][CmNext]_cmVars
<1>1. Init => CmInit
  BY DEF Init
<1>2. IInv /\ [Next]_vars => [CmNext]_cmVars
  <2> SUFFICES ASSUME IInv, Next
               PROVE  CmNext \/ UNCHANGED cmVars
    BY DEF vars
  <2>1. CASE HostCampaign
    BY <2>1 DEF HostCampaign, CmNext, CmHost
  <2>2. CASE MainPass
    BY <2>2 DEF MainPass, CmNext
  <2>3. CASE ExecReturn
    <3>1. Reportable(execOk, execFire) /\ execOk \in BOOLEAN /\ execFire \in FireCodes
      BY <2>3 DEF ExecReturn, IInv, ExecTyped, ExecAgrees
    <3>2. CmReturn
      BY <2>3, <3>1 DEF ExecReturn, CmReturn
    <3>3. QED
      BY <3>2 DEF CmNext
  <2>4. CASE Elapse
    BY <2>4 DEF Elapse, CmNext
  <2>5. CASE \/ HostEmfi \/ HostCrowbar \/ Buttons \/ PioStep \/ Capacitor
             \/ ExecBegin \/ ExecCharge \/ ExecFireCall \/ ExecFire \/ ExecWait
    BY <2>5 DEF HostEmfi, HostCrowbar, Buttons, PioStep, Capacitor, ExecBegin, ExecCharge,
                ExecFireCall, ExecFire, ExecWait
  <2>6. QED
    BY <2>1, <2>2, <2>3, <2>4, <2>5 DEF Next, Executor
<1>3. QED
  BY <1>1, <1>2, InductiveInvariant, PTL DEF Spec

-----------------------------------------------------------------------------
(* The charger's safety net.                                                *)

LEMMA EmfiCommandsMoveHv ==
  ASSUME NEW room, NEW seen,
         \/ \E c \in EmfiConfigs : EmfiConfigure(c)
         \/ EmfiArm
         \/ \E t \in Nat : EmfiFire(t, room, seen)
         \/ EmfiDisarm
         \/ EmfiRearm
  PROVE  HvArm \/ HvDisarm \/ UNCHANGED hvVars
<1>1. ASSUME NEW c \in EmfiConfigs, EmfiConfigure(c)
      PROVE  UNCHANGED hvVars
  BY <1>1 DEF EmfiConfigure
<1>2. ASSUME NEW t \in Nat, EmfiFire(t, room, seen)
      PROVE  HvDisarm \/ UNCHANGED hvVars
  BY <1>2 DEF EmfiFire, EmfiError, EmfiTeardown
<1>3. QED
  BY <1>1, <1>2 DEF EmfiArm, EmfiError, EmfiDisarm, EmfiTeardown, EmfiRearm

LEMMA EmfiTicksPollHv ==
  ASSUME NEW seen, EmfiTick(seen)
  PROVE  HvTick \/ HvDisarm
  BY DEF EmfiTick, EmfiTickArming, EmfiTickCharged, EmfiTickWaiting, EmfiError, EmfiTeardown

\* How a step of the firmware moves the charger.
LEMMA HvMoves ==
  ASSUME Next
  PROVE  \/ /\ HvArm \/ HvDisarm \/ UNCHANGED hvVars
            /\ \/ UNCHANGED <<exec, polled>>
               \/ exec = "BEGIN" /\ exec' = "CHARGE" /\ HvArm
               \/ exec \notin {"WAIT", "RETURN"} /\ UNCHANGED <<hvVars, polled>>
               \/ exec' \in {"WAIT", "RETURN"}
               \/ polled' = FALSE
         \/ /\ exec \in {"NONE", "CHARGE", "FIRE"}
            /\ HvTick \/ HvDisarm
         \/ exec = "WAIT" /\ UNCHANGED hvVars /\ (UNCHANGED exec \/ exec' = "RETURN")
         \/ Elapse
<1>1. FireTimeouts \subseteq Nat /\ FireWait \in Nat
  BY FirmwareAssumption
<1>2. CASE HostCampaign
  BY <1>2 DEF HostCampaign, StopHook, engines, EmfiDisarm, EmfiTeardown, execVars, world
<1>3. CASE HostEmfi
  BY <1>1, <1>3, EmfiCommandsMoveHv DEF HostEmfi, execVars, world
<1>4. CASE HostCrowbar
  BY <1>4 DEF HostCrowbar, execVars, world
<1>5. CASE MainPass
  BY <1>5, EmfiTicksPollHv DEF MainPass
<1>6. CASE Buttons
  BY <1>6 DEF Buttons, ButtonArm, ButtonPulse, execVars, world
<1>7. CASE ExecBegin
  BY <1>7 DEF ExecBegin, engines, Report, Goto, EmfiRearm, world
<1>8. CASE ExecCharge
  BY <1>8, EmfiTicksPollHv DEF ExecCharge
<1>9. CASE ExecFireCall
  <2>1. CASE EmfiFire(FireWait, EmfiRoom, capCharged) /\ emfiState' # "WAITING"
    <3>1. HvArm \/ HvDisarm \/ UNCHANGED hvVars
      BY <1>1, <2>1, EmfiCommandsMoveHv
    <3>2. exec' \in {"WAIT", "RETURN"} \/ cbState' = "WAITING"
      BY <1>9, <2>1 DEF ExecFireCall, Report, Goto
    <3>3. exec' \in {"WAIT", "RETURN"}
      BY <1>9, <2>1 DEF ExecFireCall, Report, Goto
    <3>4. QED
      BY <3>1, <3>3
  <2>2. CASE EmfiFire(FireWait, EmfiRoom, capCharged) /\ emfiState' = "WAITING"
    <3>1. UNCHANGED hvVars
      BY <2>2 DEF EmfiFire, EmfiError
    <3>2. QED
      BY <1>9, <3>1 DEF ExecFireCall, world
  <2>3. CASE UNCHANGED hvVars
    BY <1>9, <2>3 DEF ExecFireCall, world
  <2>4. QED
    BY <1>9, <2>1, <2>2, <2>3 DEF ExecFireCall
<1>10. CASE ExecFire
  BY <1>10, EmfiTicksPollHv DEF ExecFire, EmfiDisarm, EmfiTeardown
<1>11. CASE ExecWait
  BY <1>11 DEF ExecWait, Report, execVars
<1>12. CASE ExecReturn
  BY <1>12 DEF ExecReturn, StopHook, engines, EmfiDisarm, EmfiTeardown
<1>13. CASE PioStep
  BY <1>13 DEF PioStep, EmfiPioStep, execVars, world
<1>14. CASE Capacitor
  BY <1>14 DEF Capacitor, engines, execVars
<1>15. CASE Elapse
  BY <1>15
<1>16. QED
  BY <1>2, <1>3, <1>4, <1>5, <1>6, <1>7, <1>8, <1>9, <1>10, <1>11, <1>12, <1>13, <1>14, <1>15
     DEF Next, Executor

LEMMA NextSafetyNet ==
  ASSUME AutoDisarm # 0, IInv, SafetyNet, [Next]_vars
  PROVE  SafetyNet'
<1> USE AutoDisarmAssumption
<1>1. hvAge \in Nat /\ hvArmed \in BOOLEAN
  BY DEF IInv, EmfiTyped, Age
<1>2. ASSUME HvArm \/ HvDisarm
      PROVE  SafetyNet'
  BY <1>2 DEF HvArm, HvDisarm, SafetyNet
<1>3. ASSUME HvTick
      PROVE  SafetyNet'
  <2>1. CASE HvExpired
    BY <1>2, <1>3, <2>1 DEF HvTick
  <2>2. CASE ~HvExpired
    <3>1. UNCHANGED <<hvArmed, hvAge>>
      BY <1>3, <2>2 DEF HvTick, hvVars
    <3>2. hvArmed => hvAge < AutoDisarm
      BY <1>1, <2>2 DEF HvExpired
    <3>3. QED
      BY <3>1, <3>2 DEF SafetyNet
  <2>3. QED
    BY <2>1, <2>2
<1>4. ASSUME UNCHANGED hvVars, UNCHANGED <<exec, polled>>
      PROVE  SafetyNet'
  BY <1>4 DEF SafetyNet, hvVars
<1>5. ASSUME exec \notin {"WAIT", "RETURN"}, UNCHANGED <<hvVars, polled>>
      PROVE  SafetyNet'
  BY <1>5 DEF SafetyNet, hvVars
<1>6. ASSUME exec' \in {"WAIT", "RETURN"} \/ polled' = FALSE
      PROVE  SafetyNet'
  BY <1>6 DEF SafetyNet
<1>7. CASE Next
  BY <1>2, <1>3, <1>4, <1>5, <1>6, <1>7, HvMoves DEF Elapse
<1>8. CASE UNCHANGED vars
  BY <1>4, <1>8 DEF vars, engines, execVars, world
<1>9. QED
  BY <1>7, <1>8

LEMMA SafetyNetHolds ==
  ASSUME AutoDisarm # 0
  PROVE  Spec => []SafetyNet
<1>1. Init => SafetyNet
  BY DEF Init, SafetyNet
<1>2. IInv /\ SafetyNet /\ [Next]_vars => SafetyNet'
  BY NextSafetyNet
<1>3. QED
  BY <1>1, <1>2, InductiveInvariant, PTL DEF Spec

\* The age of the charger grows only with the clock, and by one.
LEMMA OnlyTimeAgesHv ==
  ASSUME IInv, [Next]_vars, hvAge' > hvAge
  PROVE  /\ exec \in {"NONE", "CHARGE", "FIRE", "WAIT"} /\ polled
         /\ UNCHANGED hvArmed /\ hvArmed /\ hvAge' <= hvAge + 1
<1>1. hvAge \in Age /\ hvAge \in Nat
  BY DEF IInv, EmfiTyped, Age
<1>2. ~HvArm /\ ~HvDisarm /\ ~UNCHANGED hvVars /\ ~HvTick
  BY <1>1 DEF HvArm, HvDisarm, hvVars, HvTick
<1>3. ~UNCHANGED vars
  BY <1>2 DEF vars, engines
<1>4. Elapse
  BY <1>2, <1>3, HvMoves
<1>5. hvAge' = (IF hvArmed THEN Older(hvAge) ELSE hvAge)
  BY <1>4 DEF Elapse, HvElapse
<1>6. QED
  BY <1>1, <1>4, <1>5, OlderAge DEF Elapse, HvElapse, AtYield

\* With the safety net on, the one place where it is missed is the trigger wait of
\* a crowbar step.
THEOREM OverstayNeedsCrowbarWait ==
  ASSUME AutoDisarm # 0
  PROVE  Spec => OverstaysOnlyInCrowbarWait
<1>1. IInv /\ SafetyNet /\ [Next]_vars =>
        [(hvArmed /\ hvAge = AutoDisarm /\ hvAge' > AutoDisarm) => exec = "WAIT"]_vars
  <2> SUFFICES ASSUME IInv, SafetyNet, Next, hvArmed, hvAge = AutoDisarm, hvAge' > AutoDisarm
               PROVE  exec = "WAIT"
    OBVIOUS
  <2>1. exec \in {"NONE", "CHARGE", "FIRE", "WAIT"} /\ polled
    BY OnlyTimeAgesHv
  <2>2. AutoDisarm \in Nat
    BY AutoDisarmAssumption
  <2>3. QED
    BY <2>1, <2>2 DEF SafetyNet
<1>2. QED
  BY <1>1, SafetyNetHolds, InductiveInvariant, PTL DEF Spec, OverstaysOnlyInCrowbarWait

\* Nobody sweeps the crowbar: every configuration a host sends is for EMFI.
EmfiOnly == \A c \in Configs : c.engine = "EMFI"

\* As long as no crowbar sweep is configured, executors, buttons and hosts together
\* never leave the charger armed for longer than the auto-disarm period.
THEOREM ChargerNeverOverstays ==
  ASSUME AutoDisarm # 0, EmfiOnly
  PROVE  Spec => []HvNeverOverstays
<1> DEFINE EmfiSwept == cmCfg.engine = "EMFI"
<1>1. Init => EmfiSwept /\ HvNeverOverstays
  BY DEF Init, CmInit, ZeroConfig, HvInit, HvNeverOverstays
<1>2. EmfiSwept /\ [CmNext]_cmVars => EmfiSwept'
  BY DEF EmfiOnly, CmNext, CmHost, CmConfigure, CmStart, CmStop, CmDrain, CmBeginStep, CmReturn,
         CmEndStep, CmElapse, cmVars, sweepVars
<1>3. IInv /\ SafetyNet /\ EmfiSwept /\ HvNeverOverstays /\ [Next]_vars => HvNeverOverstays'
  <2> SUFFICES ASSUME IInv, SafetyNet, EmfiSwept, HvNeverOverstays, [Next]_vars, hvArmed'
               PROVE  hvAge' <= AutoDisarm
    BY DEF HvNeverOverstays
  <2>1. AutoDisarm \in Nat /\ hvAge \in Nat /\ hvAge' \in Nat
    BY AutoDisarmAssumption, NextIInv DEF IInv, EmfiTyped, Age
  <2>2. CASE hvAge' > hvAge
    <3>1. exec \in {"NONE", "CHARGE", "FIRE", "WAIT"} /\ polled /\ hvArmed /\ hvAge' <= hvAge + 1
      BY <2>2, OnlyTimeAgesHv
    <3>2. exec # "WAIT"
      BY DEF IInv, ExecAgrees
    <3>3. hvAge < AutoDisarm
      BY <3>1, <3>2 DEF SafetyNet
    <3>4. QED
      BY <2>1, <2>2, <3>1, <3>3
  <2>3. CASE ~(hvAge' > hvAge)
    <3>1. CASE hvArmed
      BY <2>1, <2>3, <3>1 DEF HvNeverOverstays
    <3>2. CASE ~hvArmed
      <4>1. ~UNCHANGED hvArmed /\ ~HvDisarm /\ ~HvTick
        BY <3>2 DEF HvDisarm, HvTick, hvVars
      <4>2. HvArm
        BY <4>1, HvMoves DEF vars, engines, hvVars, Elapse, HvElapse
      <4>3. QED
        BY <2>1, <4>2 DEF HvArm
    <3>3. QED
      BY <3>1, <3>2
  <2>4. QED
    BY <2>2, <2>3
<1>4. QED
  BY <1>1, <1>2, <1>3, SafetyNetHolds, InductiveInvariant, ExecutorsKeepTheRules, PTL DEF Spec

-----------------------------------------------------------------------------
(* The crowbar engine in the firmware.  What CrowbarProofs proves of the    *)
(* engine under any host carries over: the executor is one more host, which *)
(* fires without a timeout and stores and arms in one go.                   *)

AnyCbConfig == [trigger : Triggers, out : Gates, ok : BOOLEAN]

Crowbar == INSTANCE CrowbarProofs WITH CbConfigs <- AnyCbConfig, FireTimeouts <- Nat

LEMMA CrowbarAssumes ==
  /\ Crowbar!CbAssumption
  /\ Crowbar!HorizonAssumption
  /\ Crowbar!FireTimeoutsAssumption
  BY HorizonAssumption
     DEF AnyCbConfig, Crowbar!CbAssumption, Crowbar!HorizonAssumption,
         Crowbar!FireTimeoutsAssumption, Triggers, Crowbar!Triggers, Gates, Crowbar!Gates

\* Each operation of the engine is that of the engine by itself.
LEMMA SameCbError ==
  ASSUME NEW err, NEW claimed, CbError(err, claimed)
  PROVE  Crowbar!CbError(err, claimed)
  BY DEF CbError, CbTeardown, Crowbar!CbError, Crowbar!CbTeardown, Gates, Crowbar!Gates

LEMMA SameCbConfigure ==
  ASSUME NEW c \in CbConfigs, CbConfigure(c)
  PROVE  Crowbar!Host
<1>1. c \in AnyCbConfig
  BY CbAssumption DEF AnyCbConfig
<1>2. Crowbar!CbConfigure(c)
  BY DEF CbConfigure, Crowbar!CbConfigure, cbVars, cbCtl, cbPath, Crowbar!cbVars,
         Crowbar!cbCtl, Crowbar!cbPath
<1>3. QED
  BY <1>1, <1>2 DEF Crowbar!Host

LEMMA SameCbArm ==
  ASSUME CbArm
  PROVE  Crowbar!Host
<1>1. Crowbar!CbArm
  BY SameCbError
     DEF CbArm, Crowbar!CbArm, CbArmable, Crowbar!CbArmable, cbVars, cbCtl, cbPath,
         Crowbar!cbVars, Crowbar!cbCtl, Crowbar!cbPath
<1>2. QED
  BY <1>1 DEF Crowbar!Host

LEMMA SameCbFire ==
  ASSUME NEW t \in Nat, NEW room \in BOOLEAN, CbFire(t, room)
  PROVE  Crowbar!Host
<1>1. Crowbar!CbFire(t, room)
  BY SameCbError
     DEF CbFire, Crowbar!CbFire, CbStartPath, Crowbar!CbStartPath, cbVars, cbCtl, cbPath,
         Crowbar!cbVars, Crowbar!cbCtl, Crowbar!cbPath
<1>2. QED
  BY <1>1 DEF Crowbar!Host

LEMMA SameCbDisarm ==
  ASSUME CbDisarm
  PROVE  Crowbar!Host
<1>1. Crowbar!CbDisarm
  BY DEF CbDisarm, CbTeardown, Crowbar!CbDisarm, Crowbar!CbTeardown, Gates, Crowbar!Gates
<1>2. QED
  BY <1>1 DEF Crowbar!Host

LEMMA SameCbTick ==
  ASSUME CbTick
  PROVE  Crowbar!CbTick
  BY SameCbError
     DEF CbTick, Crowbar!CbTick, CbDone, Crowbar!CbDone, CbTimedOut, Crowbar!CbTimedOut, CbFired,
         Crowbar!CbFired, CbTeardown, Crowbar!CbTeardown, Gates, Crowbar!Gates, cbVars, cbCtl,
         cbPath, Crowbar!cbVars, Crowbar!cbCtl, Crowbar!cbPath

LEMMA SameCbPioStep ==
  ASSUME CbPioStep
  PROVE  Crowbar!CbPioStep
  BY DEF CbPioStep, Crowbar!CbPioStep, NextPhase, Crowbar!NextPhase, Gates, Crowbar!Gates, cbCtl,
         Crowbar!cbCtl

LEMMA SameCbElapse ==
  ASSUME CbElapse
  PROVE  Crowbar!CbElapse
  BY DEF CbElapse, Crowbar!CbElapse, Older, Crowbar!Older, cbPath, Crowbar!cbPath

\* Whoever is at work, the engine moves as it does by itself, or is rearmed.
LEMMA CrowbarMoves ==
  ASSUME Next
  PROVE  Crowbar!Next \/ CbRearm \/ UNCHANGED cbVars
<1>1. FireTimeouts \subseteq Nat /\ 0 \in Nat /\ CbRoom \in BOOLEAN
  BY FirmwareAssumption DEF CbRoom
<1>2. CASE HostCampaign
  BY <1>2, SameCbDisarm DEF HostCampaign, StopHook, engines, Crowbar!Next
<1>3. CASE HostCrowbar
  BY <1>1, <1>3, SameCbConfigure, SameCbArm, SameCbFire, SameCbDisarm DEF HostCrowbar, Crowbar!Next
<1>4. CASE MainPass
  BY <1>4, SameCbTick DEF MainPass, Crowbar!Next
<1>5. CASE ExecBegin
  BY <1>5 DEF ExecBegin, engines
<1>6. CASE ExecFireCall
  BY <1>1, <1>6, SameCbFire DEF ExecFireCall, Crowbar!Next
<1>7. CASE ExecWait
  BY <1>7, SameCbTick, SameCbDisarm DEF ExecWait, Crowbar!Next
<1>8. CASE ExecReturn
  BY <1>8, SameCbDisarm DEF ExecReturn, StopHook, engines, Crowbar!Next
<1>9. CASE PioStep
  BY <1>9, SameCbPioStep DEF PioStep, Crowbar!Next
<1>10. CASE Elapse
  BY <1>10, SameCbElapse DEF Elapse, Crowbar!Next
<1>11. CASE HostEmfi \/ Buttons \/ ExecCharge \/ ExecFire \/ Capacitor
  BY <1>11 DEF HostEmfi, Buttons, ExecCharge, ExecFire, Capacitor, engines
<1>12. QED
  BY <1>2, <1>3, <1>4, <1>5, <1>6, <1>7, <1>8, <1>9, <1>10, <1>11 DEF Next, Executor

\* The executor's configure() and arm() leave the fire path alone.
LEMMA RearmKeepsCrowbar ==
  ASSUME Crowbar!IInv, CbRearm
  PROVE  Crowbar!IInv'
<1> USE DEF Crowbar!IInv
<1>1. cbCfg.trigger \in Triggers
  BY DEF Crowbar!TypeOK, AnyCbConfig, Crowbar!CbZeroConfig, Triggers
<1>2. cbCfg' \in AnyCbConfig /\ cbCfg'.ok
  BY <1>1 DEF CbRearm, AnyCbConfig, Gates
<1>3. Crowbar!TypeOK'
  BY <1>2, CrowbarAssumes
     DEF Crowbar!HorizonAssumption, Crowbar!TypeOK, CbRearm, cbPath, Crowbar!CbStates,
         Crowbar!CbErrors, Crowbar!Age
<1>4. Crowbar!GateOwned'
  BY DEF Crowbar!GateOwned, CbRearm, cbPath
<1>5. Crowbar!Ready' /\ Crowbar!Released'
  BY DEF Crowbar!Ready, Crowbar!Released, CbRearm
<1>6. QED
  BY <1>3, <1>4, <1>5

LEMMA CrowbarHolds == Spec => []Crowbar!IInv
<1>1. Init => Crowbar!IInv
  <2>1. Init => Crowbar!Init
    BY DEF Init, CbInit, CbZeroConfig, Crowbar!Init, Crowbar!CbInit, Crowbar!CbZeroConfig, Gates,
           Crowbar!Gates
  <2>2. QED
    BY <2>1, CrowbarAssumes, Crowbar!InitIInv
<1>2. Crowbar!IInv /\ [Next]_vars => Crowbar!IInv'
  <2> SUFFICES ASSUME Crowbar!IInv, [Next]_vars
               PROVE  Crowbar!IInv'
    OBVIOUS
  <2>1. Crowbar!Next \/ CbRearm \/ UNCHANGED cbVars
    BY CrowbarMoves DEF vars, engines
  <2>2. CASE Crowbar!Next \/ UNCHANGED cbVars
    <3>1. [Crowbar!Next]_(Crowbar!vars)
      BY <2>2 DEF cbVars, cbCtl, cbPath, Crowbar!vars, Crowbar!cbVars, Crowbar!cbCtl, Crowbar!cbPath
    <3>2. QED
      BY <3>1, CrowbarAssumes, Crowbar!NextIInv
  <2>3. QED
    BY <2>1, <2>2, RearmKeepsCrowbar
<1>3. QED
  BY <1>1, <1>2, PTL DEF Spec

\* In the whole firmware as well, with executor, shell and host at the engine: the
\* gate, its program and its mux are held together, never both gates are high, and
\* an engine in FIRED or ERROR drives neither.
CrowbarIsSafe ==
  /\ Crowbar!GateOwned
  /\ Crowbar!BreakBeforeMake
  /\ Crowbar!TerminalQuiet

THEOREM CrowbarStaysSafe == Spec => []CrowbarIsSafe
<1>1. Crowbar!IInv => CrowbarIsSafe
  BY CrowbarAssumes, Crowbar!OneGateOnly, Crowbar!NoGateDriven DEF Crowbar!IInv, CrowbarIsSafe
<1>2. QED
  BY <1>1, CrowbarHolds, PTL

-----------------------------------------------------------------------------
(* The EMFI engine in the firmware, with a history of the capacitor.  Here  *)
(* the loop in charge need not be one that polls this engine, so the part   *)
(* of EmfiProofs that counts polls is left out: polled is TRUE in it.       *)

VARIABLE capAge   \* age of the last moment the capacitor was charged

ChargeInit == capAge = Horizon

Remember ==
  \/ Capacitor /\ capAge' = 0
  \/ Elapse /\ capAge' = IF capCharged THEN 0 ELSE Older(capAge)
  \/ ~Capacitor /\ ~Elapse /\ UNCHANGED capAge

RememberedSpec == Spec /\ ChargeInit /\ [][Remember]_<<vars, capAge>>

AnyEmfiConfig == [trigger : Triggers, chargeTimeout : Nat, ok : BOOLEAN]

Emfi == INSTANCE EmfiProofs
          WITH EmfiConfigs <- AnyEmfiConfig, FireTimeouts <- Nat, polled <- TRUE

LEMMA EmfiAssumes ==
  /\ Emfi!EmfiAssumption
  /\ Emfi!HorizonAssumption
  /\ Emfi!AutoDisarmAssumption
  /\ Emfi!FireTimeoutsAssumption
  BY HorizonAssumption, EmfiAssumption, AutoDisarmAssumption
     DEF AnyEmfiConfig, Emfi!EmfiAssumption, Emfi!HorizonAssumption, Emfi!AutoDisarmAssumption,
         Emfi!FireTimeoutsAssumption, Triggers, Emfi!Triggers

\* The host's commands, as the engine by itself knows them.
EmfiCommands ==
  \/ \E c \in EmfiConfigs : EmfiConfigure(c)
  \/ EmfiArm
  \/ \E t \in Nat, room \in BOOLEAN : EmfiFire(t, room, capCharged)
  \/ EmfiDisarm

LEMMA SameEmfiError ==
  ASSUME NEW err, NEW claimed, EmfiError(err, claimed)
  PROVE  Emfi!EmfiError(err, claimed)
  BY DEF EmfiError, EmfiTeardown, HvDisarm, Emfi!EmfiError, Emfi!EmfiTeardown, Emfi!HvDisarm

LEMMA SameHvTick ==
  ASSUME HvTick
  PROVE  Emfi!HvTick
  BY DEF HvTick, HvExpired, HvDisarm, hvVars, Emfi!HvTick, Emfi!HvExpired, Emfi!HvDisarm,
         Emfi!hvVars

LEMMA SameEmfiCommands ==
  ASSUME EmfiCommands, UNCHANGED <<capCharged, capAge>>
  PROVE  Emfi!Host
<1> USE DEF emfiVars, emfiCtl, emfiPath, hvVars, Emfi!emfiVars, Emfi!emfiCtl, Emfi!emfiPath,
            Emfi!hvVars
<1>1. UNCHANGED Emfi!environment
  BY DEF Emfi!environment
<1>2. ASSUME NEW c \in EmfiConfigs, EmfiConfigure(c)
      PROVE  Emfi!Host
  <2>1. c \in AnyEmfiConfig
    BY EmfiAssumption DEF AnyEmfiConfig
  <2>2. Emfi!EmfiConfigure(c)
    BY <1>2 DEF EmfiConfigure, Emfi!EmfiConfigure
  <2>3. QED
    BY <1>1, <2>1, <2>2 DEF Emfi!Host
<1>3. CASE EmfiArm
  <2>1. Emfi!EmfiArm
    BY <1>3, SameEmfiError DEF EmfiArm, HvArm, Emfi!EmfiArm, Emfi!HvArm
  <2>2. QED
    BY <1>1, <2>1 DEF Emfi!Host
<1>4. ASSUME NEW t \in Nat, NEW room \in BOOLEAN, EmfiFire(t, room, capCharged)
      PROVE  Emfi!Host
  <2>1. Emfi!EmfiFire(t, room, capCharged)
    BY <1>4, SameEmfiError
       DEF EmfiFire, EmfiFresh, EmfiStartPath, Emfi!EmfiFire, Emfi!EmfiFresh, Emfi!EmfiStartPath
  <2>2. QED
    BY <1>1, <2>1 DEF Emfi!Host
<1>5. CASE EmfiDisarm
  <2>1. Emfi!EmfiDisarm
    BY <1>5 DEF EmfiDisarm, EmfiTeardown, HvDisarm, Emfi!EmfiDisarm, Emfi!EmfiTeardown,
                Emfi!HvDisarm
  <2>2. QED
    BY <1>1, <2>1 DEF Emfi!Host
<1>6. QED
  BY <1>2, <1>3, <1>4, <1>5 DEF EmfiCommands

LEMMA SameEmfiTick ==
  ASSUME EmfiTick(capCharged), UNCHANGED <<capCharged, capAge>>
  PROVE  Emfi!Poll
<1> USE SameHvTick, SameEmfiError
    DEF emfiVars, emfiCtl, emfiPath, Emfi!emfiVars, Emfi!emfiCtl, Emfi!emfiPath
<1>1. EmfiTickArming(capCharged) => Emfi!EmfiTickArming(capCharged)
  BY DEF EmfiTickArming, EmfiChargeTimedOut, Emfi!EmfiTickArming, Emfi!EmfiChargeTimedOut
<1>2. EmfiTickCharged(capCharged) => Emfi!EmfiTickCharged(capCharged)
  BY DEF EmfiTickCharged, Emfi!EmfiTickCharged
<1>3. EmfiTickWaiting => Emfi!EmfiTickWaiting
  BY DEF EmfiTickWaiting, EmfiDone, EmfiTriggerTimedOut, EmfiTeardown, HvDisarm,
         Emfi!EmfiTickWaiting, Emfi!EmfiDone, Emfi!EmfiTriggerTimedOut, Emfi!EmfiTeardown,
         Emfi!HvDisarm
<1>4. Emfi!EmfiTick(capCharged)
  BY <1>1, <1>2, <1>3 DEF EmfiTick, EmfiTimed, Emfi!EmfiTick, Emfi!EmfiTimed
<1>5. QED
  BY <1>4 DEF Emfi!Poll

LEMMA SameButtons ==
  ASSUME ButtonArm \/ ButtonPulse(capCharged), UNCHANGED <<capCharged, capAge>>
  PROVE  Emfi!Buttons
  BY DEF ButtonArm, ButtonPulse, HvArm, HvDisarm, emfiVars, emfiCtl, emfiPath, Emfi!Buttons,
         Emfi!ButtonArm, Emfi!ButtonPulse, Emfi!HvArm, Emfi!HvDisarm, Emfi!emfiVars,
         Emfi!emfiCtl, Emfi!emfiPath, Emfi!environment

LEMMA SameEmfiPioStep ==
  ASSUME EmfiPioStep, UNCHANGED <<capCharged, capAge>>
  PROVE  Emfi!PioStep
  BY DEF EmfiPioStep, NextPhase, emfiCtl, hvVars, Emfi!PioStep, Emfi!EmfiPioStep,
         Emfi!NextPhase, Emfi!emfiCtl, Emfi!hvVars, Emfi!environment

LEMMA SameTime ==
  ASSUME Elapse, Remember
  PROVE  Emfi!TimePasses
<1>1. ~Capacitor
  BY DEF Elapse, Capacitor
<1>2. capAge' = IF capCharged THEN 0 ELSE Older(capAge)
  BY <1>1 DEF Remember
<1>3. QED
  BY <1>2 DEF Elapse, EmfiElapse, HvElapse, Older, EmfiTimed, emfiPath, Emfi!TimePasses,
              Emfi!EmfiElapse, Emfi!HvElapse, Emfi!Older, Emfi!EmfiTimed, Emfi!emfiPath

LEMMA SameCapacitor ==
  ASSUME Capacitor, Remember, capCharged \in BOOLEAN
  PROVE  Emfi!Capacitor
<1>1. ~Elapse
  BY DEF Elapse, Capacitor
<1>2. capAge' = 0
  BY <1>1 DEF Remember
<1>3. QED
  BY <1>2 DEF Capacitor, engines, emfiVars, emfiCtl, emfiPath, hvVars, Emfi!Capacitor,
              Emfi!emfiVars, Emfi!emfiCtl, Emfi!emfiPath, Emfi!hvVars

\* Only the capacitor and the clock touch the charge or its history.
LEMMA OthersLeaveCharge ==
  ASSUME Next, Remember, ~Capacitor, ~Elapse
  PROVE  UNCHANGED <<capCharged, capAge>>
<1>1. UNCHANGED capAge
  BY DEF Remember
<1>2. UNCHANGED capCharged
  BY DEF Next, HostCampaign, HostEmfi, HostCrowbar, MainPass, Buttons, Executor, ExecBegin,
         ExecCharge, ExecFireCall, ExecFire, ExecWait, ExecReturn, PioStep, world
<1>3. QED
  BY <1>1, <1>2

\* Whoever is at work, the engine is commanded, polled or rearmed, a button is
\* pressed, or the hardware moves.
LEMMA EmfiMoves ==
  ASSUME Next
  PROVE  \/ EmfiCommands
         \/ EmfiTick(capCharged)
         \/ ButtonArm \/ ButtonPulse(capCharged)
         \/ EmfiPioStep
         \/ EmfiRearm
         \/ Elapse
         \/ UNCHANGED <<emfiVars, hvVars>>
<1>1. FireTimeouts \subseteq Nat /\ FireWait \in Nat /\ EmfiRoom \in BOOLEAN
  BY FirmwareAssumption DEF EmfiRoom
<1>2. CASE HostCampaign
  BY <1>2 DEF HostCampaign, StopHook, engines, EmfiCommands
<1>3. CASE HostEmfi
  BY <1>1, <1>3 DEF HostEmfi, EmfiCommands
<1>4. CASE MainPass \/ ExecCharge
  BY <1>4 DEF MainPass, ExecCharge
<1>5. CASE Buttons
  BY <1>5 DEF Buttons
<1>6. CASE ExecBegin
  BY <1>6 DEF ExecBegin, engines
<1>7. CASE ExecFireCall
  BY <1>1, <1>7 DEF ExecFireCall, EmfiCommands
<1>8. CASE ExecFire
  BY <1>8 DEF ExecFire, EmfiCommands
<1>9. CASE ExecReturn
  BY <1>9 DEF ExecReturn, StopHook, engines, EmfiCommands
<1>10. CASE PioStep
  BY <1>10 DEF PioStep
<1>11. CASE HostCrowbar \/ ExecWait \/ Capacitor
  BY <1>11 DEF HostCrowbar, ExecWait, Capacitor, engines
<1>12. CASE Elapse
  BY <1>12
<1>13. QED
  BY <1>2, <1>3, <1>4, <1>5, <1>6, <1>7, <1>8, <1>9, <1>10, <1>11, <1>12 DEF Next, Executor

LEMMA RearmKeepsEmfi ==
  ASSUME Emfi!IInv, EmfiRearm, UNCHANGED <<capCharged, capAge>>
  PROVE  Emfi!IInv'
<1>1. emfiCfg.trigger \in Triggers
  BY DEF Emfi!IInv, Emfi!TypeOK, AnyEmfiConfig, Emfi!EmfiZeroConfig, Triggers
<1>2. emfiCfg' \in AnyEmfiConfig /\ emfiCfg'.ok
  BY <1>1, FirmwareAssumption DEF EmfiRearm, AnyEmfiConfig
<1>3. Emfi!TypeOK'
  BY <1>2, EmfiAssumes
     DEF Emfi!HorizonAssumption, Emfi!IInv, Emfi!TypeOK, EmfiRearm, emfiPath, HvArm,
         Emfi!EmfiStates, Emfi!EmfiErrors, Emfi!Age
<1>4. Emfi!FirePathOwned'
  BY DEF Emfi!IInv, Emfi!FirePathOwned, EmfiRearm, emfiPath
<1>5. Emfi!Released' /\ Emfi!StampIsHonest'
  BY DEF Emfi!IInv, Emfi!Released, Emfi!StampIsHonest, EmfiRearm
<1>6. QED
  BY <1>3, <1>4, <1>5 DEF Emfi!IInv

LEMMA StutterKeepsEmfi ==
  ASSUME Emfi!IInv, UNCHANGED <<emfiVars, hvVars, capCharged, capAge>>
  PROVE  Emfi!IInv'
<1>1. UNCHANGED <<Emfi!emfiVars, capCharged, capAge>>
  BY DEF emfiVars, emfiCtl, emfiPath, Emfi!emfiVars, Emfi!emfiCtl, Emfi!emfiPath
<1>2. hvArmed' \in BOOLEAN /\ hvAge' \in Emfi!Age
  BY DEF Emfi!IInv, Emfi!TypeOK, hvVars
<1>3. QED
  BY <1>1, <1>2, EmfiAssumes, Emfi!StutterKeepsIInv

LEMMA NextKeepsEmfi ==
  ASSUME Emfi!IInv, Next, Remember
  PROVE  Emfi!IInv'
<1>1. CASE Capacitor
  <2>1. Emfi!Capacitor
    BY <1>1, SameCapacitor DEF Emfi!IInv, Emfi!TypeOK
  <2>2. QED
    BY <2>1, EmfiAssumes, Emfi!CapacitorKeepsIInv
<1>2. CASE Elapse
  BY <1>2, SameTime, EmfiAssumes, Emfi!TimeKeepsIInv
<1>3. CASE ~Capacitor /\ ~Elapse
  <2>1. UNCHANGED <<capCharged, capAge>>
    BY <1>3, OthersLeaveCharge
  <2>2. CASE EmfiCommands
    BY <2>1, <2>2, SameEmfiCommands, EmfiAssumes, Emfi!HostKeepsIInv
  <2>3. CASE EmfiTick(capCharged)
    BY <2>1, <2>3, SameEmfiTick, EmfiAssumes, Emfi!PollKeepsIInv
  <2>4. CASE ButtonArm \/ ButtonPulse(capCharged)
    BY <2>1, <2>4, SameButtons, EmfiAssumes, Emfi!ButtonsKeepIInv
  <2>5. CASE EmfiPioStep
    BY <2>1, <2>5, SameEmfiPioStep, EmfiAssumes, Emfi!PioStepKeepsIInv
  <2>6. CASE EmfiRearm
    BY <2>1, <2>6, RearmKeepsEmfi
  <2>7. CASE UNCHANGED <<emfiVars, hvVars>>
    BY <2>1, <2>7, StutterKeepsEmfi
  <2>8. QED
    BY <1>3, <2>2, <2>3, <2>4, <2>5, <2>6, <2>7, EmfiMoves
<1>4. QED
  BY <1>1, <1>2, <1>3

LEMMA EmfiHolds == RememberedSpec => []Emfi!IInv
<1>1. Init /\ ChargeInit => Emfi!IInv
  <2> SUFFICES ASSUME Init, ChargeInit
               PROVE  Emfi!IInv
    OBVIOUS
  <2>1. Horizon \in Emfi!Age /\ 0 \in Emfi!Age
    BY HorizonAssumption DEF Emfi!Age
  <2>2. Emfi!TypeOK
    BY <2>1 DEF Init, ChargeInit, EmfiInit, HvInit, EmfiZeroConfig, Emfi!TypeOK,
       Emfi!EmfiZeroConfig, Emfi!EmfiStates, Emfi!EmfiErrors, Emfi!Phases
  <2>3. Emfi!FirePathOwned /\ Emfi!Released /\ Emfi!StampIsHonest
    BY DEF Init, EmfiInit, Emfi!FirePathOwned, Emfi!Released, Emfi!StampIsHonest
  <2>4. QED
    BY <2>2, <2>3 DEF Emfi!IInv
<1>2. Emfi!IInv /\ [Next]_vars /\ [Remember]_<<vars, capAge>> => Emfi!IInv'
  <2> SUFFICES ASSUME Emfi!IInv, [Next]_vars, [Remember]_<<vars, capAge>>
               PROVE  Emfi!IInv'
    OBVIOUS
  <2>1. CASE UNCHANGED vars
    <3>1. ~Capacitor /\ ~Elapse
      BY <2>1 DEF vars, world, Capacitor, Elapse, Emfi!IInv, Emfi!TypeOK
    <3>2. UNCHANGED <<emfiVars, hvVars, capCharged, capAge>>
      BY <2>1, <3>1 DEF Remember, vars, engines, world
    <3>3. QED
      BY <3>2, StutterKeepsEmfi
  <2>2. CASE Next /\ ~UNCHANGED vars
    BY <2>2, NextKeepsEmfi
  <2>3. QED
    BY <2>1, <2>2
<1>3. QED
  BY <1>1, <1>2, PTL DEF RememberedSpec, Spec

\* In the whole firmware as well, with executor, shell, buttons and host at the
\* engine: SM 0, its program, GP14 and the ADC are held together, and an engine in
\* FIRED or ERROR drives nothing.
EmfiIsSafe == Emfi!FirePathOwned /\ Emfi!TerminalQuiet

THEOREM EmfiStaysSafe == RememberedSpec => []EmfiIsSafe
<1>1. Emfi!IInv => EmfiIsSafe
  BY EmfiAssumes, Emfi!NoPulseDriven DEF Emfi!IInv, EmfiIsSafe
<1>2. QED
  BY <1>1, EmfiHolds, PTL

\* SAFETY.md invariant 5, for every fire of the firmware: the executor's, which comes
\* right after the charge, as much as one a host sends long after it.
EveryFireIsFresh ==
  [][(emfiState # "WAITING" /\ emfiState' = "WAITING") => capAge <= Stale]_<<vars, capAge>>

THEOREM FiresAreFresh == RememberedSpec => EveryFireIsFresh
<1>1. Emfi!IInv /\ [Next]_vars /\ [Remember]_<<vars, capAge>> =>
        [(emfiState # "WAITING" /\ emfiState' = "WAITING") => capAge <= Stale]_<<vars, capAge>>
  <2> SUFFICES ASSUME Emfi!IInv, Next, Remember, emfiState # "WAITING", emfiState' = "WAITING"
               PROVE  capAge <= Stale
    BY DEF vars, engines, emfiVars, emfiCtl
  <2>1. ~Capacitor /\ ~Elapse /\ ~UNCHANGED emfiVars
    BY DEF Capacitor, Elapse, EmfiElapse, engines, emfiVars, emfiCtl
  <2>2. UNCHANGED <<capCharged, capAge>>
    BY <2>1, OthersLeaveCharge
  <2>3. EmfiCommands \/ EmfiTick(capCharged)
    BY <2>1, EmfiMoves DEF ButtonArm, ButtonPulse, EmfiPioStep, EmfiRearm, emfiCtl
  <2>4. Emfi!Host \/ Emfi!Poll
    BY <2>2, <2>3, SameEmfiCommands, SameEmfiTick
  <2>5. QED
    BY <2>4, EmfiAssumes, Emfi!FiresFresh
<1>2. QED
  BY <1>1, EmfiHolds, PTL DEF RememberedSpec, Spec, EveryFireIsFresh

\* Wherever the engine reaches FIRED or ERROR, the charger is off with that step.
FiringDisarms ==
  [][(emfiState' # emfiState /\ emfiState' \in {"FIRED", "ERROR"}) => ~hvArmed']_vars

THEOREM EveryTerminalDisarms == Spec => FiringDisarms
<1>1. [Next]_vars =>
        [(emfiState' # emfiState /\ emfiState' \in {"FIRED", "ERROR"}) => ~hvArmed']_vars
  <2> SUFFICES ASSUME Next, emfiState' # emfiState, emfiState' \in {"FIRED", "ERROR"}
               PROVE  ~hvArmed'
    OBVIOUS
  <2>1. EmfiCommands \/ EmfiTick(capCharged)
    BY EmfiMoves
       DEF ButtonArm, ButtonPulse, EmfiPioStep, EmfiRearm, Elapse, EmfiElapse, emfiVars, emfiCtl
  <2>2. PICK claimed \in BOOLEAN \cup {emfiClaimed} : EmfiTeardown(claimed)
    BY <2>1 DEF EmfiCommands, EmfiConfigure, EmfiArm, EmfiFire, EmfiError, EmfiDisarm, EmfiTick,
           EmfiTickArming, EmfiTickCharged, EmfiTickWaiting, emfiVars, emfiCtl
  <2>3. QED
    BY <2>2 DEF EmfiTeardown, HvDisarm
<1>2. QED
  BY <1>1, PTL DEF Spec, FiringDisarms
=============================================================================
