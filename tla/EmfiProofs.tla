----------------------------- MODULE EmfiProofs -----------------------------
(***************************************************************************)
(* Proofs about the EMFI engine and the charger, for every set of          *)
(* configurations, every trigger timeout, every staleness bound, every     *)
(* auto-disarm period and every clock horizon.                             *)
(***************************************************************************)
EXTENDS EmfiFirePath, TLAPS

Released == emfiState \in {"FIRED", "ERROR"} => ~emfiClaimed

\* The engine's stamp of the last charge it saw is never younger than the charge.
StampIsHonest ==
  /\ capCharged => capAge = 0
  /\ emfiState = "CHARGED" => capAge <= emfiAge

IInv == TypeOK /\ FirePathOwned /\ Released /\ StampIsHonest

\* The safety net keeps ahead of the clock: right after a poll there is time left.
SafetyNet ==
  /\ hvArmed => hvAge <= AutoDisarm
  /\ hvArmed /\ polled => hvAge < AutoDisarm

-----------------------------------------------------------------------------
(* Lemmas.                                                                  *)

LEMMA AgeZero == 0 \in Age
  BY HorizonAssumption DEF Age

LEMMA OlderAge ==
  ASSUME NEW a \in Age
  PROVE  Older(a) \in Age /\ Older(a) <= a + 1
  BY HorizonAssumption DEF Age, Older

\* Two stamps that grow old together keep their order.
LEMMA OlderKeepsOrder ==
  ASSUME NEW a \in Age, NEW b \in Age, a <= b
  PROVE  Older(a) <= Older(b)
  BY HorizonAssumption DEF Age, Older

\* A teardown that is told whether the state machine is held leaves nothing of the
\* fire path behind, and the charger disarmed.
LEMMA TeardownReleases ==
  ASSUME TypeOK, FirePathOwned, NEW claimed \in BOOLEAN, emfiClaimed => claimed,
         EmfiTeardown(claimed)
  PROVE  /\ emfiClaimed' = FALSE
         /\ emfiLoaded' = FALSE
         /\ emfiAttached' = FALSE
         /\ capturing' = FALSE
         /\ gp14Fn' = "SIO"
         /\ sm0' = "OFF"
         /\ irq0' = FALSE
         /\ gp14Latch' = gp14Latch
         /\ hvArmed' = FALSE
         /\ hvAge' = 0
<1>1. ~claimed => ~emfiLoaded /\ sm0 = "OFF" /\ irq0 = FALSE
  BY DEF FirePathOwned, TypeOK
<1>2. ~emfiAttached => gp14Fn = "SIO"
  BY DEF FirePathOwned, TypeOK
<1>3. QED
  BY <1>1, <1>2 DEF EmfiTeardown, HvDisarm

\* The engine's part of the invariant holds wherever a teardown leads out of
\* WAITING and CHARGED.
LEMMA ReleasedIInv ==
  ASSUME IInv,
         NEW claimed \in BOOLEAN, emfiClaimed => claimed, EmfiTeardown(claimed),
         emfiState' \in {"IDLE", "FIRED", "ERROR"}, emfiErr' \in EmfiErrors, emfiAge' = 0,
         UNCHANGED <<emfiCfg, emfiCfgValid, emfiTimeout, capCharged, capAge>>,
         polled' \in BOOLEAN
  PROVE  IInv'
<1>1. /\ emfiClaimed' = FALSE
      /\ emfiLoaded' = FALSE
      /\ emfiAttached' = FALSE
      /\ capturing' = FALSE
      /\ gp14Fn' = "SIO"
      /\ sm0' = "OFF"
      /\ irq0' = FALSE
      /\ gp14Latch' = gp14Latch
      /\ hvArmed' = FALSE
      /\ hvAge' = 0
  BY TeardownReleases DEF IInv
<1>2. TypeOK'
  BY <1>1, AgeZero DEF IInv, TypeOK, EmfiStates, Phases
<1>3. FirePathOwned'
  BY <1>1 DEF FirePathOwned
<1>4. QED
  BY <1>1, <1>2, <1>3 DEF IInv, Released, StampIsHonest

LEMMA HvTickType ==
  ASSUME TypeOK, HvTick
  PROVE  hvArmed' \in BOOLEAN /\ hvAge' \in Age
  BY AgeZero DEF TypeOK, HvTick, HvDisarm, hvVars

-----------------------------------------------------------------------------
(* The inductive invariant.                                                 *)

THEOREM InitIInv == Init => IInv
<1> SUFFICES ASSUME Init
             PROVE  IInv
  OBVIOUS
<1> USE DEF Init, EmfiInit, HvInit
<1>1. TypeOK
  <2>1. Horizon \in Age
    BY HorizonAssumption DEF Age
  <2>2. emfiCfg.ok
    BY DEF EmfiZeroConfig
  <2>3. QED
    BY <2>1, <2>2, AgeZero DEF TypeOK, EmfiStates, EmfiErrors, Phases
<1>2. FirePathOwned
  BY DEF FirePathOwned
<1>3. QED
  BY <1>1, <1>2 DEF IInv, Released, StampIsHonest

LEMMA StutterKeepsIInv ==
  ASSUME IInv, UNCHANGED <<emfiVars, capCharged, capAge>>,
         hvArmed' \in BOOLEAN, hvAge' \in Age, polled' \in BOOLEAN
  PROVE  IInv'
  BY DEF IInv, TypeOK, FirePathOwned, Released, StampIsHonest, emfiVars, emfiCtl, emfiPath

LEMMA FireKeepsIInv ==
  ASSUME IInv, UNCHANGED environment,
         NEW t \in FireTimeouts, NEW room \in BOOLEAN, EmfiFire(t, room, capCharged)
  PROVE  IInv'
<1>1. polled' \in BOOLEAN /\ UNCHANGED <<capCharged, capAge>>
  BY DEF IInv, TypeOK, environment
<1>2. CASE UNCHANGED <<emfiVars, hvVars>>
  BY <1>1, <1>2, StutterKeepsIInv DEF IInv, TypeOK, hvVars
<1>3. CASE EmfiError("HV_NOT_CHARGED", emfiClaimed)
  BY <1>1, <1>3, ReleasedIInv DEF EmfiError, EmfiErrors, IInv, TypeOK
<1>4. CASE EmfiError("PIO_FAULT", TRUE)
  BY <1>1, <1>4, ReleasedIInv DEF EmfiError, EmfiErrors
<1>5. CASE /\ EmfiStartPath
           /\ emfiState' = "WAITING"
           /\ emfiAge' = 0
           /\ emfiTimeout' = t
           /\ UNCHANGED <<emfiErr, emfiCfg, emfiCfgValid, hvVars>>
  <2>1. TypeOK'
    BY <1>1, <1>5, AgeZero DEF IInv, TypeOK, EmfiStartPath, EmfiStates, Phases, hvVars
  <2>2. FirePathOwned'
    BY <1>5 DEF FirePathOwned, EmfiStartPath
  <2>3. QED
    BY <1>1, <1>5, <2>1, <2>2 DEF IInv, Released, StampIsHonest
<1>6. QED
  BY <1>2, <1>3, <1>4, <1>5 DEF EmfiFire

LEMMA HostKeepsIInv ==
  ASSUME IInv, Host
  PROVE  IInv'
<1>1. polled' \in BOOLEAN /\ UNCHANGED <<capCharged, capAge>>
  BY DEF IInv, TypeOK, Host, environment
<1>2. ASSUME NEW c \in EmfiConfigs, EmfiConfigure(c)
      PROVE  IInv'
  <2>1. CASE c.ok
    <3>1. TypeOK'
      BY <1>1, <1>2, <2>1, AgeZero
         DEF IInv, TypeOK, EmfiConfigure, EmfiStates, EmfiErrors, emfiPath, hvVars
    <3>2. FirePathOwned'
      BY <1>2, <2>1 DEF IInv, FirePathOwned, EmfiConfigure, emfiPath
    <3>3. QED
      BY <1>1, <1>2, <2>1, <3>1, <3>2 DEF IInv, Released, StampIsHonest, EmfiConfigure
  <2>2. CASE ~c.ok
    BY <1>1, <1>2, <2>2, StutterKeepsIInv DEF EmfiConfigure, IInv, TypeOK, hvVars
  <2>3. QED
    BY <2>1, <2>2
<1>3. CASE EmfiArm
  <2>1. CASE EmfiError("BAD_CONFIG", emfiClaimed)
    BY <1>1, <2>1, ReleasedIInv DEF EmfiError, EmfiErrors, IInv, TypeOK
  <2>2. CASE UNCHANGED <<emfiVars, hvVars>>
    BY <1>1, <2>2, StutterKeepsIInv DEF IInv, TypeOK, hvVars
  <2>3. CASE /\ HvArm
             /\ emfiState' = "ARMING"
             /\ emfiErr' = "NONE"
             /\ emfiAge' = 0
             /\ UNCHANGED <<emfiCfg, emfiCfgValid, emfiTimeout, emfiPath>>
    <3>1. TypeOK'
      BY <1>1, <2>3, AgeZero DEF IInv, TypeOK, HvArm, EmfiStates, EmfiErrors, emfiPath
    <3>2. FirePathOwned'
      BY <2>3 DEF IInv, FirePathOwned, emfiPath
    <3>3. QED
      BY <1>1, <2>3, <3>1, <3>2 DEF IInv, Released, StampIsHonest
  <2>4. QED
    BY <1>3, <2>1, <2>2, <2>3 DEF EmfiArm
<1>4. ASSUME NEW t \in FireTimeouts, NEW room \in BOOLEAN, EmfiFire(t, room, capCharged)
      PROVE  IInv'
  BY <1>4, FireKeepsIInv DEF Host
<1>5. CASE EmfiDisarm
  BY <1>1, <1>5, ReleasedIInv DEF EmfiDisarm, EmfiErrors, IInv, TypeOK
<1>6. QED
  BY <1>2, <1>3, <1>4, <1>5 DEF Host

LEMMA PollKeepsIInv ==
  ASSUME IInv, Poll
  PROVE  IInv'
<1>1. polled' \in BOOLEAN /\ UNCHANGED <<capCharged, capAge>>
  BY DEF Poll
<1>2. CASE HvTick /\ UNCHANGED emfiVars
  BY <1>1, <1>2, HvTickType, StutterKeepsIInv DEF IInv
<1>3. CASE EmfiTickArming(capCharged)
  <2>1. CASE /\ capCharged
             /\ emfiState' = "CHARGED"
             /\ emfiAge' = 0
             /\ HvTick
             /\ UNCHANGED <<emfiErr, emfiCfg, emfiCfgValid, emfiTimeout, emfiPath>>
    <3>1. hvArmed' \in BOOLEAN /\ hvAge' \in Age
      BY <2>1, HvTickType DEF IInv
    <3>2. TypeOK'
      BY <1>1, <2>1, <3>1, AgeZero DEF IInv, TypeOK, EmfiStates, emfiPath
    <3>3. FirePathOwned'
      BY <2>1 DEF IInv, FirePathOwned, emfiPath
    <3>4. StampIsHonest'
      BY <1>1, <2>1 DEF IInv, StampIsHonest
    <3>5. QED
      BY <2>1, <3>2, <3>3, <3>4 DEF IInv, Released
  <2>2. CASE EmfiError("HV_NOT_CHARGED", emfiClaimed)
    BY <1>1, <2>2, ReleasedIInv DEF EmfiError, EmfiErrors, IInv, TypeOK
  <2>3. QED
    BY <1>2, <1>3, <2>1, <2>2 DEF EmfiTickArming
<1>4. CASE EmfiTickCharged(capCharged)
  <2>1. hvArmed' \in BOOLEAN /\ hvAge' \in Age
    BY <1>4, HvTickType DEF IInv, EmfiTickCharged
  <2>2. TypeOK'
    BY <1>1, <1>4, <2>1, AgeZero DEF IInv, TypeOK, EmfiTickCharged, emfiPath
  <2>3. FirePathOwned'
    BY <1>4 DEF IInv, FirePathOwned, EmfiTickCharged, emfiPath
  <2>4. StampIsHonest'
    BY <1>1, <1>4 DEF IInv, StampIsHonest, EmfiTickCharged
  <2>5. QED
    BY <1>4, <2>2, <2>3, <2>4 DEF IInv, Released, EmfiTickCharged
<1>5. CASE EmfiTickWaiting
  <2>1. CASE /\ EmfiTeardown(emfiClaimed)
             /\ emfiState' = "FIRED"
             /\ emfiAge' = 0
             /\ UNCHANGED <<emfiErr, emfiCfg, emfiCfgValid, emfiTimeout>>
    BY <1>1, <2>1, ReleasedIInv DEF IInv, TypeOK
  <2>2. CASE EmfiError("TRIGGER_TIMEOUT", emfiClaimed)
    BY <1>1, <2>2, ReleasedIInv DEF EmfiError, EmfiErrors, IInv, TypeOK
  <2>3. QED
    BY <1>2, <1>5, <2>1, <2>2 DEF EmfiTickWaiting
<1>6. QED
  BY <1>2, <1>3, <1>4, <1>5 DEF Poll, EmfiTick

LEMMA ButtonsKeepIInv ==
  ASSUME IInv, Buttons
  PROVE  IInv'
<1>1. UNCHANGED <<emfiVars, capCharged, capAge>> /\ polled' \in BOOLEAN
  BY DEF Buttons, ButtonArm, ButtonPulse, environment, IInv, TypeOK
<1>2. hvArmed' \in BOOLEAN /\ hvAge' \in Age
  BY AgeZero DEF Buttons, ButtonArm, ButtonPulse, HvArm, HvDisarm
<1>3. QED
  BY <1>1, <1>2, StutterKeepsIInv

LEMMA PioStepKeepsIInv ==
  ASSUME IInv, PioStep
  PROVE  IInv'
<1>1. PICK p \in NextPhase(sm0) :
        /\ sm0' = p
        /\ gp14Latch' = (p = "HIGH")
        /\ irq0' = (irq0 \/ p = "DONE")
        /\ UNCHANGED <<emfiCtl, emfiClaimed, emfiLoaded, emfiAttached, gp14Fn, capturing, hvVars>>
  BY DEF PioStep, EmfiPioStep
<1>2. sm0 \in {"WAIT", "HIGH", "GAP"} /\ p \in {"HIGH", "GAP", "DONE"}
  BY <1>1 DEF NextPhase
<1>3. irq0' = (sm0' = "DONE") /\ irq0' \in BOOLEAN /\ gp14Latch' \in BOOLEAN
  BY <1>1, <1>2 DEF IInv, FirePathOwned
<1>4. UNCHANGED environment
  BY DEF PioStep
<1>5. TypeOK'
  BY <1>1, <1>2, <1>3, <1>4 DEF IInv, TypeOK, Phases, emfiCtl, hvVars, environment
<1>6. FirePathOwned'
  BY <1>1, <1>2, <1>3 DEF IInv, FirePathOwned, emfiCtl
<1>7. QED
  BY <1>1, <1>4, <1>5, <1>6 DEF IInv, Released, StampIsHonest, emfiCtl, environment

\* A time unit passes, whoever polls the engine.
TimePasses ==
  /\ EmfiElapse
  /\ HvElapse
  /\ capAge' = IF capCharged THEN 0 ELSE Older(capAge)
  /\ UNCHANGED capCharged

LEMMA TimeKeepsIInv ==
  ASSUME IInv, TimePasses, polled' \in BOOLEAN
  PROVE  IInv'
<1>1. emfiAge \in Age /\ hvAge \in Age /\ capAge \in Age
  BY DEF IInv, TypeOK
<1>2. emfiAge' \in Age /\ hvAge' \in Age /\ capAge' \in Age
  BY <1>1, AgeZero, OlderAge DEF TimePasses, EmfiElapse, HvElapse
<1>3. TypeOK'
  BY <1>2 DEF IInv, TypeOK, TimePasses, EmfiElapse, HvElapse, emfiPath
<1>4. FirePathOwned'
  BY DEF IInv, FirePathOwned, TimePasses, EmfiElapse, emfiPath
<1>5. StampIsHonest'
  <2>1. capCharged' => capAge' = 0
    BY DEF TimePasses
  <2>2. ASSUME emfiState' = "CHARGED"
        PROVE  capAge' <= emfiAge'
    <3>1. emfiState = "CHARGED" /\ emfiAge' = Older(emfiAge) /\ capAge <= emfiAge
      BY <2>2 DEF TimePasses, EmfiElapse, EmfiTimed, IInv, StampIsHonest
    <3>2. CASE capCharged
      BY <1>2, <3>2 DEF TimePasses, Age
    <3>3. CASE ~capCharged
      BY <1>1, <3>1, <3>3, OlderKeepsOrder DEF TimePasses
    <3>4. QED
      BY <3>2, <3>3
  <2>3. QED
    BY <2>1, <2>2 DEF StampIsHonest
<1>6. QED
  BY <1>3, <1>4, <1>5 DEF IInv, Released, TimePasses, EmfiElapse, emfiPath

LEMMA ElapseKeepsIInv ==
  ASSUME IInv, Elapse
  PROVE  IInv'
<1>1. TimePasses /\ polled' \in BOOLEAN
  BY DEF Elapse, TimePasses
<1>2. QED
  BY <1>1, TimeKeepsIInv

LEMMA CapacitorKeepsIInv ==
  ASSUME IInv, Capacitor
  PROVE  IInv'
<1>1. TypeOK'
  BY AgeZero DEF IInv, TypeOK, Capacitor, emfiVars, emfiCtl, emfiPath, hvVars
<1>2. FirePathOwned' /\ Released'
  BY DEF IInv, FirePathOwned, Released, Capacitor, emfiVars, emfiCtl, emfiPath
<1>3. StampIsHonest'
  BY DEF IInv, TypeOK, Age, StampIsHonest, Capacitor, emfiVars, emfiCtl
<1>4. QED
  BY <1>1, <1>2, <1>3 DEF IInv

THEOREM NextIInv == IInv /\ [Next]_vars => IInv'
<1> SUFFICES ASSUME IInv, [Next]_vars
             PROVE  IInv'
  OBVIOUS
<1>1. CASE UNCHANGED vars
  BY <1>1, StutterKeepsIInv DEF IInv, TypeOK, vars, environment, hvVars
<1>2. QED
  BY <1>1, HostKeepsIInv, PollKeepsIInv, ButtonsKeepIInv, PioStepKeepsIInv, ElapseKeepsIInv,
     CapacitorKeepsIInv DEF Next

THEOREM InductiveInvariant == Spec => []IInv
  BY InitIInv, NextIInv, PTL DEF Spec

-----------------------------------------------------------------------------
(* What follows from it.                                                    *)

\* The engine's variables keep their types whatever happens around it.
THEOREM TypeCorrect == Spec => []TypeOK
<1>1. IInv => TypeOK
  BY DEF IInv
<1>2. QED
  BY <1>1, InductiveInvariant, PTL

\* SM 0, its program, GP14, its mux and the ADC are owned together or not at all.
THEOREM FirePathIsOwned == Spec => []FirePathOwned
<1>1. IInv => FirePathOwned
  BY DEF IInv
<1>2. QED
  BY <1>1, InductiveInvariant, PTL

LEMMA NoPulseDriven == IInv => TerminalQuiet
  BY DEF IInv, Released, FirePathOwned, TerminalQuiet, Gp14High, TypeOK

\* An engine in FIRED or ERROR runs no program and does not drive GP14.
THEOREM TerminalIsQuiet == Spec => []TerminalQuiet
  BY NoPulseDriven, InductiveInvariant, PTL

\* Only fire() leads to WAITING, and only with a stamp or a look at GP18 behind it.
LEMMA FiresFresh ==
  ASSUME IInv, Host \/ Poll, emfiState # "WAITING", emfiState' = "WAITING"
  PROVE  capAge <= Stale
<1>1. PICK t \in FireTimeouts, room \in BOOLEAN : EmfiFire(t, room, capCharged)
  BY DEF Host, Poll, EmfiConfigure, EmfiArm, EmfiError, EmfiDisarm, EmfiTick, EmfiTickArming,
         EmfiTickCharged, EmfiTickWaiting, emfiVars, emfiCtl
<1>2. emfiState = "CHARGED" /\ EmfiFresh(capCharged)
  BY <1>1 DEF EmfiFire, EmfiError, emfiVars, emfiCtl
<1>3. capAge \in Nat /\ emfiAge \in Nat /\ Stale \in Nat
  BY EmfiAssumption DEF IInv, TypeOK, Age
<1>4. QED
  BY <1>2, <1>3 DEF EmfiFresh, IInv, StampIsHonest

\* A PIO fire starts only on a capacitor that really was charged Stale ago or less.
THEOREM FiresOnFreshCharge == Spec => FireOnFreshCharge
<1>1. IInv /\ [Next]_vars =>
        [(emfiState # "WAITING" /\ emfiState' = "WAITING") => capAge <= Stale]_vars
  <2> SUFFICES ASSUME IInv, Next, emfiState # "WAITING", emfiState' = "WAITING"
               PROVE  capAge <= Stale
    OBVIOUS
  <2>1. Host \/ Poll
    BY DEF Next, Buttons, PioStep, Capacitor, Elapse, ButtonArm, ButtonPulse, EmfiPioStep,
           EmfiElapse, emfiVars, emfiCtl
  <2>2. QED
    BY <2>1, FiresFresh
<1>2. QED
  BY <1>1, InductiveInvariant, PTL DEF Spec, FireOnFreshCharge

LEMMA TerminalsDisarm ==
  ASSUME Host \/ Poll, emfiState' # emfiState, emfiState' \in {"FIRED", "ERROR"}
  PROVE  ~hvArmed'
<1>1. \E claimed \in BOOLEAN \cup {emfiClaimed} : EmfiTeardown(claimed)
  BY DEF Host, Poll, EmfiConfigure, EmfiArm, EmfiFire, EmfiError, EmfiDisarm, EmfiTick,
         EmfiTickArming, EmfiTickCharged, EmfiTickWaiting, emfiVars, emfiCtl
<1>2. QED
  BY <1>1 DEF EmfiTeardown, HvDisarm

\* Reaching FIRED or ERROR disarms the charger in the same step.
THEOREM TerminalStepDisarms == Spec => TerminalDisarms
<1>1. [Next]_vars =>
        [(emfiState' # emfiState /\ emfiState' \in {"FIRED", "ERROR"}) => ~hvArmed']_vars
  <2> SUFFICES ASSUME Next, emfiState' # emfiState, emfiState' \in {"FIRED", "ERROR"}
               PROVE  ~hvArmed'
    OBVIOUS
  <2>1. Host \/ Poll
    BY DEF Next, Buttons, PioStep, Capacitor, Elapse, ButtonArm, ButtonPulse, EmfiPioStep,
           EmfiElapse, emfiVars, emfiCtl
  <2>2. QED
    BY <2>1, TerminalsDisarm
<1>2. QED
  BY <1>1, PTL DEF Spec, TerminalDisarms

-----------------------------------------------------------------------------
(* The charger's safety net.                                                *)

LEMMA InitSafetyNet == Init => SafetyNet
  BY DEF Init, HvInit, SafetyNet

LEMMA NextSafetyNet ==
  ASSUME AutoDisarm # 0, IInv, SafetyNet, [Next]_vars
  PROVE  SafetyNet'
<1> USE AutoDisarmAssumption
<1>1. hvAge \in Nat
  BY DEF IInv, TypeOK, Age
<1>2. ASSUME HvDisarm
      PROVE  SafetyNet'
  BY <1>2 DEF HvDisarm, SafetyNet
<1>3. ASSUME HvArm
      PROVE  SafetyNet'
  BY <1>3 DEF HvArm, SafetyNet
<1>4. ASSUME UNCHANGED <<hvVars, polled>>
      PROVE  SafetyNet'
  BY <1>4 DEF SafetyNet, hvVars
<1>5. ASSUME HvTick
      PROVE  SafetyNet'
  BY <1>1, <1>5 DEF HvTick, HvExpired, HvDisarm, SafetyNet, hvVars
<1>6. CASE Host
  BY <1>2, <1>3, <1>4, <1>6
     DEF Host, EmfiConfigure, EmfiArm, EmfiFire, EmfiDisarm, EmfiError, EmfiTeardown, environment
<1>7. CASE Poll
  BY <1>2, <1>5, <1>7
     DEF Poll, EmfiTick, EmfiTickArming, EmfiTickCharged, EmfiTickWaiting, EmfiError,
         EmfiTeardown
<1>8. CASE Buttons
  BY <1>2, <1>3, <1>8 DEF Buttons, ButtonArm, ButtonPulse
<1>9. CASE PioStep
  BY <1>4, <1>9 DEF PioStep, EmfiPioStep, environment
<1>10. CASE Capacitor
  BY <1>4, <1>10 DEF Capacitor
<1>11. CASE Elapse
  <2>1. hvAge \in Age /\ polled /\ ~polled' /\ hvArmed' = hvArmed
    BY <1>11 DEF Elapse, HvElapse, IInv, TypeOK
  <2>2. hvArmed => Older(hvAge) <= hvAge + 1
    BY <2>1, OlderAge
  <2>3. hvArmed => hvAge' = Older(hvAge)
    BY <1>11 DEF Elapse, HvElapse
  <2>4. Older(hvAge) \in Nat
    BY <2>1, OlderAge DEF Age
  <2>5. QED
    BY <1>1, <2>1, <2>2, <2>3, <2>4 DEF SafetyNet
<1>12. CASE UNCHANGED vars
  BY <1>4, <1>12 DEF vars, environment
<1>13. QED
  BY <1>6, <1>7, <1>8, <1>9, <1>10, <1>11, <1>12 DEF Next

\* With the safety net on and the main loop running, nobody leaves the charger
\* armed for longer than the auto-disarm period.
THEOREM ChargerNeverOverstays ==
  ASSUME AutoDisarm # 0
  PROVE  Spec => []HvNeverOverstays
<1>1. IInv /\ SafetyNet /\ [Next]_vars => SafetyNet'
  BY NextSafetyNet
<1>2. SafetyNet => HvNeverOverstays
  BY DEF SafetyNet, HvNeverOverstays
<1>3. QED
  BY <1>1, <1>2, InitSafetyNet, InductiveInvariant, PTL DEF Spec
=============================================================================
