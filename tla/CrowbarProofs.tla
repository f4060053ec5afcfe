---------------------------- MODULE CrowbarProofs ----------------------------
(***************************************************************************)
(* Proofs about the crowbar engine, for every set of configurations, every *)
(* trigger timeout and every clock horizon.                                *)
(***************************************************************************)
EXTENDS CrowbarFirePath, TLAPS

\* What GateOwned and TerminalQuiet need to be inductive: a state that can lead to
\* a fire has a valid configuration, so the gate it hands over is a real one.
Ready == cbState \in {"ARMED", "WAITING"} => cbCfgValid

Released == cbState \in {"FIRED", "ERROR"} => ~cbClaimed

IInv == TypeOK /\ GateOwned /\ Ready /\ Released

-----------------------------------------------------------------------------
(* Lemmas.                                                                  *)

\* A valid configuration names a real gate.
LEMMA ValidGate ==
  ASSUME TypeOK, cbCfgValid
  PROVE  cbCfg \in CbConfigs /\ cbCfg.out \in Gates
<1>1. CbZeroConfig.ok = FALSE
  BY DEF CbZeroConfig
<1>2. cbCfg \in CbConfigs
  BY <1>1 DEF TypeOK
<1>3. QED
  BY <1>2, CbAssumption

LEMMA GatesAreGates == "NONE" \notin Gates
  BY DEF Gates

LEMMA AllReleased == [g \in Gates |-> "SIO"] \in [Gates -> {"SIO", "PIO"}]
  OBVIOUS

LEMMA AgeZero == 0 \in Age
  BY HorizonAssumption DEF Age

LEMMA OlderAge ==
  ASSUME NEW a \in Age
  PROVE  Older(a) \in Age
  BY HorizonAssumption DEF Age, Older

\* A teardown that is told whether the state machine is held leaves nothing of the
\* fire path behind.
LEMMA TeardownReleases ==
  ASSUME TypeOK, GateOwned, NEW claimed \in BOOLEAN, cbClaimed => claimed,
         CbTeardown(claimed)
  PROVE  /\ cbClaimed' = FALSE
         /\ cbLoaded' = FALSE
         /\ cbOut' = "NONE"
         /\ sm1' = "OFF"
         /\ irq1' = FALSE
         /\ gateFn' = [g \in Gates |-> "SIO"]
         /\ gateLatch' = gateLatch
<1>1. CASE claimed
  <2>1. \A g \in Gates : g # cbOut => gateFn[g] = "SIO"
    BY DEF TypeOK, GateOwned
  <2>2. [g \in Gates |-> IF claimed /\ g = cbOut THEN "SIO" ELSE gateFn[g]]
          = [g \in Gates |-> "SIO"]
    BY <1>1, <2>1
  <2>3. QED
    BY <1>1, <2>2 DEF CbTeardown
<1>2. CASE ~claimed
  <2>1. ~cbClaimed /\ ~cbLoaded /\ cbOut = "NONE" /\ sm1 = "OFF" /\ irq1 = FALSE
    BY <1>2 DEF GateOwned, TypeOK
  <2>2. \A g \in Gates : gateFn[g] = "SIO"
    BY <2>1, GatesAreGates DEF TypeOK, GateOwned
  <2>3. [g \in Gates |-> IF claimed /\ g = cbOut THEN "SIO" ELSE gateFn[g]]
          = [g \in Gates |-> "SIO"]
    BY <1>2, <2>2
  <2>4. QED
    BY <1>2, <2>1, <2>3 DEF CbTeardown
<1>3. QED
  BY <1>1, <1>2

\* The invariant holds wherever the fire path is released.
LEMMA ReleasedPath ==
  ASSUME cbClaimed' = FALSE, cbLoaded' = FALSE, cbOut' = "NONE", sm1' = "OFF",
         irq1' = FALSE, gateFn' = [g \in Gates |-> "SIO"], cbState' # "WAITING"
  PROVE  GateOwned'
  BY GatesAreGates DEF GateOwned

LEMMA ErrorKeepsIInv ==
  ASSUME IInv, NEW err \in CbErrors, NEW claimed \in BOOLEAN, cbClaimed => claimed,
         CbError(err, claimed)
  PROVE  IInv'
<1>1. /\ cbClaimed' = FALSE
      /\ cbLoaded' = FALSE
      /\ cbOut' = "NONE"
      /\ sm1' = "OFF"
      /\ irq1' = FALSE
      /\ gateFn' = [g \in Gates |-> "SIO"]
      /\ gateLatch' = gateLatch
  BY TeardownReleases DEF IInv, CbError
<1>2. GateOwned'
  BY <1>1, ReleasedPath DEF CbError
<1>3. TypeOK'
  <2>1. gateFn' \in [Gates -> {"SIO", "PIO"}]
    BY <1>1, AllReleased
  <2>2. gateLatch' \in [Gates -> BOOLEAN]
    BY <1>1 DEF IInv, TypeOK
  <2>3. QED
    BY <1>1, <2>1, <2>2, AgeZero DEF IInv, TypeOK, CbError, CbStates, Phases
<1>4. QED
  BY <1>1, <1>2, <1>3 DEF IInv, Ready, Released, CbError

-----------------------------------------------------------------------------
(* The inductive invariant.                                                 *)

THEOREM InitIInv == Init => IInv
<1> SUFFICES ASSUME Init
             PROVE  IInv
  OBVIOUS
<1> USE DEF Init, CbInit
<1>1. TypeOK
  <2>1. gateFn \in [Gates -> {"SIO", "PIO"}]
    BY AllReleased
  <2>2. gateLatch \in [Gates -> BOOLEAN]
    OBVIOUS
  <2>3. QED
    BY <2>1, <2>2, AgeZero DEF TypeOK, CbStates, CbErrors, Phases
<1>2. GateOwned
  BY GatesAreGates DEF GateOwned
<1>3. QED
  BY <1>1, <1>2 DEF IInv, Ready, Released

LEMMA HostKeepsIInv ==
  ASSUME IInv, Host
  PROVE  IInv'
<1>1. ASSUME NEW c \in CbConfigs, CbConfigure(c)
      PROVE  IInv'
  <2>1. CASE c.ok
    BY <1>1, <2>1, HorizonAssumption
       DEF IInv, TypeOK, GateOwned, Ready, Released, CbConfigure, cbPath, CbStates, CbErrors, Age
  <2>2. CASE ~c.ok
    BY <1>1, <2>2
       DEF IInv, TypeOK, GateOwned, Ready, Released, CbConfigure, cbVars, cbCtl, cbPath
  <2>3. QED
    BY <2>1, <2>2
<1>2. CASE CbArm
  <2>1. CASE CbError("BAD_CONFIG", cbClaimed)
    BY <2>1, ErrorKeepsIInv DEF IInv, TypeOK, CbErrors
  <2>2. CASE UNCHANGED cbVars
    BY <2>2 DEF IInv, TypeOK, GateOwned, Ready, Released, cbVars, cbCtl, cbPath
  <2>3. CASE /\ cbCfgValid
             /\ CbArmable
             /\ cbState' = "ARMED"
             /\ cbErr' = "NONE"
             /\ UNCHANGED <<cbCfg, cbCfgValid, cbAge, cbTimeout, cbPath>>
    BY <2>3 DEF IInv, TypeOK, GateOwned, Ready, Released, cbPath, CbStates, CbErrors
  <2>4. QED
    BY <1>2, <2>1, <2>2, <2>3 DEF CbArm
<1>3. ASSUME NEW t \in FireTimeouts, NEW room \in BOOLEAN, CbFire(t, room)
      PROVE  IInv'
  <2>1. CASE UNCHANGED cbVars
    BY <2>1 DEF IInv, TypeOK, GateOwned, Ready, Released, cbVars, cbCtl, cbPath
  <2>2. CASE CbError("PIO_FAULT", TRUE)
    BY <2>2, ErrorKeepsIInv DEF CbErrors
  <2>3. CASE /\ cbState = "ARMED"
             /\ ~cbClaimed
             /\ CbStartPath
             /\ cbState' = "WAITING"
             /\ cbErr' = "NONE"
             /\ cbAge' = 0
             /\ cbTimeout' = t
             /\ UNCHANGED <<cbCfg, cbCfgValid>>
    <3>1. cbCfgValid /\ cbCfg.out \in Gates
      BY <2>3, ValidGate DEF IInv, Ready
    <3>2. \A g \in Gates : gateFn[g] = "SIO"
      BY <2>3, GatesAreGates DEF IInv, TypeOK, GateOwned
    <3>3. \A g \in Gates : gateFn'[g] = "PIO" <=> g = cbOut'
      BY <2>3, <3>1, <3>2 DEF CbStartPath, IInv, TypeOK
    <3>4. GateOwned'
      BY <2>3, <3>1, <3>3, GatesAreGates DEF CbStartPath, GateOwned
    <3>5. TypeOK'
      <4>1. gateFn' \in [Gates -> {"SIO", "PIO"}]
        BY <2>3, <3>1 DEF IInv, TypeOK, CbStartPath
      <4>2. gateLatch' \in [Gates -> BOOLEAN]
        BY <2>3 DEF IInv, TypeOK, CbStartPath
      <4>3. cbOut' \in Gates
        BY <2>3, <3>1 DEF CbStartPath
      <4>4. QED
        BY <2>3, <4>1, <4>2, <4>3, AgeZero
           DEF IInv, TypeOK, CbStartPath, CbStates, CbErrors, Phases
    <3>6. QED
      BY <2>3, <3>1, <3>4, <3>5 DEF IInv, Ready, Released
  <2>4. QED
    BY <1>3, <2>1, <2>2, <2>3 DEF CbFire
<1>4. CASE CbDisarm
  <2>1. /\ cbClaimed' = FALSE
        /\ cbLoaded' = FALSE
        /\ cbOut' = "NONE"
        /\ sm1' = "OFF"
        /\ irq1' = FALSE
        /\ gateFn' = [g \in Gates |-> "SIO"]
        /\ gateLatch' = gateLatch
    BY <1>4, TeardownReleases DEF IInv, TypeOK, CbDisarm
  <2>2. GateOwned'
    BY <1>4, <2>1, ReleasedPath DEF CbDisarm
  <2>3. TypeOK'
    <3>1. gateFn' \in [Gates -> {"SIO", "PIO"}]
      BY <2>1, AllReleased
    <3>2. gateLatch' \in [Gates -> BOOLEAN]
      BY <2>1 DEF IInv, TypeOK
    <3>3. QED
      BY <1>4, <2>1, <3>1, <3>2, AgeZero
         DEF IInv, TypeOK, CbDisarm, CbStates, CbErrors, Phases
  <2>4. QED
    BY <1>4, <2>1, <2>2, <2>3 DEF IInv, Ready, Released, CbDisarm
<1>5. QED
  BY <1>1, <1>2, <1>3, <1>4 DEF Host

LEMMA TickKeepsIInv ==
  ASSUME IInv, CbTick
  PROVE  IInv'
<1>1. CASE UNCHANGED cbVars
  BY <1>1 DEF IInv, TypeOK, GateOwned, Ready, Released, cbVars, cbCtl, cbPath
<1>2. CASE CbFired /\ CbTeardown(cbClaimed)
  <2>1. /\ cbClaimed' = FALSE
        /\ cbLoaded' = FALSE
        /\ cbOut' = "NONE"
        /\ sm1' = "OFF"
        /\ irq1' = FALSE
        /\ gateFn' = [g \in Gates |-> "SIO"]
        /\ gateLatch' = gateLatch
    BY <1>2, TeardownReleases DEF IInv, TypeOK
  <2>2. GateOwned'
    BY <1>2, <2>1, ReleasedPath DEF CbFired
  <2>3. TypeOK'
    <3>1. gateFn' \in [Gates -> {"SIO", "PIO"}]
      BY <2>1, AllReleased
    <3>2. gateLatch' \in [Gates -> BOOLEAN]
      BY <2>1 DEF IInv, TypeOK
    <3>3. QED
      BY <1>2, <2>1, <3>1, <3>2, AgeZero DEF IInv, TypeOK, CbFired, CbStates, Phases
  <2>4. QED
    BY <1>2, <2>1, <2>2, <2>3 DEF IInv, Ready, Released, CbFired
<1>3. CASE CbError("TRIGGER_TIMEOUT", cbClaimed)
  BY <1>3, ErrorKeepsIInv DEF IInv, TypeOK, CbErrors
<1>4. QED
  BY <1>1, <1>2, <1>3 DEF CbTick

LEMMA PioStepKeepsIInv ==
  ASSUME IInv, CbPioStep
  PROVE  IInv'
<1>1. PICK p \in NextPhase(sm1) :
        /\ sm1' = p
        /\ gateLatch' = [g \in Gates |-> IF g = cbOut THEN p = "HIGH" ELSE gateLatch[g]]
        /\ irq1' = (irq1 \/ p = "DONE")
        /\ UNCHANGED <<cbCtl, cbClaimed, cbLoaded, cbOut, gateFn>>
  BY DEF CbPioStep
<1>2. sm1 \in {"WAIT", "HIGH", "GAP"} /\ p \in {"HIGH", "GAP", "DONE"}
  BY <1>1 DEF NextPhase
<1>3. irq1' = (sm1' = "DONE")
  BY <1>1, <1>2 DEF IInv, GateOwned
<1>4. GateOwned'
  BY <1>1, <1>2, <1>3 DEF IInv, GateOwned, cbCtl
<1>5. gateLatch' \in [Gates -> BOOLEAN]
  <2>1. \A g \in Gates : (IF g = cbOut THEN p = "HIGH" ELSE gateLatch[g]) \in BOOLEAN
    BY DEF IInv, TypeOK
  <2>2. QED
    BY <1>1, <2>1
<1>6. irq1' \in BOOLEAN
  BY <1>3
<1>7. TypeOK'
  BY <1>1, <1>2, <1>5, <1>6 DEF IInv, TypeOK, cbCtl, Phases
<1>8. QED
  BY <1>1, <1>4, <1>7 DEF IInv, Ready, Released, cbCtl

THEOREM NextIInv == IInv /\ [Next]_vars => IInv'
<1> SUFFICES ASSUME IInv, [Next]_vars
             PROVE  IInv'
  OBVIOUS
<1>1. CASE Host
  BY <1>1, HostKeepsIInv
<1>2. CASE CbTick
  BY <1>2, TickKeepsIInv
<1>3. CASE CbPioStep
  BY <1>3, PioStepKeepsIInv
<1>4. CASE CbElapse
  BY <1>4, OlderAge DEF IInv, TypeOK, GateOwned, Ready, Released, CbElapse, cbPath
<1>5. CASE UNCHANGED vars
  BY <1>5 DEF IInv, TypeOK, GateOwned, Ready, Released, vars, cbVars, cbCtl, cbPath
<1>6. QED
  BY <1>1, <1>2, <1>3, <1>4, <1>5 DEF Next

THEOREM InductiveInvariant == Spec => []IInv
  BY InitIInv, NextIInv, PTL DEF Spec

-----------------------------------------------------------------------------
(* What follows from it.                                                    *)

\* The engine's variables keep their types under any host and trigger line.
THEOREM TypeCorrect == Spec => []TypeOK
<1>1. IInv => TypeOK
  BY DEF IInv
<1>2. QED
  BY <1>1, InductiveInvariant, PTL

\* SM 1, its program, the gate and the pin mux are owned together or not at all.
THEOREM GateIsOwned == Spec => []GateOwned
<1>1. IInv => GateOwned
  BY DEF IInv
<1>2. QED
  BY <1>1, InductiveInvariant, PTL

LEMMA OneGateOnly == IInv => BreakBeforeMake
  BY DEF IInv, GateOwned, BreakBeforeMake, GateHigh, Gates

LEMMA NoGateDriven == IInv => TerminalQuiet
<1> SUFFICES ASSUME IInv, cbState \in {"FIRED", "ERROR"}
             PROVE  ~cbClaimed /\ sm1 = "OFF" /\ \A g \in Gates : ~GateHigh(g)
  BY DEF TerminalQuiet
<1>1. ~cbClaimed /\ sm1 = "OFF" /\ cbOut = "NONE"
  BY DEF IInv, Released, GateOwned, TypeOK
<1>2. \A g \in Gates : gateFn[g] # "PIO"
  BY <1>1, GatesAreGates DEF IInv, GateOwned
<1>3. QED
  BY <1>1, <1>2 DEF GateHigh

\* The two gates are never high at the same time.
THEOREM GatesBreakBeforeMake == Spec => []BreakBeforeMake
  BY OneGateOnly, InductiveInvariant, PTL

\* An engine in FIRED or ERROR drives neither gate.
THEOREM TerminalIsQuiet == Spec => []TerminalQuiet
  BY NoGateDriven, InductiveInvariant, PTL
=============================================================================
