----------------------------- MODULE SweepProofs -----------------------------
(***************************************************************************)
(* Proofs about the sweep orchestrator, for every ring depth, word size,   *)
(* set of configurations and set of executor failures.                     *)
(***************************************************************************)
EXTENDS SweepHistory, SequenceTheorems, FiniteSetTheorems, FunctionTheorems, TLAPS

IInv == TypeOK /\ SweepCoherent

-----------------------------------------------------------------------------
(* The arithmetic of the sweep.                                             *)

\* Remainders stay below the modulus.
LEMMA ModRange ==
  ASSUME NEW a \in Nat, NEW b \in Nat, b > 0
  PROVE  a % b \in 0 .. b - 1
  OBVIOUS

LEMMA DivNat ==
  ASSUME NEW a \in Nat, NEW b \in Nat, b > 0
  PROVE  a \div b \in Nat
  OBVIOUS

LEMMA MulNat ==
  ASSUME NEW a \in Nat, NEW b \in Nat
  PROVE  a * b \in Nat
  OBVIOUS

LEMMA AxisStepCountWord ==
  ASSUME NEW a \in Axis
  PROVE  AxisStepCount(a) \in Word
<1> USE WordModAssumption DEF Word, Axis
<1>1. CASE a.step = 0
  BY <1>1 DEF AxisStepCount
<1>2. CASE a.step # 0 /\ a.start > a.end
  BY <1>2 DEF AxisStepCount
<1>3. CASE a.step # 0 /\ a.start <= a.end
  <2>1. (a.end - a.start) \div a.step + 1 \in Nat
    <3>1. a.end - a.start \in Nat /\ a.step \in Nat /\ a.step > 0
      BY <1>3
    <3>2. QED
      BY <3>1, DivNat
  <2>2. ((a.end - a.start) \div a.step + 1) % WordMod \in Word
    BY <2>1, ModRange
  <2>3. QED
    BY <1>3, <2>2 DEF AxisStepCount
<1>4. QED
  BY <1>1, <1>2, <1>3

\* Where a sweep has steps at all, decoding any step index gives parameters
\* that are machine words.
LEMMA StepToParamsWord ==
  ASSUME NEW c \in Configs, TotalSteps(c) # 0, NEW n \in Nat
  PROVE  StepToParams(c, n) \in Params
<1> DEFINE w == AxisStepCount(c.width)
           p == AxisStepCount(c.power)
           d == AxisStepCount(c.delay)
<1>1. c.delay \in Axis /\ c.width \in Axis /\ c.power \in Axis
  BY CampaignAssumption
<1>2. d \in Nat /\ w \in Nat /\ p \in Nat
  BY <1>1, AxisStepCountWord, WordModAssumption DEF Word
<1>3. w > 0 /\ p > 0
  <2>1. SUFFICES ASSUME w = 0 \/ p = 0
                 PROVE  FALSE
    BY <1>2
  <2>2. d * w * p = 0
    BY <1>2, <2>1
  <2>3. QED
    BY <2>2, WordModAssumption DEF TotalSteps
<1>4. ASSUME NEW a \in Axis, NEW i \in Nat
      PROVE  AxisValueAt(a, i) \in Word
  <2>1. a.start \in Nat /\ a.step \in Nat
    BY WordModAssumption DEF Axis, Word
  <2>2. a.start + i * a.step \in Nat
    BY <2>1, MulNat
  <2>3. QED
    BY <2>2, ModRange, WordModAssumption DEF AxisValueAt, Word
<1>5. n \div p \in Nat /\ n % p \in Nat
  BY <1>2, <1>3, DivNat, ModRange
<1>6. (n \div p) \div w \in Nat /\ (n \div p) % w \in Nat
  BY <1>2, <1>3, <1>5, DivNat, ModRange
<1>7. QED
  BY <1>1, <1>4, <1>5, <1>6 DEF StepToParams, Params

-----------------------------------------------------------------------------
(* The state word and the flags.                                            *)

LEMMA InitIInv == HInit => IInv
<1> SUFFICES ASSUME HInit
             PROVE  IInv
  OBVIOUS
<1> USE DEF HInit, CmInit
<1>1. 0 \in Word /\ 0 \in 0 .. Depth - 1 /\ 0 \in 0 .. Depth
  BY CampaignAssumption, WordModAssumption DEF Word
<1>2. ZeroResult \in Result
  BY <1>1 DEF ZeroResult, Result, Params, FireCodes
<1>3. ring \in [0 .. Depth - 1 -> Result]
  BY <1>2
<1>4. TypeOK
  BY <1>1, <1>3 DEF TypeOK, CmStates, CmErrors
<1>5. SweepCoherent
  BY DEF SweepCoherent
<1>6. QED
  BY <1>4, <1>5 DEF IInv

\* A host command that changes nothing of the manager.
LEMMA StutterIInv ==
  ASSUME IInv, UNCHANGED cmVars
  PROVE  IInv'
BY DEF IInv, TypeOK, SweepCoherent, cmVars, sweepVars, ringVars

LEMMA ConfigureIInv ==
  ASSUME IInv, NEW c \in Configs, CmConfigure(c)
  PROVE  IInv'
<1> USE DEF IInv, TypeOK, SweepCoherent, Busy, ringVars
<1>1. TotalSteps(c) \in Word
  <2>1. c.delay \in Axis /\ c.width \in Axis /\ c.power \in Axis
    BY CampaignAssumption
  <2> DEFINE k == AxisStepCount(c.delay) * AxisStepCount(c.width) * AxisStepCount(c.power)
  <2>2. k \in Nat
    BY <2>1, AxisStepCountWord, MulNat, WordModAssumption DEF Word
  <2>3. QED
    BY <2>2, ModRange, WordModAssumption DEF TotalSteps, Word
<1>2. CASE UNCHANGED cmVars
  BY <1>2, StutterIInv
<1>3. CASE ~Busy /\ TotalSteps(c) = 0 /\ cmErr' = "BAD_CONFIG"
           /\ UNCHANGED <<cmState, cmCfg, cmCfgValid, cmStep, cmTotal, cmLastStep, ringVars,
                          inStep, pendingStop>>
  BY <1>3 DEF CmErrors
<1>4. CASE /\ ~Busy
           /\ TotalSteps(c) # 0
           /\ cmCfg' = c
           /\ cmCfgValid' = TRUE
           /\ cmTotal' = TotalSteps(c)
           /\ cmStep' = 0
           /\ cmState' = "CONFIGURING"
           /\ cmErr' = "NONE"
           /\ UNCHANGED <<cmLastStep, ringVars, inStep, pendingStop>>
  <2>1. TypeOK'
    BY <1>1, <1>4, WordModAssumption DEF CmErrors, CmStates, Word
  <2>2. SweepCoherent'
    BY <1>1, <1>4, WordModAssumption DEF Word
  <2>3. QED
    BY <2>1, <2>2
<1>5. QED
  BY <1>2, <1>3, <1>4 DEF CmConfigure

LEMMA StartIInv ==
  ASSUME IInv, CmStart
  PROVE  IInv'
<1> USE DEF IInv, TypeOK, SweepCoherent, Busy, Startable, ringVars
<1>1. CASE cmCfgValid /\ Busy /\ UNCHANGED cmVars
  BY <1>1, StutterIInv
<1>2. CASE ~cmCfgValid
  BY <1>2 DEF CmStart, CmErrors
<1>3. CASE Startable
  <2>1. /\ cmStep' = 0
        /\ cmPushed' = 0
        /\ cmDropped' = 0
        /\ ringHead' = 0
        /\ ringTail' = 0
        /\ ringCount' = 0
        /\ cmLastStep' = NoStamp
        /\ cmState' = "SWEEPING"
        /\ cmErr' = "NONE"
        /\ UNCHANGED <<cmCfg, cmCfgValid, cmTotal, ring, inStep, pendingStop>>
    BY <1>3 DEF CmStart
  <2>2. TypeOK'
    BY <2>1, CampaignAssumption, WordModAssumption DEF CmErrors, CmStates, Word
  <2>3. SweepCoherent'
    BY <1>3, <2>1
  <2>4. QED
    BY <2>2, <2>3
<1>4. QED
  BY <1>1, <1>2, <1>3 DEF CmStart

LEMMA StopIInv ==
  ASSUME IInv, CmStop
  PROVE  IInv'
BY DEF IInv, TypeOK, SweepCoherent, CmStop, CmStates, ringVars

LEMMA DrainIInv ==
  ASSUME IInv, NEW n \in DrainSizes, CmDrain(n)
  PROVE  IInv'
<1>1. Drained(n) \in Nat /\ Drained(n) <= ringCount
  BY CampaignAssumption DEF Drained, IInv, TypeOK
<1>2. ringCount' \in 0 .. Depth
  BY <1>1, CampaignAssumption DEF IInv, TypeOK, CmDrain
<1>3. ringTail' \in 0 .. Depth - 1
  <2>1. ringTail \in Nat /\ Depth \in Nat /\ Depth > 0
    BY CampaignAssumption DEF IInv, TypeOK
  <2>2. ringTail + Drained(n) \in Nat
    BY <1>1, <2>1
  <2>3. (ringTail + Drained(n)) % Depth \in 0 .. Depth - 1
    BY <2>1, <2>2, ModRange
  <2>4. QED
    BY <2>3 DEF CmDrain
<1>4. QED
  BY <1>2, <1>3 DEF IInv, TypeOK, SweepCoherent, CmDrain, sweepVars

LEMMA BeginStepIInv ==
  ASSUME IInv, CmBeginStep
  PROVE  IInv'
BY WordModAssumption
   DEF IInv, TypeOK, SweepCoherent, CmBeginStep, StepDue, Exhausted, CmStates, ringVars, Word

\* Pushing a result keeps the ring well formed.
LEMMA PushRing ==
  ASSUME IInv, NEW r \in Result, RingPush(r)
  PROVE  /\ ring' \in [0 .. Depth - 1 -> Result]
         /\ ringHead' \in 0 .. Depth - 1
         /\ ringTail' \in 0 .. Depth - 1
         /\ ringCount' \in 0 .. Depth
         /\ cmPushed' \in Nat
         /\ cmDropped' \in Nat
<1> USE CampaignAssumption DEF IInv, TypeOK, RingPush
<1>1. CASE ringCount >= Depth
  BY <1>1
<1>2. CASE ~(ringCount >= Depth)
  <2>1. ringHead + 1 \in Nat
    OBVIOUS
  <2>2. (ringHead + 1) % Depth \in 0 .. Depth - 1
    BY <2>1, ModRange
  <2>3. QED
    BY <1>2, <2>2
<1>3. QED
  BY <1>1, <1>2

\* What a returning step records is a well-formed result.
LEMMA EndStepResult ==
  ASSUME IInv, NEW ok \in BOOLEAN, NEW fire \in FireCodes, CmEndStep(ok, fire)
  PROVE  [step |-> cmStep, at |-> CurrentParams, fire |-> fire] \in Result
<1>1. cmCfg \in Configs /\ TotalSteps(cmCfg) # 0 /\ cmStep \in Nat
  BY WordModAssumption DEF IInv, SweepCoherent, TypeOK, CmEndStep, Word
<1>2. CurrentParams \in Params
  BY <1>1, StepToParamsWord DEF CurrentParams
<1>3. QED
  BY <1>2 DEF Result, IInv, TypeOK

LEMMA EndStepIInv ==
  ASSUME IInv, NEW ok \in BOOLEAN, NEW fire \in FireCodes, CmEndStep(ok, fire)
  PROVE  IInv'
<1> DEFINE r == [step |-> cmStep, at |-> CurrentParams, fire |-> fire]
<1>1. cmState = "SWEEPING" /\ cmStep < cmTotal
  BY DEF IInv, SweepCoherent, CmEndStep
<1>3. r \in Result
  BY EndStepResult
<1>4. RingPush(r)
  BY DEF CmEndStep
<1>5. /\ ring' \in [0 .. Depth - 1 -> Result]
      /\ ringHead' \in 0 .. Depth - 1
      /\ ringTail' \in 0 .. Depth - 1
      /\ ringCount' \in 0 .. Depth
      /\ cmPushed' \in Nat
      /\ cmDropped' \in Nat
  BY <1>3, <1>4, PushRing
<1>6. /\ inStep' = FALSE
      /\ pendingStop' = FALSE
      /\ UNCHANGED <<cmCfg, cmCfgValid, cmTotal>>
  BY DEF CmEndStep
<1>7. CASE ~ok
  <2>1. cmErr' = "STEP_FAILED" /\ cmState' = "ERROR" /\ UNCHANGED <<cmStep, cmLastStep>>
    BY <1>7 DEF CmEndStep
  <2>2. QED
    BY <1>5, <1>6, <1>1, <2>1 DEF IInv, TypeOK, SweepCoherent, CmStates, CmErrors
<1>8. CASE ok /\ pendingStop
  <2>1. cmState' = "STOPPED" /\ UNCHANGED <<cmErr, cmStep, cmLastStep>>
    BY <1>8 DEF CmEndStep
  <2>2. QED
    BY <1>5, <1>6, <1>1, <2>1 DEF IInv, TypeOK, SweepCoherent, CmStates
<1>9. CASE ok /\ ~pendingStop
  <2>1. /\ cmStep' = cmStep + 1
        /\ cmLastStep' \in {0, NoStamp}
        /\ cmState' = IF cmStep + 1 >= cmTotal THEN "DONE" ELSE cmState
        /\ UNCHANGED cmErr
    BY <1>9 DEF CmEndStep
  <2>2. cmStep' \in Word
    BY <1>1, <2>1, WordModAssumption DEF IInv, TypeOK, Word
  <2>3. cmLastStep' \in Age \cup {NoStamp}
    BY <2>1, HorizonAssumption DEF Age
  <2>4. TypeOK'
    BY <1>1, <1>5, <1>6, <2>1, <2>2, <2>3 DEF IInv, TypeOK, CmStates
  <2>5. SweepCoherent'
    BY <1>1, <1>6, <2>1, WordModAssumption DEF IInv, TypeOK, SweepCoherent, Word
  <2>6. QED
    BY <2>4, <2>5 DEF IInv
<1>10. QED
  BY <1>7, <1>8, <1>9

LEMMA ElapseIInv ==
  ASSUME IInv, CmElapse
  PROVE  IInv'
<1>1. cmLastStep' \in Age \cup {NoStamp}
  BY HorizonAssumption DEF IInv, TypeOK, CmElapse, Age, NoStamp, Older
<1>2. QED
  BY <1>1 DEF IInv, TypeOK, SweepCoherent, CmElapse, ringVars

LEMMA NextIInv ==
  ASSUME IInv, [HNext]_vars
  PROVE  IInv'
<1>1. ASSUME NEW c \in Configs, HConfigure(c)
      PROVE  IInv'
  BY <1>1, ConfigureIInv DEF HConfigure
<1>2. CASE HStart
  BY <1>2, StartIInv DEF HStart
<1>3. CASE HStop
  BY <1>3, StopIInv DEF HStop
<1>4. ASSUME NEW n \in DrainSizes, HDrain(n)
      PROVE  IInv'
  BY <1>4, DrainIInv DEF HDrain
<1>5. CASE HBeginStep
  BY <1>5, BeginStepIInv DEF HBeginStep
<1>6. CASE HReturn
  BY <1>6, EndStepIInv DEF HReturn, HEndStep
<1>7. CASE HElapse
  BY <1>7, ElapseIInv DEF HElapse
<1>8. CASE UNCHANGED vars
  BY <1>8, StutterIInv DEF vars
<1>9. QED
  BY <1>1, <1>2, <1>3, <1>4, <1>5, <1>6, <1>7, <1>8 DEF HNext

\* The invariant every other proof of this module starts from.
LEMMA InductiveInvariant == HSpec => []IInv
<1>1. HInit => IInv
  BY InitIInv
<1>2. IInv /\ [HNext]_vars => IInv'
  BY NextIInv
<1>3. QED
  BY <1>1, <1>2, PTL DEF HSpec

\* Type correctness of the sweep orchestrator, the ring indices included.
THEOREM TypeCorrect == HSpec => []TypeOK
BY InductiveInvariant, PTL DEF IInv

\* A running sweep always has a configured step left to run, an executor is on
\* the stack only of a running sweep, and a deferred STOP only exists inside one.
THEOREM SweepIsCoherent == HSpec => []SweepCoherent
BY InductiveInvariant, PTL DEF IInv

-----------------------------------------------------------------------------
(* What a command may do to a step in progress.                             *)

\* No command that lands inside a blocking step changes the sweep it runs for.
THEOREM LiveSweepIsFrozen == HSpec => LiveSweepFrozen
<1>1. ASSUME IInv, [HNext]_vars, inStep
      PROVE  /\ UNCHANGED <<cmCfg, cmCfgValid, cmTotal>>
             /\ inStep' => UNCHANGED <<cmState, cmErr, cmStep>>
  <2> USE <1>1 DEF Busy, cmVars, sweepVars
  <2>1. ASSUME NEW c \in Configs, HConfigure(c)
        PROVE  UNCHANGED sweepVars
    BY <2>1 DEF HConfigure, CmConfigure
  <2>2. CASE HStart
    BY <2>2 DEF HStart, CmStart, Startable, IInv, SweepCoherent
  <2>3. CASE HStop
    BY <2>3 DEF HStop, CmStop
  <2>4. ASSUME NEW n \in DrainSizes, HDrain(n)
        PROVE  UNCHANGED sweepVars
    BY <2>4 DEF HDrain, CmDrain
  <2>5. CASE HBeginStep
    BY <2>5 DEF HBeginStep, CmBeginStep, StepDue
  <2>6. CASE HReturn
    BY <2>6 DEF HReturn, HEndStep, CmEndStep
  <2>7. CASE HElapse
    BY <2>7 DEF HElapse, CmElapse
  <2>8. CASE UNCHANGED vars
    BY <2>8 DEF vars
  <2>9. QED
    BY <2>1, <2>2, <2>3, <2>4, <2>5, <2>6, <2>7, <2>8 DEF HNext
<1>2. IInv /\ [HNext]_vars =>
        [inStep => /\ UNCHANGED <<cmCfg, cmCfgValid, cmTotal>>
                   /\ inStep' => UNCHANGED <<cmState, cmErr, cmStep>>]_vars
  BY <1>1
<1>3. QED
  BY <1>2, InductiveInvariant, PTL DEF HSpec, LiveSweepFrozen

\* A STOP accepted mid-step stays pending until the step returns, and the sweep
\* then ends at that step.
THEOREM StopIsNotOvertaken == HSpec => StopWins
<1>1. ASSUME IInv, [HNext]_vars, pendingStop
      PROVE  \/ inStep' /\ pendingStop'
             \/ cmState' \in {"STOPPED", "ERROR"} /\ cmStep' = cmStep
  <2> USE <1>1 DEF Busy, cmVars
  <2>1. inStep /\ cmState = "SWEEPING"
    BY DEF IInv, SweepCoherent
  <2>2. ASSUME NEW c \in Configs, HConfigure(c)
        PROVE  inStep' /\ pendingStop'
    BY <2>1, <2>2 DEF HConfigure, CmConfigure
  <2>3. CASE HStart
    BY <2>1, <2>3 DEF HStart, CmStart, Startable
  <2>4. CASE HStop
    BY <2>1, <2>4 DEF HStop, CmStop
  <2>5. ASSUME NEW n \in DrainSizes, HDrain(n)
        PROVE  inStep' /\ pendingStop'
    BY <2>1, <2>5 DEF HDrain, CmDrain
  <2>6. CASE HBeginStep
    BY <2>1, <2>6 DEF HBeginStep, CmBeginStep, StepDue
  <2>7. CASE HReturn
    BY <2>7 DEF HReturn, HEndStep, CmEndStep
  <2>8. CASE HElapse
    BY <2>1, <2>8 DEF HElapse, CmElapse
  <2>9. CASE UNCHANGED vars
    BY <2>1, <2>9 DEF vars
  <2>10. QED
    BY <2>2, <2>3, <2>4, <2>5, <2>6, <2>7, <2>8, <2>9 DEF HNext
<1>2. IInv /\ [HNext]_vars =>
        [pendingStop => \/ inStep' /\ pendingStop'
                        \/ cmState' \in {"STOPPED", "ERROR"} /\ cmStep' = cmStep]_vars
  BY <1>1
<1>3. QED
  BY <1>2, InductiveInvariant, PTL DEF HSpec, StopWins

-----------------------------------------------------------------------------
(* The counters a host reads in STATUS.                                     *)

\* Every executed step is accounted for, as queued or as dropped.
THEOREM ResultsAreAccounted == HSpec => []ResultAccounting
<1> DEFINE J == IInv /\ ResultAccounting
<1>1. HInit => J
  BY InitIInv DEF HInit, CmInit, ResultAccounting
<1>2. ASSUME J, [HNext]_vars
      PROVE  ResultAccounting'
  <2>1. IInv /\ ResultAccounting
    BY <1>2
  <2> USE <2>1 DEF IInv, TypeOK, ResultAccounting, ringVars, Word
  <2>2. ASSUME NEW c \in Configs, HConfigure(c)
        PROVE  ResultAccounting'
    BY <2>2 DEF HConfigure, CmConfigure, cmVars, sweepVars, Busy
  <2>3. CASE HStart
    BY <2>3 DEF HStart, CmStart, cmVars, sweepVars, Startable, Busy
  <2>4. CASE HStop
    BY <2>4 DEF HStop, CmStop
  <2>5. ASSUME NEW n \in DrainSizes, HDrain(n)
        PROVE  ResultAccounting'
    <3>1. Drained(n) \in Nat /\ Drained(n) <= ringCount
      BY CampaignAssumption DEF Drained
    <3>2. QED
      BY <2>5, <3>1, CampaignAssumption DEF HDrain, CmDrain, sweepVars
  <2>6. CASE HBeginStep
    BY <2>6, WordModAssumption
       DEF HBeginStep, CmBeginStep, StepDue, Exhausted, SweepCoherent
  <2>7. CASE HReturn
    <3>1. PICK ok \in BOOLEAN, fire \in FireCodes : CmEndStep(ok, fire)
      BY <2>7 DEF HReturn, HEndStep
    <3>2. cmState = "SWEEPING" /\ cmPushed + cmDropped = cmStep /\ cmStep < cmTotal
      BY <3>1 DEF CmEndStep, SweepCoherent
    <3> DEFINE r == [step |-> cmStep, at |-> CurrentParams, fire |-> fire]
    <3>3. RingPush(r)
      BY <3>1 DEF CmEndStep
    <3>4. /\ cmPushed' + cmDropped' = cmStep + 1
          /\ ringCount' <= cmPushed'
      <4> HIDE DEF r
      <4>1. QED
        BY <3>2, <3>3, CampaignAssumption DEF RingPush
    <3>5. \/ cmState' = "ERROR" /\ cmStep' = cmStep
          \/ cmState' = "STOPPED" /\ cmStep' = cmStep
          \/ cmState' \in {"DONE", "SWEEPING"} /\ cmStep' = cmStep + 1
      BY <3>1, <3>2 DEF CmEndStep
    <3>6. QED
      BY <3>4, <3>5
  <2>8. CASE HElapse
    BY <2>8 DEF HElapse, CmElapse
  <2>9. CASE UNCHANGED vars
    BY <2>9 DEF vars, cmVars, sweepVars
  <2>10. QED
    BY <2>2, <2>3, <2>4, <2>5, <2>6, <2>7, <2>8, <2>9, <1>2 DEF HNext
<1>3. J /\ [HNext]_vars => J'
  BY <1>2, NextIInv
<1>4. QED
  BY <1>1, <1>3, PTL DEF HSpec

-----------------------------------------------------------------------------
(* The ring implements the bounded queue.  The head index says nothing that *)
(* the tail and the count do not: that is the invariant the refinement of   *)
(* the slots into a sequence needs.                                         *)

RingShape == ringHead = (ringTail + ringCount) % Depth

\* One turn around the ring.
LEMMA ModOnce ==
  ASSUME NEW d \in Nat, d > 0, NEW x \in Nat, x < 2 * d
  PROVE  x % d = IF x < d THEN x ELSE x - d
  OBVIOUS

LEMMA InitRingShape == HInit => RingShape
<1>1. 0 % Depth = 0
  BY ModOnce, CampaignAssumption
<1>2. QED
  BY <1>1, CampaignAssumption DEF HInit, CmInit, RingShape

LEMMA PushRingShape ==
  ASSUME IInv, RingShape, NEW r \in Result, RingPush(r)
  PROVE  RingShape'
<1> USE CampaignAssumption DEF RingPush, RingShape
<1>1. CASE ringCount >= Depth
  BY <1>1
<1>2. CASE ~(ringCount >= Depth)
  <2>1. /\ Depth \in Nat /\ Depth > 0
        /\ ringTail \in Nat /\ ringTail < Depth
        /\ ringCount \in Nat /\ ringCount < Depth
    BY <1>2 DEF IInv, TypeOK
  <2>2. ringHead = IF ringTail + ringCount < Depth THEN ringTail + ringCount
                   ELSE ringTail + ringCount - Depth
    BY <2>1, ModOnce
  <2>3. (ringHead + 1) % Depth = IF ringHead + 1 < Depth THEN ringHead + 1
                                 ELSE ringHead + 1 - Depth
    BY <2>1, <2>2, ModOnce
  <2>4. (ringTail + (ringCount + 1)) % Depth
          = IF ringTail + (ringCount + 1) < Depth THEN ringTail + (ringCount + 1)
            ELSE ringTail + (ringCount + 1) - Depth
    BY <2>1, ModOnce
  <2>5. (ringHead + 1) % Depth = (ringTail + (ringCount + 1)) % Depth
    BY <2>1, <2>2, <2>3, <2>4
  <2>6. ringHead' = (ringHead + 1) % Depth /\ ringTail' = ringTail
          /\ ringCount' = ringCount + 1
    BY <1>2
  <2>7. QED
    BY <2>5, <2>6
<1>3. QED
  BY <1>1, <1>2

LEMMA DrainRingShape ==
  ASSUME IInv, RingShape, NEW n \in DrainSizes, CmDrain(n)
  PROVE  RingShape'
<1> DEFINE k == Drained(n)
<1>1. /\ Depth \in Nat /\ Depth > 0
      /\ ringTail \in Nat /\ ringTail < Depth
      /\ ringCount \in Nat /\ ringCount <= Depth
      /\ k \in Nat /\ k <= ringCount
  BY CampaignAssumption DEF IInv, TypeOK, Drained
<1>2. /\ ringTail' = (ringTail + k) % Depth
      /\ ringCount' = ringCount - k
      /\ ringHead' = ringHead
  BY DEF CmDrain
<1> HIDE DEF k
<1>3. (ringTail + k) % Depth = IF ringTail + k < Depth THEN ringTail + k
                               ELSE ringTail + k - Depth
  BY <1>1, ModOnce
<1>4. (ringTail' + ringCount') % Depth = (ringTail + ringCount) % Depth
  <2>1. CASE ringTail + k < Depth
    <3>1. ringTail' + ringCount' = ringTail + ringCount
      BY <1>1, <1>2, <1>3, <2>1
    <3>2. QED
      BY <3>1
  <2>2. CASE ~(ringTail + k < Depth)
    <3>1. ringTail' + ringCount' = ringTail + ringCount - Depth
      BY <1>1, <1>2, <1>3, <2>2
    <3>2. /\ ringTail + ringCount - Depth \in Nat
          /\ ringTail + ringCount - Depth < Depth
          /\ ringTail + ringCount \in Nat
          /\ ringTail + ringCount < 2 * Depth
          /\ ~(ringTail + ringCount < Depth)
      BY <1>1, <2>2
    <3>3. (ringTail + ringCount - Depth) % Depth = ringTail + ringCount - Depth
      BY <1>1, <3>2, ModOnce
    <3>4. (ringTail + ringCount) % Depth = ringTail + ringCount - Depth
      BY <1>1, <3>2, ModOnce
    <3>5. QED
      BY <3>1, <3>3, <3>4
  <2>3. QED
    BY <2>1, <2>2
<1>5. QED
  BY <1>2, <1>4 DEF RingShape

LEMMA NextRingShape ==
  ASSUME IInv, RingShape, [HNext]_vars
  PROVE  RingShape'
<1> USE DEF RingShape, ringVars
<1>1. ASSUME NEW c \in Configs, HConfigure(c)
      PROVE  RingShape'
  BY <1>1 DEF HConfigure, CmConfigure, cmVars
<1>2. CASE HStart
  <2>1. CASE Startable
    <3>1. ringHead' = 0 /\ ringTail' = 0 /\ ringCount' = 0
      BY <1>2, <2>1 DEF HStart, CmStart, Startable
    <3>2. 0 % Depth = 0
      BY ModOnce, CampaignAssumption
    <3>3. QED
      BY <3>1, <3>2
  <2>2. CASE ~Startable
    BY <1>2, <2>2 DEF HStart, CmStart, Startable, cmVars
  <2>3. QED
    BY <2>1, <2>2
<1>3. CASE HStop
  BY <1>3 DEF HStop, CmStop
<1>4. ASSUME NEW n \in DrainSizes, HDrain(n)
      PROVE  RingShape'
  BY <1>4, DrainRingShape DEF HDrain
<1>5. CASE HBeginStep
  BY <1>5 DEF HBeginStep, CmBeginStep, StepDue
<1>6. CASE HReturn
  <2>1. PICK ok \in BOOLEAN, fire \in FireCodes : CmEndStep(ok, fire)
    BY <1>6 DEF HReturn, HEndStep
  <2> DEFINE r == [step |-> cmStep, at |-> CurrentParams, fire |-> fire]
  <2>2. r \in Result /\ RingPush(r)
    BY <2>1, EndStepResult DEF CmEndStep
  <2>3. QED
    BY <2>2, PushRingShape
<1>7. CASE HElapse
  BY <1>7 DEF HElapse, CmElapse
<1>8. CASE UNCHANGED vars
  BY <1>8 DEF vars, cmVars
<1>9. QED
  BY <1>1, <1>2, <1>3, <1>4, <1>5, <1>6, <1>7, <1>8 DEF HNext

LEMMA RingKeepsShape == HSpec => []RingShape
<1>1. IInv /\ RingShape /\ [HNext]_vars => RingShape'
  BY NextRingShape
<1>2. QED
  BY <1>1, InitRingShape, InductiveInvariant, PTL DEF HSpec

\* Three facts about sequences, in the form the refinement needs them.
LEMMA SameSeq ==
  ASSUME NEW S, NEW s \in Seq(S), NEW t \in Seq(S), NEW n \in Nat,
         Len(s) = n, Len(t) = n, \A i \in 1 .. n : s[i] = t[i]
  PROVE  s = t
BY SeqEqual

LEMMA NoItems ==
  ASSUME NEW S, NEW s \in Seq(S), Len(s) = 0
  PROVE  s = <<>>
BY EmptySeq

LEMMA Slice ==
  ASSUME NEW S, NEW s \in Seq(S), NEW t \in Seq(S), NEW k \in Nat, NEW n \in Nat,
         k + n <= Len(s), Len(t) = n, \A i \in 1 .. n : t[i] = s[k + i]
  PROVE  SubSeq(s, k + 1, k + n) = t
<1> DEFINE u == SubSeq(s, k + 1, k + n)
<1>1. \A i \in k + 1 .. k + n : s[i] \in S
  BY ElementOfSeq, LenProperties
<1>2. /\ u \in Seq(S)
      /\ Len(u) = IF k + 1 <= k + n THEN (k + n) - (k + 1) + 1 ELSE 0
      /\ \A i \in 1 .. (k + n) - (k + 1) + 1 : u[i] = s[(k + 1) + i - 1]
  BY <1>1, SubSeqProperties
<1> HIDE DEF u
<1>3. Len(u) = n
  BY <1>2
<1>4. \A i \in 1 .. n : u[i] = t[i]
  <2>1. ASSUME NEW i \in 1 .. n
        PROVE  u[i] = t[i]
    <3>1. i \in 1 .. (k + n) - (k + 1) + 1 /\ (k + 1) + i - 1 = k + i
      OBVIOUS
    <3>2. QED
      BY <1>2, <3>1
  <2>2. QED
    BY <2>1
<1>5. u = t
  BY <1>2, <1>3, <1>4, SameSeq
<1>6. QED
  BY <1>5 DEF u

LEMMA RotationSeq ==
  ASSUME NEW g \in [0 .. Depth - 1 -> Result], NEW t \in 0 .. Depth - 1, NEW n \in 0 .. Depth
  PROVE  LET q == [i \in 1 .. n |-> g[(t + i - 1) % Depth]]
         IN  q \in Seq(Result) /\ Len(q) = n
<1>1. n \in Nat
  BY CampaignAssumption
<1>2. ASSUME NEW i \in 1 .. n
      PROVE  g[(t + i - 1) % Depth] \in Result
  <2>1. t + i - 1 \in Nat
    BY CampaignAssumption, <1>1
  <2>2. (t + i - 1) % Depth \in 0 .. Depth - 1
    BY <2>1, ModRange, CampaignAssumption
  <2>3. QED
    BY <2>2
<1>3. QED
  BY <1>1, <1>2

LEMMA RingQueueSeq ==
  ASSUME IInv
  PROVE  RingQueue \in Seq(Result) /\ Len(RingQueue) = ringCount
BY RotationSeq DEF IInv, TypeOK, RingQueue

LEMMA RingQueueSeqNext ==
  ASSUME IInv'
  PROVE  RingQueue' \in Seq(Result) /\ Len(RingQueue') = ringCount'
BY RotationSeq DEF IInv, TypeOK, RingQueue

\* What a push does to the queue, entry by entry.
LEMMA PushQueue ==
  ASSUME IInv, RingShape, NEW r \in Result, RingPush(r), ringCount < Depth
  PROVE  /\ ringCount' = ringCount + 1
         /\ cmPushed' = cmPushed + 1
         /\ cmDropped' = cmDropped
         /\ \A i \in 1 .. ringCount : RingQueue'[i] = RingQueue[i]
         /\ RingQueue'[ringCount + 1] = r
<1> USE CampaignAssumption
<1>1. /\ ring' = [ring EXCEPT ![ringHead] = r]
      /\ ringCount' = ringCount + 1
      /\ cmPushed' = cmPushed + 1
      /\ UNCHANGED <<ringTail, cmDropped>>
  BY DEF RingPush, IInv, TypeOK
<1>2. /\ Depth \in Nat /\ Depth > 0
      /\ ringTail \in Nat /\ ringTail < Depth
      /\ ringCount \in Nat /\ ringCount < Depth
      /\ ringHead \in 0 .. Depth - 1
      /\ ring \in [0 .. Depth - 1 -> Result]
  BY DEF IInv, TypeOK
<1>3. ringHead = IF ringTail + ringCount < Depth THEN ringTail + ringCount
                 ELSE ringTail + ringCount - Depth
  BY <1>2, ModOnce DEF RingShape
<1>4. ASSUME NEW i \in 1 .. ringCount
      PROVE  RingQueue'[i] = RingQueue[i]
  <2>1. ringTail + i - 1 \in Nat /\ ringTail + i - 1 < 2 * Depth
    BY <1>2
  <2>2. (ringTail + i - 1) % Depth
          = IF ringTail + i - 1 < Depth THEN ringTail + i - 1
            ELSE ringTail + i - 1 - Depth
    BY <1>2, <2>1, ModOnce
  <2>3. (ringTail + i - 1) % Depth # ringHead
    BY <1>2, <1>3, <2>2
  <2>4. (ringTail + i - 1) % Depth \in 0 .. Depth - 1
    BY <1>2, <2>1, ModRange
  <2>5. ring'[(ringTail + i - 1) % Depth] = ring[(ringTail + i - 1) % Depth]
    BY <1>1, <1>2, <2>3, <2>4
  <2>6. i \in 1 .. ringCount + 1
    BY <1>2
  <2>7. QED
    BY <1>1, <2>5, <2>6 DEF RingQueue
<1>5. RingQueue'[ringCount + 1] = r
  <2>1. ringTail + (ringCount + 1) - 1 = ringTail + ringCount
    BY <1>2
  <2>2. ring'[ringHead] = r
    BY <1>1, <1>2
  <2>3. ringCount + 1 \in 1 .. ringCount'
    BY <1>1, <1>2
  <2>4. RingQueue'[ringCount + 1] = ring'[(ringTail + (ringCount + 1) - 1) % Depth]
    BY <1>1, <2>3 DEF RingQueue
  <2>5. QED
    BY <2>1, <2>2, <2>4 DEF RingShape
<1>6. QED
  BY <1>1, <1>4, <1>5

\* A full ring is left as it is, and the loss is counted.
LEMMA FullRing ==
  ASSUME NEW r, RingPush(r), ringCount >= Depth
  PROVE  /\ RingQueue' = RingQueue
         /\ ringCount' = ringCount
         /\ cmPushed' = cmPushed
         /\ cmDropped' = cmDropped + 1
BY DEF RingPush, RingQueue

\* A push is an Accept of the queue, or a Lose when the ring is full.
LEMMA PushRefines ==
  ASSUME IInv, IInv', RingShape, NEW r \in Result, RingPush(r)
  PROVE  Queue!Accept \/ Queue!Lose
<1> USE CampaignAssumption
<1>1. CASE ringCount >= Depth
  BY <1>1, FullRing, RingQueueSeq DEF Queue!Lose, IInv, TypeOK
<1>2. CASE ringCount < Depth
  <2>1. ringCount \in Nat
    BY DEF IInv, TypeOK
  <2>2. /\ ringCount' = ringCount + 1
        /\ cmPushed' = cmPushed + 1
        /\ cmDropped' = cmDropped
        /\ \A i \in 1 .. ringCount : RingQueue'[i] = RingQueue[i]
        /\ RingQueue'[ringCount + 1] = r
    BY <1>2, PushQueue
  <2>3. RingQueue \in Seq(Result) /\ Len(RingQueue) = ringCount
    BY RingQueueSeq
  <2>4. RingQueue' \in Seq(Result) /\ Len(RingQueue') = ringCount + 1
    BY <2>2, RingQueueSeqNext
  <2>5. SubSeq(RingQueue', 1, ringCount) = RingQueue
    <3>1. \A i \in 1 .. ringCount : RingQueue[i] = RingQueue'[0 + i]
      BY <2>1, <2>2
    <3>2. 0 + ringCount <= Len(RingQueue')
      BY <2>1, <2>4
    <3>3. SubSeq(RingQueue', 0 + 1, 0 + ringCount) = RingQueue
      BY <2>1, <2>3, <2>4, <3>1, <3>2, Slice
    <3>4. QED
      BY <2>1, <3>3
  <2>6. QED
    BY <1>2, <2>1, <2>2, <2>3, <2>4, <2>5 DEF Queue!Accept
<1>3. QED
  BY <1>1, <1>2 DEF IInv, TypeOK

\* A drain leaves the tail of the queue.
LEMMA DrainQueue ==
  ASSUME IInv, IInv', NEW n \in DrainSizes, CmDrain(n)
  PROVE  RingQueue' = SubSeq(RingQueue, Drained(n) + 1, ringCount)
<1> DEFINE k == Drained(n)
<1>1. /\ Depth \in Nat /\ Depth > 0
      /\ ringTail \in Nat /\ ringTail < Depth
      /\ ringCount \in Nat /\ ringCount <= Depth
      /\ k \in Nat /\ k <= ringCount
  BY CampaignAssumption DEF IInv, TypeOK, Drained
<1>2. /\ ringTail' = (ringTail + k) % Depth
      /\ ringCount' = ringCount - k
      /\ UNCHANGED <<ring, cmPushed, cmDropped>>
  BY DEF CmDrain
<1>3. /\ RingQueue \in Seq(Result) /\ Len(RingQueue) = ringCount
      /\ RingQueue' \in Seq(Result) /\ Len(RingQueue') = ringCount - k
  BY RingQueueSeq, RingQueueSeqNext, <1>2
<1> HIDE DEF k
<1>4. (ringTail + k) % Depth = IF ringTail + k < Depth THEN ringTail + k
                               ELSE ringTail + k - Depth
  BY <1>1, ModOnce
<1>5. ASSUME NEW i \in 1 .. ringCount - k
      PROVE  RingQueue'[i] = RingQueue[k + i]
  <2>1. (ringTail' + i - 1) % Depth = (ringTail + (k + i) - 1) % Depth
    <3>1. /\ ringTail + (k + i) - 1 \in Nat
          /\ ringTail + (k + i) - 1 < 2 * Depth
          /\ ringTail' + i - 1 \in Nat
          /\ ringTail' + i - 1 < 2 * Depth
      BY <1>1, <1>2, <1>4
    <3>2. (ringTail + (k + i) - 1) % Depth
            = IF ringTail + (k + i) - 1 < Depth THEN ringTail + (k + i) - 1
              ELSE ringTail + (k + i) - 1 - Depth
      BY <1>1, <3>1, ModOnce
    <3> DEFINE x == ringTail' + i - 1
    <3> HIDE DEF x
    <3>3. x % Depth = IF x < Depth THEN x ELSE x - Depth
      BY <1>1, <3>1, ModOnce DEF x
    <3>4. QED
      BY <1>1, <1>2, <1>4, <3>1, <3>2, <3>3 DEF x
  <2>2. k + i \in 1 .. ringCount /\ i \in 1 .. ringCount'
    BY <1>1, <1>2
  <2>3. QED
    BY <1>2, <2>1, <2>2 DEF RingQueue
<1>6. RingQueue' = SubSeq(RingQueue, k + 1, ringCount)
  <2>1. /\ ringCount - k \in Nat
        /\ k + (ringCount - k) = ringCount
    BY <1>1
  <2>2. SubSeq(RingQueue, k + 1, k + (ringCount - k)) = RingQueue'
    BY <1>1, <1>3, <1>5, <2>1, Slice
  <2>3. QED
    BY <2>1, <2>2
<1>7. QED
  BY <1>6 DEF k

\* A drain takes from the front of the queue.
LEMMA DrainRefines ==
  ASSUME IInv, IInv', NEW n \in DrainSizes, CmDrain(n)
  PROVE  [\E k \in 1 .. Depth : Queue!Take(k)]_(Queue!qvars)
<1> DEFINE k == Drained(n)
<1>1. /\ Depth \in Nat /\ Depth > 0
      /\ ringCount \in Nat /\ ringCount <= Depth
      /\ k \in Nat /\ k <= ringCount
  BY CampaignAssumption DEF IInv, TypeOK, Drained
<1>2. UNCHANGED <<cmPushed, cmDropped>>
  BY DEF CmDrain
<1>3. RingQueue \in Seq(Result) /\ Len(RingQueue) = ringCount
  BY RingQueueSeq
<1>4. RingQueue' = SubSeq(RingQueue, k + 1, ringCount)
  BY DrainQueue
<1> HIDE DEF k
<1>5. CASE k = 0
  <2>1. RingQueue' = SubSeq(RingQueue, 1, Len(RingQueue))
    BY <1>1, <1>3, <1>4, <1>5
  <2>2. RingQueue' = RingQueue
    BY <1>3, <2>1, SubSeqFull
  <2>3. QED
    BY <1>2, <2>2 DEF Queue!qvars
<1>6. CASE k # 0
  <2>1. k \in 1 .. Depth /\ k \in 1 .. Len(RingQueue)
    BY <1>1, <1>3, <1>6
  <2>2. Queue!Take(k)
    BY <1>2, <1>3, <1>4, <2>1 DEF Queue!Take
  <2>3. QED
    BY <2>1, <2>2
<1>7. QED
  BY <1>5, <1>6

\* The result ring is a bounded FIFO that loses only new entries, and counts
\* exactly what it took and what it lost.
THEOREM RingRefinesQueue == HSpec => RingIsLossyQueue
<1>1. HInit => Queue!Init
  <2> SUFFICES ASSUME HInit
               PROVE  Queue!Init
    OBVIOUS
  <2>1. RingQueue = <<>>
    <3>1. IInv /\ ringCount = 0
      BY InitIInv DEF HInit, CmInit
    <3>2. RingQueue \in Seq(Result) /\ Len(RingQueue) = 0
      BY <3>1, RingQueueSeq
    <3>3. QED
      BY <3>2, NoItems
  <2>2. QED
    BY <2>1 DEF Queue!Init, HInit, CmInit
<1>2. ASSUME IInv, IInv', RingShape, [HNext]_vars
      PROVE  [Queue!Next]_(Queue!qvars)
  <2> USE <1>2 DEF ringVars
  <2>1. ASSUME UNCHANGED <<ring, ringTail, ringCount, cmPushed, cmDropped>>
        PROVE  UNCHANGED Queue!qvars
    BY <2>1 DEF Queue!qvars, RingQueue
  <2>2. ASSUME NEW c \in Configs, HConfigure(c)
        PROVE  [Queue!Next]_(Queue!qvars)
    BY <2>1, <2>2 DEF HConfigure, CmConfigure, cmVars
  <2>3. CASE HStart
    <3>1. CASE Startable
      <4>1. ringCount' = 0 /\ cmPushed' = 0 /\ cmDropped' = 0
        BY <2>3, <3>1 DEF HStart, CmStart, Startable
      <4>2. RingQueue' = <<>>
        <5>1. RingQueue' \in Seq(Result) /\ Len(RingQueue') = 0
          BY <4>1, RingQueueSeqNext
        <5>2. QED
          BY <5>1, NoItems
      <4>3. QED
        BY <4>1, <4>2 DEF Queue!Next, Queue!Clear
    <3>2. CASE ~Startable
      BY <2>1, <2>3, <3>2 DEF HStart, CmStart, Startable, cmVars
    <3>3. QED
      BY <3>1, <3>2
  <2>4. CASE HStop
    BY <2>1, <2>4 DEF HStop, CmStop
  <2>5. ASSUME NEW n \in DrainSizes, HDrain(n)
        PROVE  [Queue!Next]_(Queue!qvars)
    BY <2>5, DrainRefines DEF HDrain, Queue!Next
  <2>6. CASE HBeginStep
    BY <2>1, <2>6 DEF HBeginStep, CmBeginStep, StepDue
  <2>7. CASE HReturn
    <3>1. PICK ok \in BOOLEAN, fire \in FireCodes : CmEndStep(ok, fire)
      BY <2>7 DEF HReturn, HEndStep
    <3> DEFINE r == [step |-> cmStep, at |-> CurrentParams, fire |-> fire]
    <3>2. r \in Result /\ RingPush(r)
      BY <3>1, EndStepResult DEF CmEndStep
    <3>3. QED
      BY <3>2, PushRefines DEF Queue!Next
  <2>8. CASE HElapse
    BY <2>1, <2>8 DEF HElapse, CmElapse
  <2>9. CASE UNCHANGED vars
    BY <2>1, <2>9 DEF vars, cmVars
  <2>10. QED
    BY <2>2, <2>3, <2>4, <2>5, <2>6, <2>7, <2>8, <2>9 DEF HNext
<1>3. QED
  BY <1>1, <1>2, RingKeepsShape, InductiveInvariant, PTL DEF HSpec, RingIsLossyQueue, Queue!Spec

-----------------------------------------------------------------------------
(* The cooldown between two steps.  While a sweep runs, the stamp tick()    *)
(* compares with the settle time is never older than the last step really   *)
(* is, so a cooldown that the code takes for over is over.                  *)

StampIsRecent ==
  /\ sinceShot \in Nat
  /\ cmState = "SWEEPING" /\ cmLastStep # NoStamp => cmLastStep <= sinceShot

LEMMA NextStampIsRecent ==
  ASSUME IInv, StampIsRecent, [HNext]_vars
  PROVE  StampIsRecent'
<1> USE DEF StampIsRecent, cmVars, sweepVars, history
<1>1. ASSUME NEW c \in Configs, HConfigure(c)
      PROVE  StampIsRecent'
  BY <1>1 DEF HConfigure, CmConfigure
<1>2. CASE HStart
  BY <1>2 DEF HStart, CmStart, Startable
<1>3. CASE HStop
  BY <1>3 DEF HStop, CmStop
<1>4. ASSUME NEW n \in DrainSizes, HDrain(n)
      PROVE  StampIsRecent'
  BY <1>4 DEF HDrain, CmDrain
<1>5. CASE HBeginStep
  BY <1>5 DEF HBeginStep, CmBeginStep
<1>6. CASE HReturn
  <2>1. PICK ok \in BOOLEAN, fire \in FireCodes : HEndStep(ok, fire)
    BY <1>6 DEF HReturn
  <2>2. sinceShot' = 0
    BY <2>1 DEF HEndStep
  <2>3. cmState' \in {"ERROR", "STOPPED"} \/ cmLastStep' \in {0, NoStamp}
    BY <2>1 DEF HEndStep, CmEndStep
  <2>4. QED
    BY <2>2, <2>3 DEF NoStamp
<1>7. CASE HElapse
  <2>1. /\ cmState' = cmState
        /\ sinceShot' = Older(sinceShot)
        /\ cmLastStep' = IF cmLastStep = NoStamp \/ cmLastStep >= cmCfg.settle
                         THEN cmLastStep ELSE Older(cmLastStep)
    BY <1>7 DEF HElapse, CmElapse
  <2>2. cmLastStep \in Age \cup {NoStamp}
    BY DEF IInv, TypeOK
  <2>3. QED
    BY <2>1, <2>2, HorizonAssumption DEF Older, Age, NoStamp
<1>8. CASE UNCHANGED vars
  BY <1>8 DEF vars
<1>9. QED
  BY <1>1, <1>2, <1>3, <1>4, <1>5, <1>6, <1>7, <1>8 DEF HNext

\* No step starts before the settle time has passed since the end of the step
\* before it, except where the stamp of that end reads as "no step yet".
THEOREM SettleIsHonoured == HSpec => SettleHonoured
<1>1. HInit => StampIsRecent
  BY DEF HInit, CmInit, StampIsRecent
<1>2. IInv /\ StampIsRecent /\ [HNext]_vars => StampIsRecent'
  BY NextStampIsRecent
<1>3. ASSUME IInv, StampIsRecent, [HNext]_vars, ~inStep, inStep', cmLastStep # NoStamp
      PROVE  sinceShot >= cmCfg.settle
  <2> USE <1>3 DEF cmVars, sweepVars
  <2>1. HBeginStep
    <3>1. CASE HStart
      BY <3>1 DEF HStart, CmStart
    <3>2. CASE HStop
      BY <3>2 DEF HStop, CmStop
    <3>3. CASE HReturn
      BY <3>3 DEF HReturn, HEndStep, CmEndStep
    <3>4. CASE HElapse
      BY <3>4 DEF HElapse, CmElapse
    <3>5. ASSUME NEW c \in Configs, HConfigure(c)
          PROVE  FALSE
      BY <3>5 DEF HConfigure, CmConfigure
    <3>6. ASSUME NEW n \in DrainSizes, HDrain(n)
          PROVE  FALSE
      BY <3>6 DEF HDrain, CmDrain
    <3>7. CASE UNCHANGED vars
      BY <3>7 DEF vars
    <3>8. QED
      BY <3>1, <3>2, <3>3, <3>4, <3>5, <3>6, <3>7 DEF HNext
  <2>2. cmState = "SWEEPING" /\ Settled
    BY <2>1 DEF HBeginStep, CmBeginStep, StepDue
  <2>3. cmCfg \in Configs
    BY <2>2 DEF IInv, SweepCoherent
  <2>4. cmCfg.settle \in Nat
    BY <2>3, CampaignAssumption
  <2>5. cmLastStep <= sinceShot /\ sinceShot \in Nat /\ cmLastStep \in Int
    BY <2>2 DEF StampIsRecent, IInv, TypeOK, Age, NoStamp
  <2>6. QED
    BY <2>2, <2>4, <2>5 DEF Settled
<1>4. IInv /\ StampIsRecent /\ [HNext]_vars =>
        [(~inStep /\ inStep' /\ shots # <<>> /\ cmLastStep # NoStamp)
           => sinceShot >= cmCfg.settle]_vars
  BY <1>3
<1>5. QED
  BY <1>1, <1>2, <1>4, InductiveInvariant, PTL DEF HSpec, SettleHonoured

-----------------------------------------------------------------------------
(* What the host has received, and what was fired.                          *)

Shot == [step : Word, at : Params]

Got == delivered \o RingQueue

\* ResultsInOrder, of any four values.
Ordered(got, fired, pushed, dropped) ==
  /\ Len(got) = pushed
  /\ Len(fired) = pushed + dropped
  /\ \A i \in 1 .. Len(got) :
       /\ got[i].step < Len(fired)
       /\ fired[got[i].step + 1] = [step |-> got[i].step, at |-> got[i].at]
  /\ \A i \in 2 .. Len(got) : got[i - 1].step < got[i].step

HistoryTyped == shots \in Seq(Shot) /\ delivered \in Seq(Result)

HistoryAgrees ==
  /\ HistoryTyped
  /\ Ordered(Got, shots, cmPushed, cmDropped)

LEMMA OrderedMeans == ResultsInOrder <=> Ordered(Got, shots, cmPushed, cmDropped)
BY DEF ResultsInOrder, Ordered, Got

\* One more shot: what was in order before still is.
LEMMA OrderedWithShot ==
  ASSUME NEW got \in Seq(Result), NEW fired \in Seq(Shot), NEW p \in Nat, NEW d \in Nat,
         NEW s \in Shot, Ordered(got, fired, p, d)
  PROVE  Ordered(got, Append(fired, s), p, d + 1)
<1> DEFINE f == Append(fired, s)
<1>1. Len(f) = Len(fired) + 1 /\ \A i \in 1 .. Len(fired) : f[i] = fired[i]
  BY AppendProperties
<1>2. Len(fired) \in Nat
  BY LenProperties
<1> HIDE DEF f
<1>3. ASSUME NEW i \in 1 .. Len(got)
      PROVE  /\ got[i].step < Len(f)
             /\ f[got[i].step + 1] = [step |-> got[i].step, at |-> got[i].at]
  <2>1. got[i] \in Result
    BY ElementOfSeq
  <2>2. got[i].step \in Nat
    BY <2>1, WordModAssumption DEF Result, Word
  <2>3. /\ got[i].step < Len(fired)
        /\ fired[got[i].step + 1] = [step |-> got[i].step, at |-> got[i].at]
    BY DEF Ordered
  <2>4. got[i].step + 1 \in 1 .. Len(fired)
    BY <1>2, <2>2, <2>3
  <2>5. QED
    BY <1>1, <1>2, <2>2, <2>3, <2>4
<1>4. Len(f) = p + (d + 1)
  BY <1>1 DEF Ordered
<1>5. QED
  BY <1>3, <1>4 DEF Ordered, f

\* The result of the newest shot goes behind all others.
LEMMA OrderedWithResult ==
  ASSUME NEW got \in Seq(Result), NEW fired \in Seq(Shot), NEW p \in Nat, NEW d \in Nat,
         NEW r \in Result, r.step = Len(fired), Ordered(got, fired, p, d)
  PROVE  Ordered(Append(got, r), Append(fired, [step |-> r.step, at |-> r.at]), p + 1, d)
<1> DEFINE s == [step |-> r.step, at |-> r.at]
           f == Append(fired, s)
           g == Append(got, r)
<1>1. s \in Shot
  BY DEF Result, Shot
<1>2. /\ Len(f) = Len(fired) + 1
      /\ f[Len(fired) + 1] = s
      /\ Len(g) = Len(got) + 1
      /\ \A i \in 1 .. Len(got) : g[i] = got[i]
      /\ g[Len(got) + 1] = r
  BY <1>1, AppendProperties
<1>3. Len(fired) \in Nat /\ Len(got) \in Nat
  BY LenProperties
<1>4. Ordered(got, f, p, d + 1)
  BY <1>1, OrderedWithShot
<1> HIDE DEF f, g
<1>5. ASSUME NEW i \in 1 .. Len(g)
      PROVE  /\ g[i].step < Len(f)
             /\ f[g[i].step + 1] = [step |-> g[i].step, at |-> g[i].at]
  <2>1. CASE i \in 1 .. Len(got)
    <3>1. /\ got[i].step < Len(f)
          /\ f[got[i].step + 1] = [step |-> got[i].step, at |-> got[i].at]
      BY <1>4, <2>1 DEF Ordered
    <3>2. QED
      BY <1>2, <2>1, <3>1
  <2>2. CASE i = Len(got) + 1
    BY <1>2, <1>3, <2>2
  <2>3. QED
    BY <1>2, <1>3, <2>1, <2>2
<1>6. ASSUME NEW i \in 2 .. Len(g)
      PROVE  g[i - 1].step < g[i].step
  <2>1. CASE i \in 2 .. Len(got)
    <3>1. got[i - 1].step < got[i].step
      BY <2>1 DEF Ordered
    <3>2. i \in 1 .. Len(got) /\ i - 1 \in 1 .. Len(got)
      BY <1>3, <2>1
    <3>3. QED
      BY <1>2, <3>1, <3>2
  <2>2. CASE i = Len(got) + 1
    <3>1. i - 1 \in 1 .. Len(got)
      BY <1>3, <2>2
    <3>2. got[i - 1].step < Len(fired)
      BY <3>1 DEF Ordered
    <3>3. g[i] = r /\ g[i - 1] = got[i - 1]
      BY <1>2, <2>2, <3>1
    <3>4. QED
      BY <3>2, <3>3
  <2>3. QED
    BY <1>2, <1>3, <2>1, <2>2
<1>7. Len(g) = p + 1 /\ Len(f) = (p + 1) + d
  BY <1>2, <1>3 DEF Ordered
<1>8. QED
  BY <1>5, <1>6, <1>7 DEF Ordered, f, g

LEMMA GotSeq ==
  ASSUME IInv, HistoryTyped
  PROVE  Got \in Seq(Result)
BY RingQueueSeq, ConcatProperties DEF Got, HistoryTyped

LEMMA StartHistory ==
  ASSUME IInv', HistoryAgrees, HStart
  PROVE  HistoryAgrees'
<1>1. CASE Startable
  <2>1. /\ shots' = <<>> /\ delivered' = <<>>
        /\ cmPushed' = 0 /\ cmDropped' = 0 /\ ringCount' = 0
    BY <1>1 DEF HStart, CmStart, Startable
  <2>2. RingQueue' = <<>>
    <3>1. RingQueue' \in Seq(Result) /\ Len(RingQueue') = 0
      BY <2>1, RingQueueSeqNext
    <3>2. QED
      BY <3>1, NoItems
  <2>3. <<>> \in Seq(Result) /\ <<>> \in Seq(Shot) /\ Len(<<>>) = 0
    BY EmptySeq
  <2>4. Got' = <<>>
    <3>1. <<>> \o <<>> = <<>>
      BY <2>3, ConcatEmptySeq
    <3>2. QED
      BY <2>1, <2>2, <3>1 DEF Got
  <2>5. Ordered(<<>>, <<>>, 0, 0)
    BY <2>3 DEF Ordered
  <2>6. QED
    BY <2>1, <2>3, <2>4, <2>5 DEF HistoryAgrees, HistoryTyped
<1>2. CASE ~Startable
  BY <1>2 DEF HStart, CmStart, Startable, cmVars, ringVars, HistoryAgrees, HistoryTyped, Got,
              RingQueue
<1>3. QED
  BY <1>1, <1>2

\* A drain moves results from the ring to the host and changes no order.
LEMMA DrainHistory ==
  ASSUME IInv, IInv', HistoryAgrees, NEW n \in DrainSizes, HDrain(n)
  PROVE  HistoryAgrees'
<1> DEFINE k == Drained(n)
           front == SubSeq(RingQueue, 1, k)
<1>1. k \in Nat /\ ringCount \in Nat /\ k <= ringCount
  BY CampaignAssumption DEF IInv, TypeOK, Drained
<1>2. /\ delivered' = delivered \o front
      /\ UNCHANGED <<shots, cmPushed, cmDropped>>
  BY DEF HDrain, CmDrain
<1>3. RingQueue' = SubSeq(RingQueue, k + 1, ringCount)
  BY DrainQueue DEF HDrain
<1>4. RingQueue \in Seq(Result) /\ Len(RingQueue) = ringCount /\ RingQueue' \in Seq(Result)
  BY RingQueueSeq, RingQueueSeqNext
<1>5. delivered \in Seq(Result)
  BY DEF HistoryAgrees, HistoryTyped
<1> HIDE DEF k
<1>6. front \in Seq(Result)
  <2>1. \A i \in 1 .. k : RingQueue[i] \in Result
    BY <1>1, <1>4, ElementOfSeq
  <2>2. QED
    BY <1>1, <2>1, SubSeqProperties
<1>7. front \o RingQueue' = RingQueue
  <2>1. /\ 1 \in 1 .. Len(RingQueue) + 1
        /\ k \in 1 - 1 .. Len(RingQueue)
        /\ ringCount \in k .. Len(RingQueue)
    BY <1>1, <1>4
  <2>2. front \o SubSeq(RingQueue, k + 1, ringCount) = SubSeq(RingQueue, 1, ringCount)
    BY <1>4, <2>1, ConcatAdjacentSubSeq
  <2>3. SubSeq(RingQueue, 1, ringCount) = RingQueue
    BY <1>4, SubSeqFull
  <2>4. QED
    BY <1>3, <2>2, <2>3
<1> HIDE DEF front
<1>8. Got' = Got
  <2>1. (delivered \o front) \o RingQueue' = delivered \o (front \o RingQueue')
    BY <1>4, <1>5, <1>6, ConcatAssociative
  <2>2. QED
    BY <1>2, <1>7, <2>1 DEF Got
<1>9. delivered' \in Seq(Result)
  BY <1>2, <1>5, <1>6, ConcatProperties
<1>10. QED
  BY <1>2, <1>8, <1>9 DEF HistoryAgrees, HistoryTyped

\* A step that ends is the newest shot; its result goes behind all others, or
\* is dropped where the ring is full.
LEMMA ReturnHistory ==
  ASSUME IInv, IInv', RingShape, ResultAccounting, HistoryAgrees, HReturn
  PROVE  HistoryAgrees'
<1>1. PICK ok \in BOOLEAN, fire \in FireCodes : HEndStep(ok, fire)
  BY DEF HReturn
<1> DEFINE r == [step |-> cmStep, at |-> CurrentParams, fire |-> fire]
           s == [step |-> cmStep, at |-> CurrentParams]
<1>2. r \in Result /\ RingPush(r)
  BY <1>1, EndStepResult DEF HEndStep, CmEndStep
<1>3. s \in Shot /\ r.step = cmStep /\ s = [step |-> r.step, at |-> r.at]
  BY <1>2 DEF Result, Shot
<1>4. shots' = Append(shots, s) /\ delivered' = delivered
  BY <1>1 DEF HEndStep
<1>5. cmPushed \in Nat /\ cmDropped \in Nat /\ ringCount \in Nat /\ Depth \in Nat
  BY CampaignAssumption DEF IInv, TypeOK
<1>6. Len(shots) = cmStep
  <2>1. cmState = "SWEEPING"
    BY <1>1 DEF HEndStep, CmEndStep, IInv, SweepCoherent
  <2>2. QED
    BY <2>1 DEF ResultAccounting, HistoryAgrees, Ordered
<1>7. /\ shots \in Seq(Shot) /\ delivered \in Seq(Result) /\ Got \in Seq(Result)
      /\ Ordered(Got, shots, cmPushed, cmDropped)
  BY GotSeq DEF HistoryAgrees, HistoryTyped
<1> HIDE DEF r, s
<1>8. shots' \in Seq(Shot)
  BY <1>3, <1>4, <1>7, AppendProperties
<1>9. CASE ringCount >= Depth
  <2>1. Ordered(Got, Append(shots, s), cmPushed, cmDropped + 1)
    BY <1>3, <1>5, <1>7, OrderedWithShot
  <2>2. /\ RingQueue' = RingQueue
        /\ cmPushed' = cmPushed
        /\ cmDropped' = cmDropped + 1
    BY <1>2, <1>9, FullRing
  <2>3. Got' = Got
    BY <1>4, <2>2 DEF Got
  <2>4. QED
    BY <1>4, <1>7, <1>8, <2>1, <2>2, <2>3 DEF HistoryAgrees, HistoryTyped
<1>10. CASE ringCount < Depth
  <2>1. Ordered(Append(Got, r), Append(shots, s), cmPushed + 1, cmDropped)
    BY <1>2, <1>3, <1>5, <1>6, <1>7, OrderedWithResult
  <2>2. /\ ringCount' = ringCount + 1
        /\ cmPushed' = cmPushed + 1
        /\ cmDropped' = cmDropped
        /\ \A i \in 1 .. ringCount : RingQueue'[i] = RingQueue[i]
        /\ RingQueue'[ringCount + 1] = r
    BY <1>2, <1>10, PushQueue
  <2>3. RingQueue \in Seq(Result) /\ Len(RingQueue) = ringCount
    BY RingQueueSeq
  <2>4. RingQueue' \in Seq(Result) /\ Len(RingQueue') = ringCount + 1
    BY <2>2, RingQueueSeqNext
  <2>5. RingQueue' = Append(RingQueue, r)
    <3> DEFINE q == Append(RingQueue, r)
    <3>1. /\ q \in Seq(Result)
          /\ Len(q) = ringCount + 1
          /\ \A i \in 1 .. ringCount : q[i] = RingQueue[i]
          /\ q[ringCount + 1] = r
      BY <1>2, <2>3, AppendProperties
    <3> HIDE DEF q
    <3>2. \A i \in 1 .. ringCount + 1 : RingQueue'[i] = q[i]
      BY <1>5, <2>2, <3>1
    <3>3. RingQueue' = q
      BY <1>5, <2>4, <3>1, <3>2, SameSeq
    <3>4. QED
      BY <3>3 DEF q
  <2>6. Got' = Append(Got, r)
    <3>1. <<r>> \in Seq(Result)
      BY <1>2
    <3>2. Append(RingQueue, r) = RingQueue \o <<r>>
      BY <1>2, <2>3, AppendIsConcat
    <3>3. (delivered \o RingQueue) \o <<r>> = delivered \o (RingQueue \o <<r>>)
      BY <1>7, <2>3, <3>1, ConcatAssociative
    <3>4. Append(Got, r) = Got \o <<r>>
      BY <1>2, <1>7, AppendIsConcat
    <3>5. QED
      BY <1>4, <2>5, <3>2, <3>3, <3>4 DEF Got
  <2>7. QED
    BY <1>4, <1>7, <1>8, <2>1, <2>2, <2>6 DEF HistoryAgrees, HistoryTyped
<1>11. QED
  BY <1>5, <1>9, <1>10

LEMMA NextHistoryAgrees ==
  ASSUME IInv, IInv', RingShape, ResultAccounting, HistoryAgrees, [HNext]_vars
  PROVE  HistoryAgrees'
<1>1. ASSUME UNCHANGED <<ring, ringTail, ringCount, cmPushed, cmDropped, shots, delivered>>
      PROVE  HistoryAgrees'
  BY <1>1 DEF HistoryAgrees, HistoryTyped, Got, RingQueue
<1> USE DEF ringVars, history
<1>2. ASSUME NEW c \in Configs, HConfigure(c)
      PROVE  HistoryAgrees'
  BY <1>1, <1>2 DEF HConfigure, CmConfigure, cmVars
<1>3. CASE HStart
  BY <1>3, StartHistory
<1>4. CASE HStop
  BY <1>1, <1>4 DEF HStop, CmStop
<1>5. ASSUME NEW n \in DrainSizes, HDrain(n)
      PROVE  HistoryAgrees'
  BY <1>5, DrainHistory
<1>6. CASE HBeginStep
  BY <1>1, <1>6 DEF HBeginStep, CmBeginStep
<1>7. CASE HReturn
  BY <1>7, ReturnHistory
<1>8. CASE HElapse
  BY <1>1, <1>8 DEF HElapse, CmElapse
<1>9. CASE UNCHANGED vars
  BY <1>1, <1>9 DEF vars, cmVars
<1>10. QED
  BY <1>2, <1>3, <1>4, <1>5, <1>6, <1>7, <1>8, <1>9 DEF HNext

LEMMA InitHistoryAgrees == HInit => HistoryAgrees
<1> SUFFICES ASSUME HInit
             PROVE  HistoryAgrees
  OBVIOUS
<1>1. /\ shots = <<>> /\ delivered = <<>>
      /\ cmPushed = 0 /\ cmDropped = 0 /\ ringCount = 0
  BY DEF HInit, CmInit
<1>2. RingQueue = <<>>
  <2>1. RingQueue \in Seq(Result) /\ Len(RingQueue) = 0
    BY <1>1, InitIInv, RingQueueSeq
  <2>2. QED
    BY <2>1, NoItems
<1>3. <<>> \in Seq(Result) /\ <<>> \in Seq(Shot) /\ Len(<<>>) = 0
  BY EmptySeq
<1>4. Got = <<>>
  <2>1. <<>> \o <<>> = <<>>
    BY <1>3, ConcatEmptySeq
  <2>2. QED
    BY <1>1, <1>2, <2>1 DEF Got
<1>5. Ordered(<<>>, <<>>, 0, 0)
  BY <1>3 DEF Ordered
<1>6. QED
  BY <1>1, <1>3, <1>4, <1>5 DEF HistoryAgrees, HistoryTyped

LEMMA HistoryKept == HSpec => []HistoryAgrees
<1>1. IInv /\ IInv' /\ RingShape /\ ResultAccounting /\ HistoryAgrees /\ [HNext]_vars
        => HistoryAgrees'
  BY NextHistoryAgrees
<1>2. QED
  BY <1>1, InitHistoryAgrees, InductiveInvariant, RingKeepsShape, ResultsAreAccounted, PTL
     DEF HSpec

\* What the host has drained, and what still waits for it, is the list of the
\* steps that were fired, in their order and with their parameters, short of the
\* dropped ones only: for every depth of the ring and every way to drain it.
THEOREM ResultsComeInOrder == HSpec => []ResultsInOrder
<1>1. HistoryAgrees => ResultsInOrder
  BY OrderedMeans DEF HistoryAgrees
<1>2. QED
  BY <1>1, HistoryKept, PTL

-----------------------------------------------------------------------------
(* The sweep as a whole.  The firmware decodes a step index with divisions  *)
(* and remainders of machine words; the grid is defined by three loops over *)
(* arithmetic progressions.  Where the sweep has steps at all no axis       *)
(* wraps, and then the two agree.                                           *)

LEMMA MulMono ==
  ASSUME NEW a \in Nat, NEW b \in Nat, NEW m \in Nat, a <= b
  PROVE  a * m <= b * m
OBVIOUS

LEMMA MulStrict ==
  ASSUME NEW a \in Nat, NEW b \in Nat, NEW m \in Nat, a < b, m > 0
  PROVE  a * m < b * m
OBVIOUS

LEMMA NextMultiple ==
  ASSUME NEW q \in Nat, NEW m \in Nat
  PROVE  (q + 1) * m = q * m + m
OBVIOUS

LEMMA DivMod ==
  ASSUME NEW n \in Nat, NEW m \in Nat, m > 0
  PROVE  /\ n \div m \in Nat
         /\ n % m \in 0 .. m - 1
         /\ n = (n \div m) * m + (n % m)
OBVIOUS

LEMMA DivModUnique ==
  ASSUME NEW n \in Nat, NEW m \in Nat, NEW q \in Nat, NEW r \in Nat,
         r < m, n = q * m + r
  PROVE  n \div m = q /\ n % m = r
OBVIOUS

\* The quotient stays below the number of blocks.
LEMMA DivBelow ==
  ASSUME NEW n \in Nat, NEW a \in Nat, NEW m \in Nat, m > 0, n < a * m
  PROVE  n \div m < a
<1> DEFINE q == n \div m
<1>1. q \in Nat /\ n % m \in Nat /\ n = q * m + (n % m)
  BY DivMod
<1> HIDE DEF q
<1>2. SUFFICES ASSUME a <= q
               PROVE  FALSE
  BY <1>1 DEF q
<1>3. a * m <= q * m
  BY <1>1, <1>2, MulMono
<1>4. a * m \in Nat /\ q * m \in Nat
  BY <1>1, MulNat
<1>5. QED
  BY <1>1, <1>3, <1>4

\* The next index moves the remainder, or wraps it and moves the quotient.
LEMMA DivModStep ==
  ASSUME NEW n \in Nat, NEW m \in Nat, m > 0
  PROVE  \/ (n + 1) % m = (n % m) + 1 /\ (n + 1) \div m = n \div m
         \/ (n + 1) % m = 0 /\ n % m = m - 1 /\ (n + 1) \div m = (n \div m) + 1
<1> DEFINE q == n \div m
           r == n % m
<1>1. q \in Nat /\ r \in Nat /\ r < m /\ n = q * m + r
  BY DivMod
<1> HIDE DEF q, r
<1>2. CASE r + 1 < m
  <2>1. n + 1 = q * m + (r + 1)
    BY <1>1, MulNat
  <2>2. (n + 1) \div m = q /\ (n + 1) % m = r + 1
    BY <1>1, <1>2, <2>1, DivModUnique
  <2>3. QED
    BY <2>2 DEF q, r
<1>3. CASE r + 1 = m
  <2>1. n + 1 = (q + 1) * m + 0
    <3>1. (q + 1) * m = q * m + m
      BY <1>1
    <3>2. QED
      BY <1>1, <1>3, <3>1, MulNat
  <2>2. (n + 1) \div m = q + 1 /\ (n + 1) % m = 0
    BY <1>1, <2>1, DivModUnique
  <2>3. r = m - 1
    BY <1>1, <1>3
  <2>4. QED
    BY <2>2, <2>3 DEF q, r
<1>4. QED
  BY <1>1, <1>2, <1>3

\* An axis with a word-sized, non-zero number of steps has not wrapped.
LEMMA AxisLength ==
  ASSUME NEW a \in Axis, AxisStepCount(a) # 0
  PROVE  \/ a.step = 0 /\ AxisStepCount(a) = 1
         \/ /\ a.step # 0
            /\ a.start <= a.end
            /\ AxisStepCount(a) = (a.end - a.start) \div a.step + 1
<1>1. /\ a.start \in Nat /\ a.end \in Nat /\ a.step \in Nat
      /\ a.end < WordMod
      /\ WordMod \in Nat /\ WordMod > 1
  BY WordModAssumption DEF Axis, Word
<1>2. CASE a.step = 0
  BY <1>2 DEF AxisStepCount
<1>3. CASE a.step # 0
  <2>1. a.start <= a.end
    BY <1>1, <1>3 DEF AxisStepCount
  <2> DEFINE q == (a.end - a.start) \div a.step
  <2>2. /\ a.end - a.start \in Nat
        /\ q \in Nat
        /\ (a.end - a.start) % a.step \in 0 .. a.step - 1
        /\ a.end - a.start = q * a.step + ((a.end - a.start) % a.step)
    <3>1. a.end - a.start \in Nat
      BY <1>1, <2>1
    <3>2. a.step > 0
      BY <1>1, <1>3
    <3>3. QED
      BY <1>1, <3>1, <3>2, DivMod
  <2>3. AxisStepCount(a) = (q + 1) % WordMod
    BY <1>1, <1>3, <2>1 DEF AxisStepCount
  <2> HIDE DEF q
  <2>4. q * 1 <= q * a.step
    BY <1>1, <1>3, <2>2
  <2>5. q + 1 <= WordMod
    <3>1. q * a.step \in Nat
      BY <1>1, <2>2, MulNat
    <3>2. QED
      BY <1>1, <2>2, <2>4, <3>1
  <2>6. q + 1 # WordMod
    <3>1. WordMod % WordMod = 0
      BY <1>1, ModOnce
    <3>2. QED
      BY <2>3, <3>1
  <2>7. (q + 1) % WordMod = q + 1
    <3>1. q + 1 \in Nat /\ q + 1 < WordMod
      BY <1>1, <2>2, <2>5, <2>6
    <3>2. QED
      BY <1>1, <3>1, ModOnce
  <2>8. QED
    BY <1>3, <2>1, <2>3, <2>7 DEF q
<1>4. QED
  BY <1>2, <1>3

\* Each of its step values is the point the progression has there.
LEMMA AxisValue ==
  ASSUME NEW a \in Axis, NEW i \in Nat, i < AxisStepCount(a)
  PROVE  /\ AxisValueAt(a, i) = a.start + i * a.step
         /\ AxisValueAt(a, i) \in Nat
         /\ AxisValueAt(a, i) \in AxisPoints(a)
<1>1. /\ a.start \in Nat /\ a.end \in Nat /\ a.step \in Nat
      /\ a.start < WordMod /\ a.end < WordMod
      /\ WordMod \in Nat /\ WordMod > 1
  BY WordModAssumption DEF Axis, Word
<1>2. i * a.step \in Nat
  BY <1>1, MulNat
<1>3. AxisStepCount(a) # 0
  BY <1>1
<1>4. CASE a.step = 0 /\ AxisStepCount(a) = 1
  <2>1. i = 0 /\ i * a.step = 0
    BY <1>4
  <2>2. a.start % WordMod = a.start
    BY <1>1, ModOnce
  <2>3. AxisValueAt(a, i) = a.start
    BY <1>1, <2>1, <2>2 DEF AxisValueAt
  <2>4. QED
    BY <1>1, <1>4, <2>1, <2>3 DEF AxisPoints
<1>5. CASE /\ a.step # 0
           /\ a.start <= a.end
           /\ AxisStepCount(a) = (a.end - a.start) \div a.step + 1
  <2> DEFINE q == (a.end - a.start) \div a.step
  <2>1. /\ a.end - a.start \in Nat
        /\ q \in Nat
        /\ (a.end - a.start) % a.step \in Nat
        /\ a.end - a.start = q * a.step + ((a.end - a.start) % a.step)
    BY <1>1, <1>5, DivMod
  <2>2. i <= q
    BY <1>5, <2>1
  <2> HIDE DEF q
  <2>3. i * a.step <= q * a.step /\ q * a.step \in Nat
    BY <1>1, <2>1, <2>2, MulMono, MulNat
  <2>4. a.start + i * a.step <= a.end
    BY <1>1, <1>2, <2>1, <2>3
  <2>5. (a.start + i * a.step) % WordMod = a.start + i * a.step
    <3> DEFINE v == a.start + i * a.step
    <3>1. v \in Nat /\ v < WordMod
      BY <1>1, <1>2, <2>4
    <3> HIDE DEF v
    <3>2. v % WordMod = v
      BY <1>1, <3>1, ModOnce
    <3>3. QED
      BY <3>2 DEF v
  <2>6. AxisValueAt(a, i) = a.start + i * a.step
    BY <2>5 DEF AxisValueAt
  <2>7. ((a.start + i * a.step) - a.start) % a.step = 0
    <3>1. (a.start + i * a.step) - a.start = i * a.step + 0
      BY <1>1, <1>2
    <3>2. (i * a.step + 0) % a.step = 0
      BY <1>1, <1>2, <1>5, DivModUnique
    <3>3. QED
      BY <3>1, <3>2
  <2>8. a.start + i * a.step \in a.start .. a.end
    BY <1>1, <1>2, <2>4
  <2>9. QED
    BY <1>1, <1>2, <1>5, <2>6, <2>7, <2>8 DEF AxisPoints
<1>6. QED
  BY <1>3, <1>4, <1>5, AxisLength

\* Along an axis the values rise.
LEMMA AxisRises ==
  ASSUME NEW a \in Axis, NEW i \in Nat, NEW j \in Nat, i < j, j < AxisStepCount(a)
  PROVE  AxisValueAt(a, i) < AxisValueAt(a, j)
<1>1. a.start \in Nat /\ a.step \in Nat /\ AxisStepCount(a) \in Nat
  BY AxisStepCountWord, WordModAssumption DEF Axis, Word
<1>2. a.step > 0
  BY <1>1, AxisLength
<1>3. i * a.step < j * a.step /\ i * a.step \in Nat /\ j * a.step \in Nat
  BY <1>1, <1>2, MulStrict, MulNat
<1>4. /\ AxisValueAt(a, i) = a.start + i * a.step
      /\ AxisValueAt(a, j) = a.start + j * a.step
  <2>1. i < AxisStepCount(a)
    BY <1>1
  <2>2. QED
    BY <2>1, AxisValue
<1>5. QED
  BY <1>1, <1>3, <1>4

\* Every point of an axis is one of its step values.
LEMMA AxisReached ==
  ASSUME NEW a \in Axis, AxisStepCount(a) # 0, NEW v \in AxisPoints(a)
  PROVE  \E i \in 0 .. AxisStepCount(a) - 1 : AxisValueAt(a, i) = v
<1>1. /\ a.start \in Nat /\ a.end \in Nat /\ a.step \in Nat
      /\ AxisStepCount(a) \in Nat
  BY AxisStepCountWord, WordModAssumption DEF Axis, Word
<1>2. CASE a.step = 0 /\ AxisStepCount(a) = 1
  <2>1. v = a.start
    BY <1>2 DEF AxisPoints
  <2>2. AxisValueAt(a, 0) = a.start + 0 * a.step
    BY <1>2, AxisValue
  <2>3. a.start + 0 * a.step = a.start
    BY <1>1
  <2>4. 0 \in 0 .. AxisStepCount(a) - 1
    BY <1>2
  <2>5. QED
    BY <2>1, <2>2, <2>3, <2>4
<1>3. CASE /\ a.step # 0
           /\ a.start <= a.end
           /\ AxisStepCount(a) = (a.end - a.start) \div a.step + 1
  <2> DEFINE i == (v - a.start) \div a.step
             q == (a.end - a.start) \div a.step
  <2>1. v \in a.start .. a.end /\ (v - a.start) % a.step = 0
    BY <1>3 DEF AxisPoints
  <2>2. /\ v - a.start \in Nat
        /\ i \in Nat
        /\ v - a.start = i * a.step + 0
    <3>1. v - a.start \in Nat
      BY <1>1, <2>1
    <3>2. a.step > 0
      BY <1>1, <1>3
    <3>3. QED
      BY <1>1, <2>1, <3>1, <3>2, DivMod
  <2>3. /\ a.end - a.start \in Nat
        /\ q \in Nat
        /\ (a.end - a.start) % a.step \in 0 .. a.step - 1
        /\ a.end - a.start = q * a.step + ((a.end - a.start) % a.step)
    <3>1. a.end - a.start \in Nat
      BY <1>1, <1>3
    <3>2. a.step > 0
      BY <1>1, <1>3
    <3>3. QED
      BY <1>1, <3>1, <3>2, DivMod
  <2>4. v - a.start <= a.end - a.start
    BY <1>1, <2>1
  <2>5. AxisStepCount(a) = q + 1
    BY <1>3
  <2> HIDE DEF i, q
  <2>6. i <= q
    <3>1. SUFFICES ASSUME q + 1 <= i
                   PROVE  FALSE
      BY <2>2, <2>3
    <3>2. (q + 1) * a.step <= i * a.step
      BY <1>1, <2>2, <2>3, <3>1, MulMono
    <3>3. (q + 1) * a.step = q * a.step + a.step
      BY <1>1, <2>3, NextMultiple
    <3>4. q * a.step \in Nat /\ i * a.step \in Nat
      BY <1>1, <2>2, <2>3, MulNat
    <3>5. QED
      BY <1>1, <2>2, <2>3, <2>4, <3>2, <3>3, <3>4
  <2>7. AxisValueAt(a, i) = a.start + i * a.step
    BY <2>2, <2>3, <2>5, <2>6, AxisValue
  <2>8. a.start + i * a.step = v
    <3>1. i * a.step \in Nat /\ v \in Nat
      BY <1>1, <2>1, <2>2, MulNat
    <3>2. QED
      BY <1>1, <2>2, <3>1
  <2>9. i \in 0 .. AxisStepCount(a) - 1
    BY <2>2, <2>3, <2>5, <2>6
  <2>10. QED
    BY <2>7, <2>8, <2>9
<1>4. QED
  BY <1>2, <1>3, AxisLength

LEMMA AxisCardinality ==
  ASSUME NEW a \in Axis, AxisStepCount(a) # 0
  PROVE  /\ IsFiniteSet(AxisPoints(a))
         /\ Cardinality(AxisPoints(a)) = AxisStepCount(a)
<1> DEFINE n == AxisStepCount(a)
           f == [i \in 0 .. n - 1 |-> AxisValueAt(a, i)]
<1>1. n \in Nat /\ n > 0
  BY AxisStepCountWord, WordModAssumption DEF Word
<1>2. \A i \in 0 .. n - 1 : AxisValueAt(a, i) \in AxisPoints(a) /\ AxisValueAt(a, i) \in Nat
  BY <1>1, AxisValue
<1>3. \A i, j \in 0 .. n - 1 : i # j => AxisValueAt(a, i) # AxisValueAt(a, j)
  <2>1. ASSUME NEW i \in 0 .. n - 1, NEW j \in 0 .. n - 1, i < j
        PROVE  AxisValueAt(a, i) # AxisValueAt(a, j)
    BY <1>1, <1>2, <2>1, AxisRises
  <2>2. QED
    BY <1>1, <2>1
<1>4. \A v \in AxisPoints(a) : \E i \in 0 .. n - 1 : AxisValueAt(a, i) = v
  BY AxisReached
<1>5. f \in Bijection(0 .. n - 1, AxisPoints(a))
  <2>1. f \in [0 .. n - 1 -> AxisPoints(a)]
    BY <1>2
  <2>2. \A i, j \in 0 .. n - 1 : f[i] = f[j] => i = j
    BY <1>3
  <2>3. \A v \in AxisPoints(a) : \E i \in 0 .. n - 1 : f[i] = v
    BY <1>4
  <2>4. QED
    BY <2>1, <2>2, <2>3, Fun_IsBij
<1>6. ExistsBijection(0 .. n - 1, AxisPoints(a))
  BY <1>5, Fun_ExistsBij
<1>7. IsFiniteSet(0 .. n - 1) /\ Cardinality(0 .. n - 1) = n
  BY <1>1, FS_Interval
<1>8. QED
  BY <1>6, <1>7, FS_Bijection

\* A sweep with steps: no axis is empty or wrapped.
LEMMA AxesOfSweep ==
  ASSUME NEW c \in Configs, TotalSteps(c) # 0
  PROVE  /\ c.delay \in Axis /\ c.width \in Axis /\ c.power \in Axis
         /\ AxisStepCount(c.delay) \in Nat /\ AxisStepCount(c.delay) > 0
         /\ AxisStepCount(c.width) \in Nat /\ AxisStepCount(c.width) > 0
         /\ AxisStepCount(c.power) \in Nat /\ AxisStepCount(c.power) > 0
<1> DEFINE d == AxisStepCount(c.delay)
           w == AxisStepCount(c.width)
           p == AxisStepCount(c.power)
<1>1. c.delay \in Axis /\ c.width \in Axis /\ c.power \in Axis
  BY CampaignAssumption
<1>2. d \in Nat /\ w \in Nat /\ p \in Nat
  BY <1>1, AxisStepCountWord, WordModAssumption DEF Word
<1>3. d # 0 /\ w # 0 /\ p # 0
  <2>1. SUFFICES ASSUME d = 0 \/ w = 0 \/ p = 0
                 PROVE  FALSE
    BY <1>2
  <2>2. d * w * p = 0
    BY <1>2, <2>1
  <2>3. 0 % WordMod = 0
    BY WordModAssumption, ModOnce
  <2>4. QED
    BY <2>2, <2>3 DEF TotalSteps
<1>4. QED
  BY <1>1, <1>2, <1>3

LEMMA GridCardinality ==
  ASSUME NEW c \in Configs, TotalSteps(c) # 0
  PROVE  Cardinality(GridPoints(c))
           = AxisStepCount(c.delay) * AxisStepCount(c.width) * AxisStepCount(c.power)
<1> DEFINE D == AxisPoints(c.delay)
           W == AxisPoints(c.width)
           P == AxisPoints(c.power)
           f == [t \in (D \X W) \X P |-> [delay |-> t[1][1], width |-> t[1][2], power |-> t[2]]]
<1>1. /\ IsFiniteSet(D) /\ Cardinality(D) = AxisStepCount(c.delay)
      /\ IsFiniteSet(W) /\ Cardinality(W) = AxisStepCount(c.width)
      /\ IsFiniteSet(P) /\ Cardinality(P) = AxisStepCount(c.power)
  BY AxesOfSweep, AxisCardinality
<1>2. GridPoints(c) = [delay : D, width : W, power : P]
  BY DEF GridPoints
<1> HIDE DEF D, W, P
<1>3. IsFiniteSet(D \X W) /\ Cardinality(D \X W) = Cardinality(D) * Cardinality(W)
  BY <1>1, FS_Product
<1>4. /\ IsFiniteSet((D \X W) \X P)
      /\ Cardinality((D \X W) \X P) = (Cardinality(D) * Cardinality(W)) * Cardinality(P)
  BY <1>1, <1>3, FS_Product
<1>5. f \in Bijection((D \X W) \X P, GridPoints(c))
  <2>1. f \in [(D \X W) \X P -> GridPoints(c)]
    BY <1>2
  <2>2. ASSUME NEW s \in (D \X W) \X P, NEW t \in (D \X W) \X P, f[s] = f[t]
        PROVE  s = t
    BY <2>2
  <2>3. ASSUME NEW g \in GridPoints(c)
        PROVE  \E t \in (D \X W) \X P : f[t] = g
    <3>1. <<<<g.delay, g.width>>, g.power>> \in (D \X W) \X P
      BY <1>2
    <3>2. f[<<<<g.delay, g.width>>, g.power>>] = g
      BY <1>2, <3>1
    <3>3. QED
      BY <3>1, <3>2
  <2>4. QED
    BY <2>1, <2>2, <2>3, Fun_IsBij
<1>6. ExistsBijection((D \X W) \X P, GridPoints(c))
  BY <1>5, Fun_ExistsBij
<1>7. Cardinality(GridPoints(c)) = Cardinality((D \X W) \X P)
  BY <1>4, <1>6, FS_Bijection
<1>8. QED
  BY <1>1, <1>4, <1>7

\* A grid that fits a machine word is counted right.
LEMMA TotalStepsExact ==
  ASSUME NEW c \in Configs, TotalSteps(c) # 0, Cardinality(GridPoints(c)) < WordMod
  PROVE  TotalSteps(c) = Cardinality(GridPoints(c))
<1> DEFINE k == AxisStepCount(c.delay) * AxisStepCount(c.width) * AxisStepCount(c.power)
<1>1. k \in Nat
  BY AxesOfSweep, MulNat
<1>2. Cardinality(GridPoints(c)) = k /\ TotalSteps(c) = k % WordMod
  BY GridCardinality DEF TotalSteps
<1> HIDE DEF k
<1>3. k < WordMod
  BY <1>2
<1>4. k % WordMod = k
  BY <1>1, <1>3, WordModAssumption, ModOnce
<1>5. QED
  BY <1>2, <1>4

\* The indices a step is decoded into stay on their axes.
LEMMA StepIndices ==
  ASSUME NEW d \in Nat, NEW w \in Nat, NEW p \in Nat, w > 0, p > 0,
         NEW n \in Nat, n < d * w * p
  PROVE  /\ n % p \in 0 .. p - 1
         /\ (n \div p) % w \in 0 .. w - 1
         /\ (n \div p) \div w \in Nat
         /\ (n \div p) \div w < d
<1>1. d * w \in Nat
  BY MulNat
<1>2. n % p \in 0 .. p - 1 /\ n \div p \in Nat
  BY DivMod
<1>3. n \div p < d * w
  BY <1>1, DivBelow
<1>4. (n \div p) % w \in 0 .. w - 1 /\ (n \div p) \div w \in Nat
  BY <1>2, DivMod
<1>5. (n \div p) \div w < d
  BY <1>2, <1>3, DivBelow
<1>6. QED
  BY <1>2, <1>4, <1>5

\* Each step of a sweep fires at a point of the grid.
LEMMA StepOnGrid ==
  ASSUME NEW c \in Configs, TotalSteps(c) # 0, NEW n \in Nat,
         n < AxisStepCount(c.delay) * AxisStepCount(c.width) * AxisStepCount(c.power)
  PROVE  StepToParams(c, n) \in GridPoints(c)
<1> DEFINE d == AxisStepCount(c.delay)
           w == AxisStepCount(c.width)
           p == AxisStepCount(c.power)
<1>1. /\ c.delay \in Axis /\ c.width \in Axis /\ c.power \in Axis
      /\ d \in Nat /\ w \in Nat /\ w > 0 /\ p \in Nat /\ p > 0
  BY AxesOfSweep
<1>2. /\ n % p \in 0 .. p - 1
      /\ (n \div p) % w \in 0 .. w - 1
      /\ (n \div p) \div w \in Nat
      /\ (n \div p) \div w < d
  <2> HIDE DEF d, w, p
  <2>1. n < d * w * p
    BY DEF d, w, p
  <2>2. QED
    BY <1>1, <2>1, StepIndices
<1>3. AxisValueAt(c.power, n % p) \in AxisPoints(c.power)
  BY <1>1, <1>2, AxisValue
<1>4. AxisValueAt(c.width, (n \div p) % w) \in AxisPoints(c.width)
  BY <1>1, <1>2, AxisValue
<1>5. AxisValueAt(c.delay, (n \div p) \div w) \in AxisPoints(c.delay)
  BY <1>1, <1>2, AxisValue
<1>6. QED
  BY <1>3, <1>4, <1>5 DEF StepToParams, GridPoints

\* The step after it fires at the point the nested loops visit next.
LEMMA StepsFollowLoops ==
  ASSUME NEW c \in Configs, TotalSteps(c) # 0, NEW n \in Nat,
         n + 1 < AxisStepCount(c.delay) * AxisStepCount(c.width) * AxisStepCount(c.power)
  PROVE  VisitedBefore(StepToParams(c, n), StepToParams(c, n + 1))
<1> DEFINE d == AxisStepCount(c.delay)
           w == AxisStepCount(c.width)
           p == AxisStepCount(c.power)
           x == StepToParams(c, n)
           y == StepToParams(c, n + 1)
           m == n \div p
           m1 == (n + 1) \div p
<1>1. /\ c.delay \in Axis /\ c.width \in Axis /\ c.power \in Axis
      /\ d \in Nat /\ w \in Nat /\ w > 0 /\ p \in Nat /\ p > 0
  BY AxesOfSweep
<1>2. /\ x.power = AxisValueAt(c.power, n % p)
      /\ x.width = AxisValueAt(c.width, m % w)
      /\ x.delay = AxisValueAt(c.delay, m \div w)
      /\ y.power = AxisValueAt(c.power, (n + 1) % p)
      /\ y.width = AxisValueAt(c.width, m1 % w)
      /\ y.delay = AxisValueAt(c.delay, m1 \div w)
  BY DEF StepToParams
<1> HIDE DEF x, y
<1>3. /\ (n + 1) % p \in 0 .. p - 1
      /\ m1 % w \in 0 .. w - 1
      /\ m1 \div w \in Nat
      /\ m1 \div w < d
  <2> HIDE DEF d, w, p
  <2>1. n + 1 < d * w * p
    BY DEF d, w, p
  <2>2. n + 1 \in Nat
    OBVIOUS
  <2>3. QED
    BY <1>1, <2>1, <2>2, StepIndices
<1>4. n % p \in 0 .. p - 1 /\ m \in Nat
  BY <1>1, DivMod
<1>5. m % w \in 0 .. w - 1 /\ m \div w \in Nat
  BY <1>1, <1>4, DivMod
<1>6. CASE (n + 1) % p = (n % p) + 1 /\ m1 = m
  <2>1. AxisValueAt(c.power, n % p) < AxisValueAt(c.power, (n + 1) % p)
    <3>1. n % p \in Nat /\ (n + 1) % p \in Nat /\ n % p < (n + 1) % p /\ (n + 1) % p < p
      BY <1>1, <1>3, <1>4, <1>6
    <3>2. QED
      BY <1>1, <3>1, AxisRises
  <2>2. QED
    BY <1>2, <1>6, <2>1 DEF VisitedBefore, x, y
<1>7. CASE (n + 1) % p = 0 /\ n % p = p - 1 /\ m1 = m + 1
  <2>1. \/ m1 % w = (m % w) + 1 /\ m1 \div w = m \div w
        \/ m1 % w = 0 /\ m % w = w - 1 /\ m1 \div w = (m \div w) + 1
    <3> HIDE DEF m, m1, w
    <3>1. \/ (m + 1) % w = (m % w) + 1 /\ (m + 1) \div w = m \div w
          \/ (m + 1) % w = 0 /\ m % w = w - 1 /\ (m + 1) \div w = (m \div w) + 1
      BY <1>1, <1>4, DivModStep
    <3>2. QED
      BY <1>7, <3>1
  <2>2. CASE m1 % w = (m % w) + 1 /\ m1 \div w = m \div w
    <3>1. m % w \in Nat /\ m1 % w \in Nat /\ m % w < m1 % w /\ m1 % w < w
      BY <1>1, <1>3, <1>5, <2>2
    <3>2. AxisValueAt(c.width, m % w) < AxisValueAt(c.width, m1 % w)
      BY <1>1, <3>1, AxisRises
    <3>3. QED
      BY <1>2, <2>2, <3>2 DEF VisitedBefore, x, y
  <2>3. CASE m1 % w = 0 /\ m % w = w - 1 /\ m1 \div w = (m \div w) + 1
    <3>1. m \div w < m1 \div w
      BY <1>3, <1>5, <2>3
    <3>2. AxisValueAt(c.delay, m \div w) < AxisValueAt(c.delay, m1 \div w)
      BY <1>1, <1>3, <1>5, <3>1, AxisRises
    <3>3. QED
      BY <1>2, <3>2 DEF VisitedBefore, x, y
  <2>4. QED
    BY <2>1, <2>2, <2>3
<1>8. \/ (n + 1) % p = (n % p) + 1 /\ m1 = m
      \/ (n + 1) % p = 0 /\ n % p = p - 1 /\ m1 = m + 1
  BY <1>1, DivModStep
<1>9. QED
  BY <1>6, <1>7, <1>8

\* The shots of a sweep that has not been cut are its steps from the first on.
ShotsAreSteps ==
  cmState \in {"SWEEPING", "DONE"} =>
    \A i \in 1 .. Len(shots) : shots[i].at = StepToParams(cmCfg, i - 1)

LEMMA ShotsCounted ==
  ASSUME ResultAccounting, HistoryAgrees, cmState \in {"SWEEPING", "DONE"}
  PROVE  Len(shots) = cmStep
BY DEF ResultAccounting, HistoryAgrees, Ordered

LEMMA NextShotsAreSteps ==
  ASSUME IInv, ResultAccounting, HistoryAgrees, ShotsAreSteps, [HNext]_vars
  PROVE  ShotsAreSteps'
<1> USE DEF ShotsAreSteps, cmVars, sweepVars, history
<1>1. ASSUME NEW c \in Configs, HConfigure(c)
      PROVE  ShotsAreSteps'
  BY <1>1 DEF HConfigure, CmConfigure
<1>2. CASE HStart
  <2>1. CASE Startable
    <3>1. shots' = <<>>
      BY <1>2, <2>1 DEF HStart
    <3>2. Len(shots') = 0
      BY <3>1
    <3>3. QED
      BY <3>2
  <2>2. CASE ~Startable
    BY <1>2, <2>2 DEF HStart, CmStart, Startable
  <2>3. QED
    BY <2>1, <2>2
<1>3. CASE HStop
  BY <1>3 DEF HStop, CmStop
<1>4. ASSUME NEW n \in DrainSizes, HDrain(n)
      PROVE  ShotsAreSteps'
  BY <1>4 DEF HDrain, CmDrain
<1>5. CASE HBeginStep
  BY <1>5 DEF HBeginStep, CmBeginStep, StepDue
<1>6. CASE HReturn
  <2>1. PICK ok \in BOOLEAN, fire \in FireCodes : HEndStep(ok, fire)
    BY <1>6 DEF HReturn
  <2> DEFINE s == [step |-> cmStep, at |-> CurrentParams]
  <2>2. shots' = Append(shots, s) /\ cmCfg' = cmCfg
    BY <2>1 DEF HEndStep, CmEndStep
  <2>3. cmState = "SWEEPING"
    BY <2>1 DEF HEndStep, CmEndStep, IInv, SweepCoherent
  <2>4. Len(shots) = cmStep /\ cmStep \in Nat
    BY <2>3, ShotsCounted, WordModAssumption DEF IInv, TypeOK, Word
  <2>5. shots \in Seq(Shot) /\ s \in Shot
    <3>1. [step |-> cmStep, at |-> CurrentParams, fire |-> fire] \in Result
      BY <2>1, EndStepResult DEF HEndStep
    <3>2. QED
      BY <3>1 DEF Result, Shot, HistoryAgrees, HistoryTyped
  <2>6. s.at = StepToParams(cmCfg, cmStep)
    BY DEF CurrentParams
  <2> HIDE DEF s
  <2>7. /\ Len(shots') = cmStep + 1
        /\ \A i \in 1 .. cmStep : shots'[i] = shots[i]
        /\ shots'[cmStep + 1] = s
    BY <2>2, <2>4, <2>5, AppendProperties
  <2>8. ASSUME NEW i \in 1 .. Len(shots')
        PROVE  shots'[i].at = StepToParams(cmCfg', i - 1)
    <3>1. CASE i \in 1 .. cmStep
      BY <2>2, <2>3, <2>4, <2>7, <3>1
    <3>2. CASE i = cmStep + 1
      <4>1. i - 1 = cmStep
        BY <2>4, <3>2
      <4>2. QED
        BY <2>2, <2>6, <2>7, <3>2, <4>1
    <3>3. QED
      BY <2>4, <2>7, <3>1, <3>2
  <2>9. QED
    BY <2>8
<1>7. CASE HElapse
  BY <1>7 DEF HElapse, CmElapse
<1>8. CASE UNCHANGED vars
  BY <1>8 DEF vars
<1>9. QED
  BY <1>1, <1>2, <1>3, <1>4, <1>5, <1>6, <1>7, <1>8 DEF HNext

\* A sweep that reports DONE has fired at every point of the configured grid
\* once, in the order of three nested loops: for every word size and every
\* configuration whose grid fits a word.
THEOREM SweepCoversGrid == HSpec => []SweepCovers
<1>1. HInit => ShotsAreSteps
  BY DEF HInit, CmInit, ShotsAreSteps
<1>2. IInv /\ ResultAccounting /\ HistoryAgrees /\ ShotsAreSteps /\ [HNext]_vars
        => ShotsAreSteps'
  BY NextShotsAreSteps
<1>3. ASSUME IInv, ResultAccounting, HistoryAgrees, ShotsAreSteps
      PROVE  SweepCovers
  <2>1. SUFFICES ASSUME cmState = "DONE", Cardinality(GridPoints(cmCfg)) < WordMod
                 PROVE  /\ Len(shots) = Cardinality(GridPoints(cmCfg))
                        /\ \A i \in 1 .. Len(shots) : shots[i].at \in GridPoints(cmCfg)
                        /\ \A i \in 2 .. Len(shots) :
                             VisitedBefore(shots[i - 1].at, shots[i].at)
    BY DEF SweepCovers
  <2>2. /\ cmCfg \in Configs
        /\ TotalSteps(cmCfg) # 0
        /\ cmStep = TotalSteps(cmCfg)
    BY <1>3, <2>1 DEF IInv, SweepCoherent
  <2> DEFINE k == AxisStepCount(cmCfg.delay) * AxisStepCount(cmCfg.width)
                    * AxisStepCount(cmCfg.power)
  <2>3. cmStep = Cardinality(GridPoints(cmCfg)) /\ Cardinality(GridPoints(cmCfg)) = k
    BY <2>1, <2>2, TotalStepsExact, GridCardinality
  <2>4. Len(shots) = cmStep /\ cmStep \in Nat
    BY <1>3, <2>1, ShotsCounted, WordModAssumption DEF IInv, TypeOK, Word
  <2>5. \A i \in 1 .. Len(shots) : shots[i].at = StepToParams(cmCfg, i - 1)
    BY <1>3, <2>1 DEF ShotsAreSteps
  <2>6. ASSUME NEW i \in 1 .. Len(shots)
        PROVE  shots[i].at \in GridPoints(cmCfg)
    <3>1. i - 1 \in Nat /\ i - 1 < k
      <4> HIDE DEF k
      <4>1. QED
        BY <2>3, <2>4
    <3>2. StepToParams(cmCfg, i - 1) \in GridPoints(cmCfg)
      BY <2>2, <3>1, StepOnGrid
    <3>3. QED
      BY <2>5, <3>2
  <2>7. ASSUME NEW i \in 2 .. Len(shots)
        PROVE  VisitedBefore(shots[i - 1].at, shots[i].at)
    <3> DEFINE n == i - 2
    <3>1. n \in Nat /\ n + 1 < k
      <4> HIDE DEF k
      <4>1. QED
        BY <2>3, <2>4
    <3>2. /\ i - 1 \in 1 .. Len(shots)
          /\ i \in 1 .. Len(shots)
          /\ (i - 1) - 1 = n
          /\ i - 1 = n + 1
      BY <2>4
    <3>3. /\ shots[i - 1].at = StepToParams(cmCfg, n)
          /\ shots[i].at = StepToParams(cmCfg, n + 1)
      <4>1. /\ shots[i - 1].at = StepToParams(cmCfg, (i - 1) - 1)
            /\ shots[i].at = StepToParams(cmCfg, i - 1)
        BY <2>5, <3>2
      <4> HIDE DEF n
      <4>2. QED
        BY <3>2, <4>1
    <3> HIDE DEF n
    <3>4. VisitedBefore(StepToParams(cmCfg, n), StepToParams(cmCfg, n + 1))
      BY <2>2, <3>1, StepsFollowLoops
    <3>5. QED
      BY <3>3, <3>4
  <2>8. QED
    BY <2>3, <2>4, <2>6, <2>7
<1>4. QED
  BY <1>1, <1>2, <1>3, InductiveInvariant, ResultsAreAccounted, HistoryKept, PTL DEF HSpec
=============================================================================
