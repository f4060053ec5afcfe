----------------------------- MODULE SweepHistory -----------------------------
(***************************************************************************)
(* CampaignManager with history variables: what the executor was asked to  *)
(* fire and what the host has received since the last START.  The          *)
(* properties of the sweep as a whole are stated here.                     *)
(***************************************************************************)
EXTENDS CampaignManager, FiniteSets

VARIABLES
  shots,      \* <<step, parameters>> of every completed executor call
  delivered,  \* the results drained by the host
  sinceShot   \* age of the end of the last successful step

history == <<shots, delivered, sinceShot>>
vars == <<cmVars, history>>

HInit ==
  /\ CmInit
  /\ shots = <<>>
  /\ delivered = <<>>
  /\ sinceShot = 0

HConfigure(c) == CmConfigure(c) /\ UNCHANGED history

HStart ==
  /\ CmStart
  /\ shots' = IF Startable THEN <<>> ELSE shots
  /\ delivered' = IF Startable THEN <<>> ELSE delivered
  /\ sinceShot' = IF Startable THEN 0 ELSE sinceShot

HStop == CmStop /\ UNCHANGED history

HDrain(n) ==
  /\ CmDrain(n)
  /\ delivered' = delivered \o SubSeq(RingQueue, 1, Drained(n))
  /\ UNCHANGED <<shots, sinceShot>>

HBeginStep == CmBeginStep /\ UNCHANGED history

HEndStep(ok, fire) ==
  /\ CmEndStep(ok, fire)
  /\ shots' = Append(shots, [step |-> cmStep, at |-> CurrentParams])
  /\ sinceShot' = 0
  /\ UNCHANGED delivered

HElapse ==
  /\ CmElapse
  /\ sinceShot' = Older(sinceShot)
  /\ UNCHANGED <<shots, delivered>>

HReturn ==
  \E ok \in BOOLEAN, fire \in FireCodes : Reportable(ok, fire) /\ HEndStep(ok, fire)

HNext ==
  \/ \E c \in Configs : HConfigure(c)
  \/ HStart
  \/ HStop
  \/ \E n \in DrainSizes : HDrain(n)
  \/ HBeginStep
  \/ HReturn
  \/ HElapse

HSpec ==
  /\ HInit
  /\ [][HNext]_vars
  /\ WF_vars(HBeginStep)
  /\ WF_vars(pendingStop /\ HReturn)
  /\ WF_vars(HElapse)

-----------------------------------------------------------------------------
(* Invariants.                                                              *)

\* Every variable of the manager keeps its type; the ring indices stay inside
\* the ring.
TypeOK ==
  /\ cmState \in CmStates
  /\ cmErr \in CmErrors
  /\ cmCfg \in Configs \cup {ZeroConfig}
  /\ cmCfgValid \in BOOLEAN
  /\ cmStep \in Word
  /\ cmTotal \in Word
  /\ cmPushed \in Nat
  /\ cmDropped \in Nat
  /\ cmLastStep \in Age \cup {NoStamp}
  /\ ring \in [0 .. Depth - 1 -> Result]
  /\ ringHead \in 0 .. Depth - 1
  /\ ringTail \in 0 .. Depth - 1
  /\ ringCount \in 0 .. Depth
  /\ inStep \in BOOLEAN
  /\ pendingStop \in BOOLEAN

\* The state word, the step counter and the reentrancy flags agree: a running
\* sweep has a valid configuration and a step left to run, a finished one has
\* run them all, an executor is only ever on the stack of a running sweep, and
\* a deferred STOP exists only while one is.
SweepCoherent ==
  /\ cmState # "IDLE" => cmCfgValid
  /\ cmCfgValid => cmCfg \in Configs /\ cmTotal = TotalSteps(cmCfg) /\ cmTotal > 0
  /\ cmState = "SWEEPING" => cmStep < cmTotal
  /\ cmState = "DONE" => cmStep = cmTotal
  /\ inStep => cmState = "SWEEPING"
  /\ pendingStop => inStep

\* STATUS counters: each executed step was either queued or counted as dropped,
\* whatever the host drained and whenever a STOP or a failure cut the sweep.
ResultAccounting ==
  /\ cmState \in {"SWEEPING", "DONE"} => cmPushed + cmDropped = cmStep
  /\ cmState = "STOPPED" => cmPushed + cmDropped \in {cmStep, cmStep + 1}
  /\ cmState = "ERROR" => cmPushed + cmDropped = cmStep + 1
  /\ ringCount <= cmPushed

\* What the host has drained, followed by what still waits in the ring, is the
\* list of executed steps in the order they ran, each with the parameters that
\* were fired, short of exactly the entries counted as dropped.
ResultsInOrder ==
  LET got == delivered \o RingQueue
  IN  /\ Len(got) = cmPushed
      /\ Len(shots) = cmPushed + cmDropped
      /\ \A i \in 1 .. Len(got) :
           /\ got[i].step < Len(shots)
           /\ shots[got[i].step + 1] = [step |-> got[i].step, at |-> got[i].at]
      /\ \A i \in 2 .. Len(got) : got[i - 1].step < got[i].step

\* A sweep that reports DONE has fired every point of the configured grid
\* exactly once, power fastest and delay slowest.  (A grid whose size does not
\* fit a machine word is excluded: the step count wraps and the sweep ends
\* early, see the README.)
SweepCovers ==
  (cmState = "DONE" /\ Cardinality(GridPoints(cmCfg)) < WordMod) =>
    /\ Len(shots) = Cardinality(GridPoints(cmCfg))
    /\ \A i \in 1 .. Len(shots) : shots[i].at \in GridPoints(cmCfg)
    /\ \A i \in 2 .. Len(shots) : VisitedBefore(shots[i - 1].at, shots[i].at)

-----------------------------------------------------------------------------
(* Action properties.                                                       *)

\* A command that arrives inside a blocking step never changes the sweep the
\* executor is working on: not its configuration, its position or its status.
LiveSweepFrozen ==
  [][inStep => /\ UNCHANGED <<cmCfg, cmCfgValid, cmTotal>>
               /\ inStep' => UNCHANGED <<cmState, cmErr, cmStep>>]_vars

\* A STOP accepted mid-step is never overtaken: it stays pending until the step
\* returns, and then the sweep ends there without advancing to the next step.
StopWins ==
  [][pendingStop => \/ inStep' /\ pendingStop'
                    \/ cmState' \in {"STOPPED", "ERROR"} /\ cmStep' = cmStep]_vars

\* The cooldown counts from the end of the previous step: no step starts sooner
\* than settle_ms after it (unless the stamp fell on the instant the clock reads
\* 0, which the code takes for "no step yet").
SettleHonoured ==
  [][(~inStep /\ inStep' /\ shots # <<>> /\ cmLastStep # NoStamp)
       => sinceShot >= cmCfg.settle]_vars

-----------------------------------------------------------------------------
(* Liveness and refinement.                                                 *)

\* A STOP that arrives mid-step ends the sweep once the step unwinds.
StopHonoured == pendingStop ~> (~inStep /\ cmState # "SWEEPING")

\* The ring with its head, tail and count is a bounded FIFO that loses only new
\* entries and counts them.
Queue == INSTANCE LossyQueue
  WITH Items <- Result, Capacity <- Depth,
       queue <- RingQueue, taken <- cmPushed, lost <- cmDropped

RingIsLossyQueue == Queue!Spec
=============================================================================
