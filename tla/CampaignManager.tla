--------------------------- MODULE CampaignManager ---------------------------
(***************************************************************************)
(* services/campaign_manager: the sweep orchestrator.  A host stores a     *)
(* configuration, starts the sweep and drains results; the main loop ticks *)
(* the manager, and a tick runs one step of the sweep in an executor that  *)
(* blocks for seconds.  While it blocks it pumps the very serial port that *)
(* carries the host's commands, so CONFIG, START, STOP and DRAIN are also  *)
(* called from inside a step.  A step is therefore two actions here,       *)
(* CmBeginStep and CmEndStep, with inStep true in between.                 *)
(***************************************************************************)
EXTENDS SweepMath, Clock, Sequences

CONSTANTS
  Depth,       \* CAMPAIGN_RESULT_RING_DEPTH
  Configs,     \* the sweep configurations a host sends
  DrainSizes,  \* how many results a host asks for at once
  FailCodes    \* the fire_status an executor reports with a failed step

ASSUME CampaignAssumption ==
  /\ Depth \in Nat \ {0}
  /\ DrainSizes \subseteq Nat \ {0}
  /\ Configs \subseteq [engine : {"EMFI", "CROWBAR"}, delay : Axis, width : Axis,
                        power : Axis, settle : Nat]

\* last_step_at_ms = 0: the code's mark for "no step has run yet".
NoStamp == -1

FireCodes == {"OK", "ABORTED"} \cup FailCodes

Result == [step : Word, at : Params, fire : FireCodes]

ZeroAxis == [start |-> 0, end |-> 0, step |-> 0]

ZeroConfig ==
  [engine |-> "EMFI", delay |-> ZeroAxis, width |-> ZeroAxis, power |-> ZeroAxis,
   settle |-> 0]

ZeroResult == [step |-> 0, at |-> [delay |-> 0, width |-> 0, power |-> 0], fire |-> "OK"]

CmStates == {"IDLE", "CONFIGURING", "SWEEPING", "DONE", "STOPPED", "ERROR"}

CmErrors == {"NONE", "BAD_CONFIG", "NOT_CONFIGURED", "STEP_FAILED", "INTERNAL"}

VARIABLES
  cmState, cmErr, cmCfg, cmCfgValid,
  cmStep,       \* step_n: the next step to run
  cmTotal,      \* total_steps
  cmPushed,     \* results_pushed
  cmDropped,    \* results_dropped
  cmLastStep,   \* age of last_step_at_ms, or NoStamp
  ring, ringHead, ringTail, ringCount,
  inStep,       \* in_step: an executor is on the call stack
  pendingStop   \* pending_stop: a STOP arrived while one was

ringVars == <<ring, ringHead, ringTail, ringCount, cmPushed, cmDropped>>
sweepVars == <<cmState, cmErr, cmCfg, cmCfgValid, cmStep, cmTotal, cmLastStep>>
cmVars == <<sweepVars, ringVars, inStep, pendingStop>>

CmInit ==
  /\ cmState = "IDLE"
  /\ cmErr = "NONE"
  /\ cmCfg = ZeroConfig
  /\ cmCfgValid = FALSE
  /\ cmStep = 0
  /\ cmTotal = 0
  /\ cmPushed = 0
  /\ cmDropped = 0
  /\ cmLastStep = NoStamp
  /\ ring = [i \in 0 .. Depth - 1 |-> ZeroResult]
  /\ ringHead = 0
  /\ ringTail = 0
  /\ ringCount = 0
  /\ inStep = FALSE
  /\ pendingStop = FALSE

-----------------------------------------------------------------------------
(* The result ring.  Definitions marked Fault are the mistakes the properties *)
(* are tried against; the specification does not use them.                  *)

\* Fault: the write index is not wrapped.
RingPush_NoWrap(r) ==
  IF ringCount >= Depth
  THEN /\ cmDropped' = cmDropped + 1
       /\ UNCHANGED <<ring, ringHead, ringTail, ringCount, cmPushed>>
  ELSE /\ ring' = [ring EXCEPT ![ringHead] = r]
       /\ ringHead' = ringHead + 1
       /\ ringCount' = ringCount + 1
       /\ cmPushed' = cmPushed + 1
       /\ UNCHANGED <<ringTail, cmDropped>>

\* Fault: a result that found no room is counted as pushed too.
RingPush_CountsDropped(r) ==
  IF ringCount >= Depth
  THEN /\ cmDropped' = cmDropped + 1
       /\ cmPushed' = cmPushed + 1
       /\ UNCHANGED <<ring, ringHead, ringTail, ringCount>>
  ELSE /\ ring' = [ring EXCEPT ![ringHead] = r]
       /\ ringHead' = (ringHead + 1) % Depth
       /\ ringCount' = ringCount + 1
       /\ cmPushed' = cmPushed + 1
       /\ UNCHANGED <<ringTail, cmDropped>>

\* Fault: a full ring overwrites its oldest entry.
RingPush_Overwrites(r) ==
  /\ ring' = [ring EXCEPT ![ringHead] = r]
  /\ ringHead' = (ringHead + 1) % Depth
  /\ ringTail' = IF ringCount >= Depth THEN (ringTail + 1) % Depth ELSE ringTail
  /\ ringCount' = IF ringCount >= Depth THEN ringCount ELSE ringCount + 1
  /\ cmDropped' = IF ringCount >= Depth THEN cmDropped + 1 ELSE cmDropped
  /\ cmPushed' = IF ringCount >= Depth THEN cmPushed ELSE cmPushed + 1

RingPush(r) ==
  IF ringCount >= Depth
  THEN /\ cmDropped' = cmDropped + 1
       /\ UNCHANGED <<ring, ringHead, ringTail, ringCount, cmPushed>>
  ELSE /\ ring' = [ring EXCEPT ![ringHead] = r]
       /\ ringHead' = (ringHead + 1) % Depth
       /\ ringCount' = ringCount + 1
       /\ cmPushed' = cmPushed + 1
       /\ UNCHANGED <<ringTail, cmDropped>>

\* The queued results, oldest first.
RingQueue == [i \in 1 .. ringCount |-> ring[(ringTail + i - 1) % Depth]]

Drained(n) == IF n < ringCount THEN n ELSE ringCount

\* The host takes up to n results; it may do so in any state, also mid-step.
CmDrain(n) ==
  /\ ringTail' = (ringTail + Drained(n)) % Depth
  /\ ringCount' = ringCount - Drained(n)
  /\ UNCHANGED <<sweepVars, ring, ringHead, cmPushed, cmDropped, inStep, pendingStop>>

-----------------------------------------------------------------------------
(* The control entry points.                                                *)

Busy == inStep \/ cmState = "SWEEPING"

\* Fault: the refusal of a reentrant CONFIG stamps an error on the live sweep.
CmConfigure_StampsError(c) ==
  \/ /\ Busy
     /\ cmErr' = "BAD_CONFIG"
     /\ UNCHANGED <<cmState, cmCfg, cmCfgValid, cmStep, cmTotal, cmLastStep, ringVars,
                    inStep, pendingStop>>
  \/ /\ ~Busy
     /\ TotalSteps(c) # 0
     /\ cmCfg' = c
     /\ cmCfgValid' = TRUE
     /\ cmTotal' = TotalSteps(c)
     /\ cmStep' = 0
     /\ cmState' = "CONFIGURING"
     /\ cmErr' = "NONE"
     /\ UNCHANGED <<cmLastStep, ringVars, inStep, pendingStop>>

\* A running sweep refuses a new configuration without touching its own state.
\* No caller passes a null configuration.
CmConfigure(c) ==
  \/ /\ Busy
     /\ UNCHANGED cmVars
  \/ /\ ~Busy
     /\ TotalSteps(c) = 0
     /\ cmErr' = "BAD_CONFIG"
     /\ UNCHANGED <<cmState, cmCfg, cmCfgValid, cmStep, cmTotal, cmLastStep, ringVars,
                    inStep, pendingStop>>
  \/ /\ ~Busy
     /\ TotalSteps(c) # 0
     /\ cmCfg' = c
     /\ cmCfgValid' = TRUE
     /\ cmTotal' = TotalSteps(c)
     /\ cmStep' = 0
     /\ cmState' = "CONFIGURING"
     /\ cmErr' = "NONE"
     /\ UNCHANGED <<cmLastStep, ringVars, inStep, pendingStop>>

\* START needs a stored configuration and no running sweep, nothing else.
Startable == cmCfgValid /\ ~Busy

\* Fault: the results of the previous sweep stay in the ring.
CmStart_KeepsRing ==
  /\ Startable
  /\ cmStep' = 0
  /\ cmPushed' = 0
  /\ cmDropped' = 0
  /\ cmLastStep' = NoStamp
  /\ cmState' = "SWEEPING"
  /\ cmErr' = "NONE"
  /\ UNCHANGED <<cmCfg, cmCfgValid, cmTotal, ring, ringHead, ringTail, ringCount, inStep,
                 pendingStop>>

CmStart ==
  \/ /\ ~cmCfgValid
     /\ cmErr' = "NOT_CONFIGURED"
     /\ UNCHANGED <<cmState, cmCfg, cmCfgValid, cmStep, cmTotal, cmLastStep, ringVars,
                    inStep, pendingStop>>
  \/ /\ cmCfgValid
     /\ Busy
     /\ UNCHANGED cmVars
  \/ /\ Startable
     /\ cmStep' = 0
     /\ cmPushed' = 0
     /\ cmDropped' = 0
     /\ ringHead' = 0
     /\ ringTail' = 0
     /\ ringCount' = 0
     /\ cmLastStep' = NoStamp
     /\ cmState' = "SWEEPING"
     /\ cmErr' = "NONE"
     /\ UNCHANGED <<cmCfg, cmCfgValid, cmTotal, ring, inStep, pendingStop>>

\* Fault: a STOP between two steps is latched as well.
CmStop_Latches ==
  /\ pendingStop' = (pendingStop \/ cmState = "SWEEPING")
  /\ cmState' = IF ~inStep /\ cmState = "SWEEPING" THEN "STOPPED" ELSE cmState
  /\ UNCHANGED <<cmErr, cmCfg, cmCfgValid, cmStep, cmTotal, cmLastStep, ringVars, inStep>>

\* Mid-step the request is only noted; CmEndStep honours it.
CmStop ==
  /\ pendingStop' = (pendingStop \/ inStep)
  /\ cmState' = IF ~inStep /\ cmState = "SWEEPING" THEN "STOPPED" ELSE cmState
  /\ UNCHANGED <<cmErr, cmCfg, cmCfgValid, cmStep, cmTotal, cmLastStep, ringVars, inStep>>

-----------------------------------------------------------------------------
(* campaign_manager_tick, up to the executor call and from its return on.   *)

\* Fault: the cooldown ends one time unit early.
Settled_Early ==
  \/ cmCfg.settle = 0
  \/ cmLastStep = NoStamp
  \/ cmLastStep + 1 >= cmCfg.settle

\* The cooldown after the previous step is over.
Settled ==
  \/ cmCfg.settle = 0
  \/ cmLastStep = NoStamp
  \/ cmLastStep >= cmCfg.settle

Exhausted == cmStep >= cmTotal

\* A tick has something to do: the sweep runs and the cooldown is over.
StepDue == cmState = "SWEEPING" /\ ~inStep /\ (Exhausted \/ Settled)

\* tick() never finds the sweep exhausted (SweepProofs): the last
\* CmEndStep has already moved it to DONE.  The branch is kept as in the code.
CmBeginStep ==
  /\ StepDue
  /\ cmState' = IF Exhausted THEN "DONE" ELSE cmState
  /\ inStep' = ~Exhausted
  /\ UNCHANGED <<cmErr, cmCfg, cmCfgValid, cmStep, cmTotal, cmLastStep, ringVars, pendingStop>>

CurrentParams == StepToParams(cmCfg, cmStep)

\* Fault: the step is counted before the pending STOP is looked at.
CmEndStep_AdvancesFirst(ok, fire) ==
  /\ inStep
  /\ inStep' = FALSE
  /\ pendingStop' = FALSE
  /\ RingPush([step |-> cmStep, at |-> CurrentParams, fire |-> fire])
  /\ \/ /\ ~ok
        /\ cmErr' = "STEP_FAILED"
        /\ cmState' = "ERROR"
        /\ UNCHANGED <<cmStep, cmLastStep>>
     \/ /\ ok
        /\ cmStep' = cmStep + 1
        /\ cmLastStep' = 0
        /\ cmState' = CASE cmStep + 1 >= cmTotal -> "DONE"
                        [] cmStep + 1 < cmTotal /\ pendingStop -> "STOPPED"
                        [] OTHER -> cmState
        /\ UNCHANGED cmErr
  /\ UNCHANGED <<cmCfg, cmCfgValid, cmTotal>>

\* Fault: the pending STOP is dropped when the step returns.
CmEndStep_ForgetsStop(ok, fire) ==
  /\ inStep
  /\ inStep' = FALSE
  /\ pendingStop' = FALSE
  /\ RingPush([step |-> cmStep, at |-> CurrentParams, fire |-> fire])
  /\ cmStep' = cmStep + 1
  /\ cmLastStep' = 0
  /\ cmState' = IF cmStep + 1 >= cmTotal THEN "DONE" ELSE cmState
  /\ UNCHANGED <<cmErr, cmCfg, cmCfgValid, cmTotal>>

CmEndStep(ok, fire) ==
  /\ inStep
  /\ inStep' = FALSE
  /\ pendingStop' = FALSE
  /\ RingPush([step |-> cmStep, at |-> CurrentParams, fire |-> fire])
  /\ \/ /\ ~ok
        /\ cmErr' = "STEP_FAILED"
        /\ cmState' = "ERROR"
        /\ UNCHANGED <<cmStep, cmLastStep>>
     \/ /\ ok
        /\ pendingStop
        /\ cmState' = "STOPPED"
        /\ UNCHANGED <<cmErr, cmStep, cmLastStep>>
     \/ /\ ok
        /\ ~pendingStop
        /\ cmStep' = cmStep + 1
        \* A clock that reads 0 at this instant leaves the "no step yet" mark.
        /\ cmLastStep' \in {0, NoStamp}
        /\ cmState' = IF cmStep + 1 >= cmTotal THEN "DONE" ELSE cmState
        /\ UNCHANGED cmErr
  /\ UNCHANGED <<cmCfg, cmCfgValid, cmTotal>>

\* The sweep settles into STOPPED: the code now calls the engine's stop hook.
CmStopSettles == cmState # "STOPPED" /\ cmState' = "STOPPED"

\* The stamp is compared with the settle time only, and START erases it before
\* another settle time can apply: its age is counted no further than that.
CmElapse ==
  /\ cmLastStep' = IF cmLastStep = NoStamp \/ cmLastStep >= cmCfg.settle
                   THEN cmLastStep ELSE Older(cmLastStep)
  /\ UNCHANGED <<cmState, cmErr, cmCfg, cmCfgValid, cmStep, cmTotal, ringVars, inStep,
                 pendingStop>>

\* What an executor may report.  It aborts a step only after a STOP.
Reportable(ok, fire) ==
  \/ ok /\ fire = "OK"
  \/ ok /\ fire = "ABORTED" /\ pendingStop
  \/ ~ok /\ fire \in FailCodes

CmHost ==
  \/ \E c \in Configs : CmConfigure(c)
  \/ CmStart
  \/ CmStop
  \/ \E n \in DrainSizes : CmDrain(n)

CmReturn ==
  \E ok \in BOOLEAN, fire \in FireCodes : Reportable(ok, fire) /\ CmEndStep(ok, fire)

CmNext == CmHost \/ CmBeginStep \/ CmReturn \/ CmElapse

\* The main loop keeps ticking the manager, and every executor polls
\* campaign_manager_stop_pending(), so a step in which a STOP is pending returns.
CmFairness ==
  /\ WF_cmVars(CmBeginStep)
  /\ WF_cmVars(pendingStop /\ CmReturn)
  /\ WF_cmVars(CmElapse)

CmSpec == CmInit /\ [][CmNext]_cmVars /\ CmFairness
=============================================================================
