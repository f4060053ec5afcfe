------------------------------ MODULE HvCharger ------------------------------
(***************************************************************************)
(* drivers/hv_charger: the flyback charger of the high-voltage capacitor.  *)
(* Arming starts it, disarming stops it, and a safety net polled by the    *)
(* main loop disarms it AutoDisarm after the last arm.  The firmware never *)
(* replaces the default configuration, so the period is a constant.        *)
(***************************************************************************)
EXTENDS Clock

CONSTANT AutoDisarm   \* auto_disarm_ms; 0 switches the safety net off

ASSUME AutoDisarmAssumption == AutoDisarm \in Nat

VARIABLES
  hvArmed,   \* s_armed
  hvAge      \* age of s_armed_at_ms; 0 while disarmed, when nobody reads it

hvVars == <<hvArmed, hvAge>>

HvInit == hvArmed = FALSE /\ hvAge = 0

\* Arming an armed charger restarts its countdown.
HvArm == hvArmed' = TRUE /\ hvAge' = 0

HvDisarm == hvArmed' = FALSE /\ hvAge' = 0

HvExpired == hvArmed /\ AutoDisarm # 0 /\ hvAge >= AutoDisarm

\* Fault: the safety net trips one time unit late.
HvTick_Late ==
  IF hvArmed /\ AutoDisarm # 0 /\ hvAge > AutoDisarm THEN HvDisarm ELSE UNCHANGED hvVars

\* hv_charger_tick: the safety net.
HvTick == IF HvExpired THEN HvDisarm ELSE UNCHANGED hvVars

HvElapse ==
  /\ hvAge' = IF hvArmed THEN Older(hvAge) ELSE hvAge
  /\ UNCHANGED hvArmed
=============================================================================
