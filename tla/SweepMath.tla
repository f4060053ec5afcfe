------------------------------ MODULE SweepMath ------------------------------
(***************************************************************************)
(* The pure helpers of services/campaign_manager: how a sweep over three   *)
(* axes is counted and how a step index is decoded into fire parameters.   *)
(*                                                                         *)
(* Every quantity is a uint32_t in the firmware, so each operator reduces  *)
(* its result modulo WordMod (2^32 there, small in the models, so that the *)
(* wrap-around of a large sweep is a case the runs meet).                  *)
(***************************************************************************)
EXTENDS Integers

CONSTANT WordMod

ASSUME WordModAssumption == WordMod \in Nat /\ WordMod > 1

Word == 0 .. WordMod - 1

Axis == [start : Word, end : Word, step : Word]

Params == [delay : Word, width : Word, power : Word]

\* Steps along one axis: a zero step collapses it, an inverted range is empty.
AxisStepCount(a) ==
  CASE a.step = 0                      -> 1
    [] a.step # 0 /\ a.start > a.end   -> 0
    [] a.step # 0 /\ a.start <= a.end  ->
         ((a.end - a.start) \div a.step + 1) % WordMod

\* The size of the grid, as a machine word: a product that overflows wraps.
TotalSteps(c) ==
  (AxisStepCount(c.delay) * AxisStepCount(c.width) * AxisStepCount(c.power)) % WordMod

AxisValueAt(a, i) == (a.start + i * a.step) % WordMod

\* Fault: the width index is taken from the whole step index.
StepToParams_WidthFromStep(c, n) ==
  LET w == AxisStepCount(c.width)
      p == AxisStepCount(c.power)
  IN  [delay |-> AxisValueAt(c.delay, (n \div p) \div w),
       width |-> AxisValueAt(c.width, n % w),
       power |-> AxisValueAt(c.power, n % p)]

\* Power is the innermost axis and delay the outermost.
StepToParams(c, n) ==
  LET w == AxisStepCount(c.width)
      p == AxisStepCount(c.power)
  IN  [delay |-> AxisValueAt(c.delay, (n \div p) \div w),
       width |-> AxisValueAt(c.width, (n \div p) % w),
       power |-> AxisValueAt(c.power, n % p)]

-----------------------------------------------------------------------------
(***************************************************************************)
(* The reference definition the decoding is checked against: the values an *)
(* axis names, written as an arithmetic progression, and the grid as three *)
(* nested loops over them.  It knows nothing of step indices or of words.  *)
(***************************************************************************)

AxisPoints(a) ==
  IF a.step = 0 THEN {a.start}
  ELSE {v \in a.start .. a.end : (v - a.start) % a.step = 0}

GridPoints(c) ==
  [delay : AxisPoints(c.delay), width : AxisPoints(c.width), power : AxisPoints(c.power)]

\* The order in which the nested loops visit two points of the grid.
VisitedBefore(x, y) ==
  \/ x.delay < y.delay
  \/ x.delay = y.delay /\ x.width < y.width
  \/ x.delay = y.delay /\ x.width = y.width /\ x.power < y.power
=============================================================================
