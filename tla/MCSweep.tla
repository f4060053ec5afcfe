------------------------------- MODULE MCSweep -------------------------------
(***************************************************************************)
(* Small instance of SweepHistory: words of three bits, a ring of two      *)
(* entries, and configurations that meet every shape of sweep: two axes    *)
(* with a cooldown, two axes that both move inside the outer one, a grid   *)
(* whose size wraps to zero, one whose size wraps to one, and an axis with *)
(* no value.                                                               *)
(***************************************************************************)
EXTENDS SweepHistory

Line(a, b, s) == [start |-> a, end |-> b, step |-> s]
Point(a) == Line(a, a, 0)

Sweep(e, d, w, p, s) == [engine |-> e, delay |-> d, width |-> w, power |-> p, settle |-> s]

MCConfigs ==
  {Sweep("EMFI", Line(0, 1, 1), Line(1, 4, 3), Point(2), 1),
   Sweep("CROWBAR", Point(0), Line(3, 4, 1), Line(1, 2, 1), 0),
   Sweep("EMFI", Line(0, 1, 1), Line(0, 1, 1), Line(1, 2, 1), 0),
   Sweep("EMFI", Line(0, 2, 1), Line(0, 4, 2), Point(1), 0),
   Sweep("CROWBAR", Line(5, 2, 1), Point(0), Point(0), 0)}

MCDrainSizes == {1, 3}
=============================================================================
