------------------------------ MODULE MCGlitch ------------------------------
(***************************************************************************)
(* Small instances of GlitchSafety.  One of them sweeps with the EMFI      *)
(* engine while the host drives that engine too, the other does so with    *)
(* the crowbar and also tries a sweep whose parameters the engine refuses. *)
(***************************************************************************)
EXTENDS GlitchSafety

Point(a) == [start |-> a, end |-> a, step |-> 0]

Sweep(e, w, p) ==
  [engine |-> e, delay |-> Point(0), width |-> Point(w), power |-> p, settle |-> 0]

MCEmfiSweep == {Sweep("EMFI", 1, Point(0))}

MCCrowbarSweeps == {Sweep("CROWBAR", w, Point(2)) : w \in {0, 1}}

MCEmfiConfigs == {[trigger |-> "IMMEDIATE", chargeTimeout |-> 0, ok |-> TRUE]}

MCCbConfigs == {[trigger |-> "PULSE", out |-> "LP", ok |-> TRUE]}
=============================================================================
