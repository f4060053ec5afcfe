--------------------------- MODULE CrowbarFirePath ---------------------------
(***************************************************************************)
(* The crowbar engine in its surroundings: a host that sends any command   *)
(* at any time, the main loop that ticks the engine, and the trigger line  *)
(* behind SM 1.                                                            *)
(***************************************************************************)
EXTENDS CrowbarEngine

CONSTANT FireTimeouts   \* the trigger timeouts a host asks for, 0 for none

ASSUME FireTimeoutsAssumption == FireTimeouts \subseteq Nat

vars == cbVars

Init == CbInit

Host ==
  \/ \E c \in CbConfigs : CbConfigure(c)
  \/ CbArm
  \/ \E t \in FireTimeouts, room \in BOOLEAN : CbFire(t, room)
  \/ CbDisarm

Next == Host \/ CbTick \/ CbPioStep \/ CbElapse

\* The main loop never stops and time goes on.  Nothing is assumed of the host
\* or of the trigger line.
Spec == Init /\ [][Next]_vars /\ WF_vars(CbTick) /\ WF_vars(CbElapse)

-----------------------------------------------------------------------------
(* Invariants.                                                              *)

\* Every variable keeps its type, and only a configuration in range is ever valid.
TypeOK ==
  /\ cbState \in CbStates
  /\ cbErr \in CbErrors
  /\ cbCfg \in CbConfigs \cup {CbZeroConfig}
  /\ cbCfgValid \in BOOLEAN
  /\ cbCfgValid => cbCfg.ok
  /\ cbAge \in Age
  /\ cbTimeout \in FireTimeouts \cup {0}
  /\ cbClaimed \in BOOLEAN
  /\ cbLoaded \in BOOLEAN
  /\ cbOut \in Gates \cup {"NONE"}
  /\ gateFn \in [Gates -> {"SIO", "PIO"}]
  /\ gateLatch \in [Gates -> BOOLEAN]
  /\ sm1 \in Phases
  /\ irq1 \in BOOLEAN

\* SM 1, its program, the gate it was set up for and the pin mux are taken and
\* given back together, a gate is muxed to PIO only while it is the one in use,
\* and a fire that is waited for has all of them.
GateOwned ==
  /\ cbLoaded = cbClaimed
  /\ (cbOut # "NONE") = cbClaimed
  /\ (sm1 # "OFF") = cbClaimed
  /\ irq1 = (sm1 = "DONE")
  /\ \A g \in Gates : gateFn[g] = "PIO" <=> g = cbOut
  /\ cbState = "WAITING" => cbClaimed

\* SAFETY.md invariant 3: never both gates high, also across a fire that was cut
\* while its gate was high and a later fire on the other gate.
BreakBeforeMake == ~(GateHigh("LP") /\ GateHigh("HP"))

\* An engine that reports FIRED or ERROR has let go of both gates.
TerminalQuiet ==
  cbState \in {"FIRED", "ERROR"} => ~cbClaimed /\ sm1 = "OFF" /\ \A g \in Gates : ~GateHigh(g)

\* crowbar_campaign.c: the engine declares ARMED only after both gates are low.
ArmedGatesLow == cbState = "ARMED" => \A g \in Gates : ~GateHigh(g)

-----------------------------------------------------------------------------
(* Liveness.                                                                *)

\* A trigger wait with a timeout ends, whatever the host and the line do.
WaitEnds == (cbState = "WAITING" /\ cbTimeout # 0) ~> cbState # "WAITING"
=============================================================================
