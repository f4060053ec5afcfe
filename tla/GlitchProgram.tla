---------------------------- MODULE GlitchProgram ----------------------------
(***************************************************************************)
(* services/glitch_engine/pio_glitch_prog.h: the PIO program both glitch   *)
(* engines compile, and the instruction memory of pio0 it is loaded into.  *)
(*                                                                         *)
(* The program waits for its trigger, then raises and drops its pin once   *)
(* per repeat and flags the CPU.  Its phases are                           *)
(*   WAIT   trigger block and the first delay                              *)
(*   HIGH   the pin is held high                                           *)
(*   GAP    the pin is low again, more pulses may follow                   *)
(*   DONE   the IRQ is raised; the state machine stalls on an empty FIFO   *)
(* and OFF stands for a state machine that is not enabled.  How often it   *)
(* repeats is left open.                                                   *)
(***************************************************************************)
EXTENDS Integers, FiniteSets

Phases == {"OFF", "WAIT", "HIGH", "GAP", "DONE"}

\* The trigger wait compiles to 0 instructions, to 2 for an edge, 3 for a pulse.
Triggers == {"IMMEDIATE", "EDGE", "PULSE"}

TriggerLength(t) == CASE t = "IMMEDIATE" -> 0 [] t = "EDGE" -> 2 [] t = "PULSE" -> 3

\* The crowbar program starts with one extra instruction, SET PINDIRS.
ProgramLength(t, withPindir) == TriggerLength(t) + (IF withPindir THEN 14 ELSE 13)

\* What the state machine can do next.
NextPhase(s) ==
  CASE s = "WAIT" -> {"HIGH"}
    [] s = "HIGH" -> {"GAP"}
    [] s = "GAP"  -> {"HIGH", "DONE"}
    [] OTHER      -> {}

-----------------------------------------------------------------------------
(* The instruction memory shared by the two programs.  The SDK places a new *)
(* program at the highest run of free slots; a loaded one is never moved.   *)

MemorySize == 32

NoProgram == [at |-> 0, length |-> 0]

Slots(p) == p.at .. p.at + p.length - 1

\* Fault: one offset too many is tried.
Fitting_PastEnd(n, p) == {i \in 0 .. MemorySize - n + 1 : (i .. i + n - 1) \cap Slots(p) = {}}

\* The offsets at which a program of n instructions fits beside p.
Fitting(n, p) == {i \in 0 .. MemorySize - n : (i .. i + n - 1) \cap Slots(p) = {}}

Placed(n, p) ==
  LET fit == Fitting(n, p)
  IN  [at |-> CHOOSE i \in fit : \A j \in fit : j <= i, length |-> n]
=============================================================================
