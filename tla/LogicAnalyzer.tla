---------------------------- MODULE LogicAnalyzer ----------------------------
(***************************************************************************)
(* The capture engine behind `la` and SUMP: a PIO sampler and a DMA that   *)
(* writes one byte per sample into a ring, for ever, until it is stopped.  *)
(* A sample is identified by its number since the start; sample c lies at  *)
(* ring position c % Ring until sample c + Ring overwrites it.             *)
(***************************************************************************)
EXTENDS Integers

CONSTANTS
  Ring,             \* LA_CAPTURE_BUFFER_BYTES
  Forever,          \* LA_FOREVER, the DMA's transfer count
  PretriggerMin,    \* LA_PRETRIGGER_MIN
  PretriggerShare,  \* the pre-trigger floor is at most n / this (8)
  Gap,              \* samples written between two polls of la_total
  Overshoot         \* samples written between the last poll and la_stop

ASSUME RingAssumption ==
  /\ Ring \in Nat \ {0}
  /\ Forever \in Nat /\ Forever > Ring
  /\ PretriggerMin \in Nat
  /\ PretriggerShare \in Nat \ {0, 1}
  /\ Gap \in Nat \ {0}
  /\ Overshoot \in Nat

VARIABLE la          \* [inited, running, total], total is what la_total returns

LaClosed == [inited |-> FALSE, running |-> FALSE, total |-> 0]

LaTypeOK == la \in [inited : BOOLEAN, running : BOOLEAN, total : 0 .. Forever]

LogicAnalyzerInit == la = LaClosed

LesserOf(a, b) == IF a < b THEN a ELSE b

\* la_init, which fails when it is open already or when the DMA channel or the
\* PIO state machine is taken, and la_start on the open driver.
LaOpen == [inited |-> TRUE, running |-> FALSE, total |-> 0]
LaStart(l) == [l EXCEPT !.running = TRUE, !.total = 0]

\* The DMA went k samples on; it ends for good at its transfer count.
LaSampled(l, k) ==
  IF l.running THEN [l EXCEPT !.total = LesserOf(@ + k, Forever)] ELSE l

\* The abort leaves the transfer count readable.
LaStop(l) == [l EXCEPT !.running = FALSE]

\* The oldest sample still in the ring, for a reader at `cursor`.
LaSkipLapped(cursor, written) ==
  IF written - cursor > Ring THEN written - Ring ELSE cursor

\* One poll of la_wait_for_trigger that reads up to sample `written`: where the
\* scan can stop on a match.  A mask of 0 matches the first sample; with a mask
\* the samples decide, so any unread one may be the first match.
LaTriggerHits(cursor, written, masked) ==
  LET from == LaSkipLapped(cursor, written)
  IN  IF masked THEN from .. written - 1 ELSE {from} \cap (from .. written - 1)

\* Fault: the floor is not capped by what was captured before the trigger.
LaPretrigger_Fault(cursor, n) ==
  cursor - LesserOf(PretriggerMin, n \div PretriggerShare)

\* la_apply_pretrigger: back the window up by at most PretriggerMin samples,
\* n / PretriggerShare samples, and what was captured at all.
LaPretrigger(cursor, n) ==
  cursor - LesserOf(LesserOf(PretriggerMin, n \div PretriggerShare), cursor)
=============================================================================
