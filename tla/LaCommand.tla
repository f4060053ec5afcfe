------------------------------ MODULE LaCommand ------------------------------
(***************************************************************************)
(* The text command `la <us> <n> [trig=<ch>]`: take the header, start the  *)
(* capture, wait for the trigger or its time-out, then drain the ring to   *)
(* the host while the DMA goes on writing.  A write to a host that does    *)
(* not read stalls, and is given up after LA_WRITE_RETRY_MAX_MS.           *)
(* The 64-byte chunks are abstracted: any sample may be the one whose      *)
(* write stalls.                                                           *)
(***************************************************************************)
EXTENDS LogicAnalyzer, BusLock

CONSTANTS
  LaSizes,       \* the n the host asks for
  Stall,         \* samples the DMA can write while one write stalls
  TriggerWait    \* samples within the trigger time-out

ASSUME LaCommandAssumption ==
  /\ LaSizes \subseteq Nat \ {0}
  /\ Stall \in Nat
  /\ TriggerWait \in Nat
  /\ \A n \in LaSizes : TriggerWait + n <= Forever

VARIABLE las     \* la_stream_and_finish's locals; `torn` is a history variable

\* REPORT: the capture is closed and `told` is what the host is told last.
LasPhases == {"NONE", "WAIT", "POLL", "COPY", "REPORT"}
LasEnds == {"NONE", "NO_TRIGGER", "CLEAN", "OVERFLOW", "TRUNC"}
LasOff ==
  [phase |-> "NONE", n |-> 0, masked |-> FALSE, cursor |-> 0, end |-> 0,
   written |-> 0, overflow |-> FALSE, torn |-> FALSE, told |-> "NONE"]

LasTypeOK ==
  las \in [phase : LasPhases, n : LaSizes \cup {0}, masked : BOOLEAN,
           cursor : 0 .. Forever, end : 0 .. Forever, written : 0 .. Forever,
           overflow : BOOLEAN, torn : BOOLEAN, told : LasEnds]

LaCommandInit == las = LasOff

\* The command holds the header.
LaActive == las.phase \in {"WAIT", "POLL", "COPY"}

lavars == <<la, busOwner, las>>

-----------------------------------------------------------------------------
\* cmd_la up to its trigger wait: the lock, la_init and la_start.
LaBegin ==
  /\ las.phase = "NONE"
  /\ BusTryAcquire("I2C_SCANNER")
  /\ la' = LaStart(LaOpen)
  /\ \E n \in LaSizes, masked \in BOOLEAN :
       las' = [LasOff EXCEPT !.phase = "WAIT", !.n = n, !.masked = masked]

\* la_init found no free DMA channel or state machine: the lock goes back.
LaBeginFails ==
  /\ las.phase = "NONE"
  /\ ~BusHeld
  /\ UNCHANGED <<la, busOwner, las>>

\* la_stop, la_deinit and the release that close every way out.
LaFinish(told, torn) ==
  /\ la' = LaClosed
  /\ BusRelease("I2C_SCANNER")
  /\ las' = [LasOff EXCEPT !.phase = "REPORT", !.told = told, !.torn = torn]

\* One turn of la_wait_for_trigger: the samples written so far are searched.
LaWait ==
  /\ las.phase = "WAIT"
  /\ UNCHANGED busOwner
  /\ \E k \in 0 .. Gap :
       LET sampled == LaSampled(la, k)
           hits    == LaTriggerHits(las.cursor, sampled.total, las.masked)
       IN  /\ sampled.total <= TriggerWait
           /\ la' = sampled
           /\ \/ /\ las.masked \/ hits = {}
                 /\ las' = [las EXCEPT !.cursor = sampled.total]
              \/ \E hit \in hits :
                   LET start == LaPretrigger(hit, las.n)
                   IN  las' = [las EXCEPT !.phase = "POLL", !.cursor = start,
                                          !.end = start + las.n]

LaTriggerTimeout ==
  /\ las.phase = "WAIT"
  /\ las.masked \/ la.total = 0
  /\ LaFinish("NO_TRIGGER", FALSE)

\* The head of the drain loop: how far the DMA is, clipped to the end of the
\* window before the lap check.
LaPoll ==
  /\ las.phase = "POLL"
  /\ las.cursor < las.end
  /\ UNCHANGED busOwner
  /\ \E k \in 0 .. Gap :
       LET sampled == LaSampled(la, k)
           written == LesserOf(sampled.total, las.end)
           from    == LaSkipLapped(las.cursor, written)
       IN  /\ la' = sampled
           /\ las' = [las EXCEPT !.phase = IF from < written THEN "COPY" ELSE "POLL",
                                 !.written = written, !.cursor = from,
                                 !.overflow = @ \/ from # las.cursor]

\* One sample is copied out of the ring; it is torn when the DMA has been over
\* its place again.  The write may stall while the capture goes on, or fail.
LaCopy ==
  /\ las.phase = "COPY"
  /\ LET torn == las.torn \/ la.total - las.cursor > Ring
     IN  \/ \E k \in 0 .. Stall :
              /\ la' = LaSampled(la, k)
              /\ las' = [las EXCEPT
                           !.cursor = @ + 1, !.torn = torn,
                           !.phase = IF las.cursor + 1 < las.written THEN "COPY" ELSE "POLL"]
              /\ UNCHANGED busOwner
         \/ LaFinish("TRUNC", torn)

LaDone ==
  /\ las.phase = "POLL"
  /\ las.cursor = las.end
  /\ LaFinish(IF las.overflow THEN "OVERFLOW" ELSE "CLEAN", las.torn)

\* The flag, if any, is written and the command returns.
LaReport ==
  /\ las.phase = "REPORT"
  /\ las' = LasOff
  /\ UNCHANGED <<la, busOwner>>

LaStep == LaWait \/ LaTriggerTimeout \/ LaPoll \/ LaCopy \/ LaDone \/ LaReport

-----------------------------------------------------------------------------
LaInit == LogicAnalyzerInit /\ BusLockInit /\ LaCommandInit
LaNext == LaBegin \/ LaBeginFails \/ LaStep
LaSpec == LaInit /\ [][LaNext]_lavars

\* The comment on the drain loop: samples the DMA lapped are flagged, so a
\* capture that ends without a flag holds only samples as they were captured.
LapIsFlagged == las.told = "CLEAN" => ~las.torn
=============================================================================
