------------------------------- MODULE SumpOls -------------------------------
(***************************************************************************)
(* The SUMP protocol parser over the capture engine: five-byte commands    *)
(* that set up a capture, and ARM, which waits for the trigger, lets the   *)
(* ring fill, stops the DMA and dumps the frozen window, all inside one    *)
(* call that reads no further byte.  The divider and the value of the      *)
(* trigger change no control flow and are left out; of the mask only       *)
(* whether it is zero counts.                                              *)
(***************************************************************************)
EXTENDS LogicAnalyzer

CONSTANTS
  MaxSamples,      \* SUMP_OLS_MAX_SAMPLES
  DefaultSamples,  \* SUMP_OLS_DEFAULT_N_SAMPLES
  Sizes            \* the counts a CAPTURE_SIZE argument can encode

\* The two static asserts of the source: half the ring is headroom for what
\* the DMA writes between the last poll and la_stop.
ASSUME SumpAssumption ==
  /\ MaxSamples \in Nat \ {0}
  /\ DefaultSamples \in 1 .. MaxSamples
  /\ Sizes \subseteq Nat \ {0}
  /\ MaxSamples + Gap + Overshoot <= Ring

VARIABLE sump

SumpCommands == {"IDLE", "DIVIDER", "SIZE", "MASK", "VALUE", "SWALLOW"}
SumpPhases == {"NONE", "WAIT", "FILL", "DUMP"}

\* sump_ols_init: a zeroed struct; size 0 stands for "no CAPTURE_SIZE seen".
SumpFresh ==
  [state |-> "IDLE", byte |-> 0, size |-> 0, post |-> 0, masked |-> FALSE,
   phase |-> "NONE", n |-> 0, cursor |-> 0, start |-> 0]

SumpTypeOK ==
  sump \in [state : SumpCommands, byte : 0 .. 3, size : Sizes \cup {0},
            post : Sizes \cup {0}, masked : BOOLEAN, phase : SumpPhases,
            n : 0 .. MaxSamples, cursor : 0 .. Forever, start : 0 .. Forever]

SumpInit == sump = SumpFresh

SumpCapturing == sump.phase # "NONE"

-----------------------------------------------------------------------------
(* The byte parser.                                                         *)

\* The first byte of a five-byte command.
SumpLongCommand ==
  /\ ~SumpCapturing
  /\ sump.state = "IDLE"
  /\ \E c \in SumpCommands \ {"IDLE"} : sump' = [sump EXCEPT !.state = c, !.byte = 0]
  /\ UNCHANGED la

\* An argument byte; the last one applies the command.
SumpArgument ==
  /\ ~SumpCapturing
  /\ sump.state # "IDLE"
  /\ UNCHANGED la
  /\ \/ /\ sump.byte < 3
        /\ sump' = [sump EXCEPT !.byte = @ + 1]
     \/ /\ sump.byte = 3
        /\ LET idle == [sump EXCEPT !.state = "IDLE", !.byte = 0]
           IN  \/ /\ sump.state \in {"DIVIDER", "VALUE", "SWALLOW"}
                  /\ sump' = idle
               \/ /\ sump.state = "SIZE"
                  /\ \E s \in Sizes, p \in Sizes :
                       sump' = [idle EXCEPT !.size = s, !.post = p]
               \/ /\ sump.state = "MASK"
                  /\ \E m \in BOOLEAN : sump' = [idle EXCEPT !.masked = m]

-----------------------------------------------------------------------------
(* ARM.                                                                     *)

\* The window asked for, clamped to the advertised memory.
SumpWindow ==
  LesserOf(IF sump.size = 0 THEN DefaultSamples ELSE sump.size, MaxSamples)

\* The first sample of the window: the history CAPTURE_SIZE asks for in front
\* of the trigger, as far as it was captured, and the pre-trigger floor when a
\* trigger is armed.
SumpWindowStart(cursor, n) ==
  LET post  == IF sump.post = 0 THEN n ELSE LesserOf(sump.post, n)
      asked == IF n - post > cursor THEN 0 ELSE cursor - (n - post)
  IN  IF sump.masked THEN LesserOf(asked, LaPretrigger(cursor, n)) ELSE asked

\* do_arm: nothing happens when la_start refuses.
SumpArm ==
  /\ ~SumpCapturing
  /\ sump.state = "IDLE"
  /\ la.inited /\ ~la.running
  /\ la' = LaStart(la)
  /\ sump' = [sump EXCEPT !.phase = "WAIT", !.n = SumpWindow, !.cursor = 0, !.start = 0]

SumpFilled(sampled, start) == sampled.total - start >= sump.n

\* Fault: the DMA is not stopped for the dump (the stream-while-capturing loop
\* this code replaced).
SumpStop_Fault(sampled, cursor, start) ==
  \E over \in 0 .. Ring :
    /\ la' = LaStop(LaSampled(sampled, over))
    /\ sump' = [sump EXCEPT !.phase = "DUMP", !.cursor = cursor, !.start = start]

\* The end of the fill loop, on a poll that saw `sampled`: the DMA is stopped, by
\* then a few samples further on.
SumpStop(sampled, cursor, start) ==
  \E over \in 0 .. Overshoot :
    /\ la' = LaStop(LaSampled(sampled, over))
    /\ sump' = [sump EXCEPT !.phase = "DUMP", !.cursor = cursor, !.start = start]

\* One turn of la_wait_for_trigger, without a time-out.  On a match the fill
\* loop polls at once.
SumpWait ==
  /\ sump.phase = "WAIT"
  /\ \E k \in 0 .. Gap :
       LET sampled == LaSampled(la, k)
           hits    == LaTriggerHits(sump.cursor, sampled.total, sump.masked)
       IN  \/ /\ sump.masked \/ hits = {}
              /\ la' = sampled
              /\ sump' = [sump EXCEPT !.cursor = sampled.total]
           \/ \E hit \in hits :
                LET start == SumpWindowStart(hit, sump.n)
                IN  IF SumpFilled(sampled, start)
                    THEN SumpStop(sampled, hit, start)
                    ELSE /\ la' = sampled
                         /\ sump' = [sump EXCEPT !.phase = "FILL", !.cursor = hit,
                                                 !.start = start]

SumpFill ==
  /\ sump.phase = "FILL"
  /\ \E k \in 0 .. Gap :
       LET sampled == LaSampled(la, k)
       IN  IF SumpFilled(sampled, sump.start)
           THEN SumpStop(sampled, sump.cursor, sump.start)
           ELSE /\ la' = sampled
                /\ UNCHANGED sump

\* The n samples of the frozen window go out, newest first, however long the
\* host takes; the trailing yield flushes the last chunk.
SumpDump ==
  /\ sump.phase = "DUMP"
  /\ sump' = [sump EXCEPT !.phase = "NONE", !.n = 0, !.cursor = 0, !.start = 0]
  /\ UNCHANGED la

SumpFeed == SumpLongCommand \/ SumpArgument \/ SumpArm
SumpCapture == SumpWait \/ SumpFill \/ SumpDump
=============================================================================
