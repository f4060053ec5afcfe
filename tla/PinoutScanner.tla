---------------------------- MODULE PinoutScanner ----------------------------
(***************************************************************************)
(* `scan swd` and `scan i2c`: every ordered pair of distinct channels is   *)
(* tried in turn, with the header lock held for the whole sweep and the    *)
(* firmware's other work done between two candidates.  One candidate is a  *)
(* single uninterrupted step: open the two pins, read, confirm, close.     *)
(***************************************************************************)
EXTENDS HeaderPins, BusLock, Sequences, FiniteSets

CONSTANTS
  Readings,        \* coherent answers: a valid DPIDR, a set of addresses
  NoReading,       \* no answer, a parity error, an incoherent DPIDR
  ConfirmReads     \* PINOUT_SCAN_CONFIRM_READS

ASSUME ScanAssumption ==
  /\ Channels \subseteq Nat /\ IsFiniteSet(Channels)
  /\ NoReading \notin Readings
  /\ ConfirmReads \in Nat \ {0}

VARIABLE scan      \* tried is a history variable

NoPair == <<>>
Pairs == {p \in Channels \X Channels : p[1] # p[2]}

\* wired: where a target really is, fixed for the duration of a sweep.
ScanOff ==
  [kind |-> "NONE", last |-> NoPair, wired |-> NoPair, tried |-> {}, match |-> NoPair]

\* REPORT: the sweep is over and its result, still in the caller's locals, is
\* about to be printed.
ScanKinds == {"NONE", "SWD", "I2C", "REPORT"}

ScanTypeOK ==
  scan \in [kind : ScanKinds, last : Pairs \cup {NoPair}, wired : Pairs \cup {NoPair},
            tried : SUBSET Pairs, match : Pairs \cup {NoPair}]

ScanInit == scan = ScanOff

ScanActive == scan.kind \in {"SWD", "I2C"}
ScanOwner(kind) == IF kind = "SWD" THEN "SCANNER" ELSE "I2C_SCANNER"

-----------------------------------------------------------------------------
(* The permutation iterator.                                                *)

\* The digits of the base-n counter, the first one most significant.
Precedes(p, q) == p[1] < q[1] \/ (p[1] = q[1] /\ p[2] < q[2])

\* perm_unique skips the tuples that repeat a channel.
PermCandidates(last) == {p \in Pairs : last = NoPair \/ Precedes(last, p)}

\* pinout_perm_next: the next pair of distinct channels after `last`.
PermNext(last) ==
  CHOOSE p \in PermCandidates(last) : \A q \in PermCandidates(last) \ {p} : Precedes(p, q)

-----------------------------------------------------------------------------
(* One candidate.                                                           *)

\* What the reads of a candidate can return: the wired target gives the same
\* answer every time, any other pair anything but the same answer each time.
Reads == [1 .. 1 + ConfirmReads -> Readings \cup {NoReading}]
Steady(r) == \A i \in DOMAIN r : r[i] = r[1] /\ r[1] \in Readings
ReadsOf(pair, wired) == {r \in Reads : Steady(r) = (pair = wired)}

\* Fault: the first coherent answer is believed.
Confirmed_Fault(r) == r[1] # NoReading

\* swd_dp_bus_detect / i2c_bus_scan, then the confirming reads.
Confirmed(r) ==
  /\ r[1] # NoReading
  /\ \A i \in 2 .. 1 + ConfirmReads : r[i] = r[1]

\* The lock is tried once; a busy bus is reported and the command is over.
ScanBegin(kind) ==
  /\ scan.kind = "NONE"
  /\ BusTryAcquire(ScanOwner(kind))
  /\ \E wired \in Pairs \cup {NoPair} :
       scan' = [ScanOff EXCEPT !.kind = kind, !.wired = wired]
  /\ UNCHANGED pin

\* swd_phy_init or i2c_init on the pair, the reads, and the deinit that leaves
\* both pins inputs, whatever was read.
ScanCandidate ==
  /\ ScanActive
  /\ PermCandidates(scan.last) # {}
  /\ LET pair == PermNext(scan.last)
     IN  /\ pin' = Muxed({pair[1], pair[2]}, "IN")
         /\ \E r \in ReadsOf(pair, scan.wired) :
              IF Confirmed(r)
              THEN /\ scan' = [scan EXCEPT !.kind = "REPORT", !.match = pair,
                                             !.tried = @ \cup {pair}]
                   /\ BusRelease(ScanOwner(scan.kind))
              ELSE /\ scan' = [scan EXCEPT !.last = pair, !.tried = @ \cup {pair}]
                   /\ UNCHANGED busOwner

ScanExhausted ==
  /\ ScanActive
  /\ PermCandidates(scan.last) = {}
  /\ scan' = [scan EXCEPT !.kind = "REPORT"]
  /\ BusRelease(ScanOwner(scan.kind))
  /\ UNCHANGED pin

\* cmd_scan_swd and cmd_scan_i2c print the result and return to the shell.
ScanReport ==
  /\ scan.kind = "REPORT"
  /\ scan' = ScanOff
  /\ UNCHANGED <<busOwner, pin>>

ScanStep == ScanCandidate \/ ScanExhausted \/ ScanReport
=============================================================================
