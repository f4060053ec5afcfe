----------------------------- MODULE ShellSafety -----------------------------
(***************************************************************************)
(* What the shell and the services on the scanner header promise.          *)
(***************************************************************************)
EXTENDS ScannerShell

\* Every variable keeps its type.
TypeOK ==
  /\ ShellTypeOK
  /\ busOwner \in BusOwners
  /\ pin \in [Channels -> PinFunctions]
  /\ LaTypeOK /\ LasTypeOK /\ SumpTypeOK /\ HostTypeOK
  /\ BpTypeOK /\ SpTypeOK /\ UartTypeOK /\ ScanTypeOK

-----------------------------------------------------------------------------
(* The header has one owner.                                                *)

\* Who is using the header.
Using ==
  [SCAN |-> ScanActive, LA |-> LaActive, SUMP |-> mode = "SUMP",
   BUSPIRATE |-> mode = "BUSPIRATE", SERPROG |-> mode = "SERPROG", UART |-> uart.on]

OneConsumer == \A c, d \in DOMAIN Using : Using[c] /\ Using[d] => c = d

\* The owner the lock should name.  BusPirate and serprog take no lock.
RightfulOwner ==
  IF ScanActive THEN ScanOwner(scan.kind)
  ELSE IF LaActive \/ mode = "SUMP" THEN "I2C_SCANNER"
  ELSE IF uart.on THEN "UART_PASSTHRU"
  ELSE "IDLE"

DriversMatchModes ==
  /\ (jtagPins # <<>>) <=> (mode = "BUSPIRATE")
  /\ (spPins # <<>>) <=> (mode = "SERPROG")
  /\ la.inited <=> (LaActive \/ mode = "SUMP")

\* A pin is driven only for the session that owns it.
DrivenPinsOwned ==
  \A c \in Channels : pin[c] = "OUT" => c \in PinSet(jtagPins) \cup PinSet(spPins)

\* shell_bus_busy and the bus lock together: at most one consumer of the header
\* at a time, the lock names the one that takes it and is free when none does,
\* and whatever way a session ends it leaves no pin driven, no driver open and
\* no lock behind.
HeaderOwned ==
  /\ OneConsumer
  /\ busOwner = RightfulOwner
  /\ DriversMatchModes
  /\ DrivenPinsOwned

-----------------------------------------------------------------------------
(* The binary protocols keep step with their hosts.                         *)

\* The bytes the BusPirate parser takes for the rest of the command in hand.
BpAwaits ==
  CASE bp.state \in {"BBIO_IDLE", "OCD_IDLE"} -> 0
    [] bp.state = "ARGS"       -> bp.args
    [] bp.state = "TAP_LEN_HI" -> 2
    [] bp.state = "TAP_LEN_LO" -> 1
    [] bp.state = "TAP_TDI"    -> 2 * (TdoBytes(bp.total) - bp.out)
    [] bp.state = "TAP_TMS"    -> 2 * (TdoBytes(bp.total) - bp.out) - 1

\* OpenOCD and the parser count the same bytes to go and agree on the mode they
\* are in, and a shift that is over was answered with its TDO bytes.
BpInStep ==
  mode = "BUSPIRATE" /\ host.sync =>
    /\ host.owed = BpAwaits
    /\ host.ocd <=> bp.state # "BBIO_IDLE"
    /\ bp.state = "OCD_IDLE" => bp.out = TdoBytes(bp.total)

\* The same of the serprog parser: the length bytes, then the bytes to write.
SpAwaits ==
  CASE sp.state = "IDLE"   -> 0
    [] sp.state = "ARGS"   -> sp.args
    [] sp.state = "WLEN"   -> 3 + sp.args
    [] sp.state = "RLEN"   -> sp.args + sp.wlen
    [] sp.state = "WBYTES" -> sp.wlen - sp.done

SpInStep == mode = "SERPROG" /\ host.sync => host.owed = SpAwaits

\* A session whose host began it, and asks for no shift longer than
\* BUSPIRATE_TAP_SHIFT_MAX_BITS, stays in step to the byte, whatever commands it
\* strings together and whatever session was cut off before it: a byte that one
\* side takes for data and the other for a command would be obeyed, the exit byte
\* included.  Of a longer shift, and of a host that opens the port in the middle
\* of another one's session, nothing is promised.
HostsInStep == BpInStep /\ SpInStep

-----------------------------------------------------------------------------
(* Captures, bridge and scans deliver what they promise.                    *)

\* The dump of a SUMP capture is lossless: when the DMA has stopped, all n
\* samples of the window have been captured, none is overwritten, and the
\* trigger sample is one of them.
SumpLossless ==
  sump.phase = "DUMP" =>
    /\ la.total - sump.start \in sump.n .. Ring
    /\ sump.cursor \in sump.start .. sump.start + sump.n - 1

\* While it is on, the UART bridge sends the host's bytes in order and accounts for
\* every one: sent, staged or counted as dropped.  (Bytes still staged when it is
\* switched off are discarded and not counted.)
UartInOrder ==
  LET kept == uart.sent \o uart.pending
  IN  uart.on =>
      /\ \A i, j \in 1 .. Len(kept) : i < j => kept[i] < kept[j]
      /\ Len(kept) + uart.dropped = uart.taken

\* A sweep reports the pair the target is wired to and no other, after trying
\* the pairs in front of it; it reports nothing only after trying all of them.
ScanCovers ==
  scan.kind = "REPORT" =>
    /\ scan.match = scan.wired
    /\ scan.tried = {p \in Pairs : scan.match = NoPair \/ p = scan.match \/ Precedes(p, scan.match)}

-----------------------------------------------------------------------------
(* Liveness.                                                                *)

\* No campaign step holds the main loop for ever.  One can: it waits for its
\* trigger until an edge or a STOP comes.
LoopComesRound == []<>~held

\* The shell comes back as long as the main loop comes round.  A BusPirate or
\* serprog session whose host has gone is torn down, so is the bridge of a target
\* port that was closed, unless the host opens the port again first; and a scan or
\* a capture ends by itself.
ControlReturns ==
  LoopComesRound =>
    /\ (mode \in {"BUSPIRATE", "SERPROG"} /\ seen.scanner /\ ~dtr.scanner)
         ~> (mode = "TEXT" \/ dtr.scanner)
    /\ (uart.on /\ seen.target /\ ~dtr.target) ~> (~uart.on \/ dtr.target)
    /\ (scan.kind # "NONE" \/ las.phase # "NONE") ~> AtPrompt
=============================================================================
