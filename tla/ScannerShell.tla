---------------------------- MODULE ScannerShell -----------------------------
(***************************************************************************)
(* The text shell on the scanner port and everything it starts on the      *)
(* header: pinout scans, the logic analyser, the three binary protocols    *)
(* that take the port over, the UART bridge and the reset pulse.           *)
(*                                                                         *)
(* A scan, a capture and a SUMP capture run inside the command that starts *)
(* them: until it returns the main loop reads no byte of the port and does *)
(* not look at DTR, no campaign steps, and USB is all that is pumped but   *)
(* for the ticks of the two engines in a scan or a SUMP capture.  In turn  *)
(* a campaign step may hold the main loop, and keeps the shell and the DTR *)
(* checks waiting like a command; a step of a sweep may wait for a trigger *)
(* without a time-out.                                                     *)
(***************************************************************************)
EXTENDS LaCommand, SumpOls, BusPirate, Serprog, UartPassthrough, PinoutScanner

CONSTANTS
  JtagPinouts,   \* <<tdi, tdo, tms, tck>> of `buspirate enter`
  SpPinouts      \* <<cs, mosi, miso, sck>> of `serprog enter`

ASSUME PinoutAssumption ==
  JtagPinouts \cup SpPinouts \subseteq Channels \X Channels \X Channels \X Channels

VARIABLES
  mode,          \* s_shell_mode
  jtagPins,      \* jtag_core's pins while it is open, else <<>>
  spPins,        \* the pins serprog owns, else <<>>
  dtr,           \* [scanner, target]: the host holds the port open
  seen,          \* the same as of the last pass of the main loop
  held           \* campaign_manager_tick has not returned

shellvars == <<la, busOwner, las, sump, bp, sp, uart, pin, scan,
               mode, jtagPins, spPins, dtr, seen, held, host>>

Modes == {"TEXT", "BUSPIRATE", "SERPROG", "SUMP"}
Ports == [scanner : BOOLEAN, target : BOOLEAN]

ShellTypeOK ==
  /\ mode \in Modes
  /\ jtagPins \in JtagPinouts \cup {<<>>}
  /\ spPins \in SpPinouts \cup {<<>>}
  /\ dtr \in Ports
  /\ seen \in Ports
  /\ held \in BOOLEAN

ShellInit ==
  /\ mode = "TEXT"
  /\ jtagPins = <<>>
  /\ spPins = <<>>
  /\ dtr = [scanner |-> FALSE, target |-> FALSE]
  /\ seen = [scanner |-> FALSE, target |-> FALSE]
  /\ held = FALSE
  /\ HeaderPinsInit /\ BusLockInit /\ LogicAnalyzerInit /\ LaCommandInit
  /\ SumpInit /\ HostInit /\ BpInit /\ SpInit /\ UartInit /\ ScanInit

\* A command that has not returned yet.
CommandRuns == scan.kind # "NONE" \/ las.phase # "NONE" \/ SumpCapturing

\* The main loop does not come round.
Blocked == CommandRuns \/ held

PinSet(pins) == {pins[i] : i \in DOMAIN pins}

\* Fault: the UART bridge is left out of the check.
ShellBusBusy_Fault ==
  \/ jtagPins # <<>>
  \/ mode = "SERPROG"

\* shell_bus_busy.  The JTAG and SWD sub-shells are not reachable in this
\* release, and an I2C probe is over before the next command is read.
ShellBusBusy ==
  \/ jtagPins # <<>>
  \/ mode = "SERPROG"
  \/ uart.on

\* The next byte is read as text.  Bytes the host sent before it closed the port
\* are still read afterwards.
AtPrompt == mode = "TEXT" /\ ~Blocked

-----------------------------------------------------------------------------
(* Text commands.                                                           *)

ScanCommand ==
  /\ AtPrompt
  /\ ~ShellBusBusy
  /\ \E kind \in {"SWD", "I2C"} : ScanBegin(kind)
  /\ UNCHANGED <<la, las, sump, bp, sp, uart, mode, jtagPins, spPins, dtr, seen, held, host>>

\* cmd_i2c_probe: lock, i2c_init, one address scan, i2c_deinit, unlock.
I2cProbeCommand ==
  /\ AtPrompt
  /\ ~ShellBusBusy
  /\ ~BusHeld
  /\ \E pair \in Pairs : pin' = Muxed({pair[1], pair[2]}, "IN")
  /\ UNCHANGED <<la, busOwner, las, sump, bp, sp, uart, scan,
                 mode, jtagPins, spPins, dtr, seen, held, host>>

\* la_init takes the whole header as inputs, and so does la_deinit.
AllInputs == pin' = [c \in Channels |-> "IN"]

LaCommandBegin ==
  /\ AtPrompt
  /\ ~ShellBusBusy
  /\ \/ LaBegin /\ AllInputs
     \/ LaBeginFails /\ UNCHANGED pin
  /\ UNCHANGED <<sump, bp, sp, uart, scan, mode, jtagPins, spPins, dtr, seen, held, host>>

\* cmd_la_sump_enter
SumpEnter ==
  /\ AtPrompt
  /\ ~ShellBusBusy
  /\ BusTryAcquire("I2C_SCANNER")
  /\ la' = LaOpen
  /\ AllInputs
  /\ sump' = SumpFresh
  /\ mode' = "SUMP"
  /\ UNCHANGED <<las, bp, sp, uart, scan, jtagPins, spPins, dtr, seen, held, host>>

\* process_buspirate_subcmd: jtag_init refuses a pin used twice.
BuspirateEnter ==
  /\ AtPrompt
  /\ ~ShellBusBusy
  /\ \E pins \in JtagPinouts :
       /\ Cardinality(PinSet(pins)) = 4
       /\ jtagPins' = pins
       /\ pin' = [Muxed({pins[1], pins[3], pins[4]}, "OUT") EXCEPT ![pins[2]] = "IN"]
  /\ bp' = BpFresh
  /\ host' = HostFresh
  /\ mode' = "BUSPIRATE"
  /\ UNCHANGED <<la, busOwner, las, sump, sp, uart, scan, spPins, dtr, seen, held>>

\* process_serprog_subcmd checks no pin: one given twice takes the function set
\* last, MISO's.
SerprogEnter ==
  /\ AtPrompt
  /\ ~ShellBusBusy
  /\ \E pins \in SpPinouts :
       /\ spPins' = pins
       /\ pin' = [Muxed({pins[1], pins[2], pins[4]}, "OUT") EXCEPT ![pins[3]] = "IN"]
  /\ sp' = SpFresh
  /\ host' = HostFresh
  /\ mode' = "SERPROG"
  /\ UNCHANGED <<la, busOwner, las, sump, bp, uart, scan, jtagPins, dtr, seen, held>>

\* uart_passthrough_enable; UART0 is native to the first two channels.
UartPins == {0, 1}

UartEnter ==
  /\ AtPrompt
  /\ ~ShellBusBusy
  /\ BusTryAcquire("UART_PASSTHRU")
  /\ pin' = Muxed(UartPins, "UART")
  /\ uart' = UartSession
  /\ UNCHANGED <<la, las, sump, bp, sp, scan, mode, jtagPins, spPins, dtr, seen, held, host>>

\* uart_passthrough_disable drops what is staged; hal_uart_deinit leaves the
\* pins muxed to the UART.
UartDisable ==
  /\ uart.on
  /\ uart' = UartClosed(uart)
  /\ BusRelease("UART_PASSTHRU")

UartExit ==
  /\ AtPrompt
  /\ UartDisable
  /\ UNCHANGED <<la, las, sump, bp, sp, pin, scan, mode, jtagPins, spPins, dtr, seen, held, host>>

\* cmd_target_reset asks neither the check nor the lock: the pin is driven and
\* ends as an input, whoever had it.
ResetCommand ==
  /\ AtPrompt
  /\ \E c \in Channels : pin' = Muxed({c}, "IN")
  /\ UNCHANGED <<la, busOwner, las, sump, bp, sp, uart, scan,
                 mode, jtagPins, spPins, dtr, seen, held, host>>

-----------------------------------------------------------------------------
(* Bytes of a binary mode, and the steps of a command that blocks.          *)

\* bp_on_exit_cb.  No code reads the parser again before its init, so what it
\* was left in is not kept; the same holds for serprog and SUMP.
BuspirateOnExit ==
  /\ bp' = BpFresh
  /\ host' = HostFresh
  /\ pin' = Muxed(PinSet(jtagPins), "IN")
  /\ jtagPins' = <<>>
  /\ mode' = "TEXT"

BuspirateByte ==
  /\ mode = "BUSPIRATE"
  /\ ~Blocked
  /\ \/ /\ BpByte
        /\ UNCHANGED <<pin, jtagPins, mode>>
     \/ /\ BpSaysExit
        /\ BuspirateOnExit
  /\ UNCHANGED <<la, busOwner, las, sump, sp, uart, scan, spPins, dtr, seen, held>>

\* sp_on_exit_cb, sp_release_pins
SerprogOnExit ==
  /\ sp' = SpFresh
  /\ host' = HostFresh
  /\ pin' = Muxed(PinSet(spPins), "IN")
  /\ spPins' = <<>>
  /\ mode' = "TEXT"

SerprogByte ==
  /\ mode = "SERPROG"
  /\ ~Blocked
  /\ SpByte
  /\ UNCHANGED <<la, busOwner, las, sump, bp, uart, pin, scan,
                 mode, jtagPins, spPins, dtr, seen, held>>

\* CMD_FORCE_EXIT, read only between two captures: sump_on_exit_cb.
SumpForceExit ==
  /\ ~SumpCapturing
  /\ sump.state = "IDLE"
  /\ la' = LaClosed
  /\ AllInputs
  /\ BusRelease("I2C_SCANNER")
  /\ mode' = "TEXT"
  /\ sump' = SumpFresh

SumpByte ==
  /\ mode = "SUMP"
  /\ ~Blocked
  /\ \/ SumpFeed /\ UNCHANGED <<busOwner, pin, mode>>
     \/ SumpForceExit
  /\ UNCHANGED <<las, bp, sp, uart, scan, jtagPins, spPins, dtr, seen, held, host>>

ScanProgress ==
  /\ ScanStep
  /\ UNCHANGED <<la, las, sump, bp, sp, uart, mode, jtagPins, spPins, dtr, seen, held, host>>

LaProgress ==
  /\ LaStep
  /\ IF la'.inited THEN UNCHANGED pin ELSE AllInputs
  /\ UNCHANGED <<sump, bp, sp, uart, scan, mode, jtagPins, spPins, dtr, seen, held, host>>

SumpProgress ==
  /\ SumpCapture
  /\ UNCHANGED <<busOwner, las, bp, sp, uart, pin, scan, mode, jtagPins, spPins, dtr, seen, held, host>>

-----------------------------------------------------------------------------
(* The rest of the main loop, and the host.                                 *)

\* Fault: the connect is taken for the disconnect.
Fell_Fault(port) == ~seen[port] /\ dtr[port]

\* The port was open on the last pass of the main loop and is closed now; a fall
\* that was undone in between is never seen.
Fell(port) == seen[port] /\ ~dtr[port]

\* The disconnect checks of one pass.  SUMP does not care.
DisconnectChecks ==
  /\ ~CommandRuns
  /\ seen' = dtr
  /\ IF Fell("scanner") /\ mode = "BUSPIRATE"
     THEN BuspirateOnExit /\ UNCHANGED <<sp, spPins>>
     ELSE IF Fell("scanner") /\ mode = "SERPROG"
     THEN SerprogOnExit /\ UNCHANGED <<bp, jtagPins>>
     ELSE UNCHANGED <<bp, sp, pin, jtagPins, spPins, mode, host>>
  /\ IF Fell("target") /\ uart.on
     THEN UartDisable
     ELSE UNCHANGED <<uart, busOwner>>
  /\ UNCHANGED <<la, las, sump, scan, dtr>>

NoticeDtr ==
  /\ ~held
  /\ DisconnectChecks
  /\ UNCHANGED held

\* campaign_manager_tick runs an executor that waits.  It pumps USB and the two
\* frame ports, not the scanner and target ports.
CampaignWaits ==
  /\ ~Blocked
  /\ held' = TRUE
  /\ UNCHANGED <<la, busOwner, las, sump, bp, sp, uart, pin, scan,
                 mode, jtagPins, spPins, dtr, seen, host>>

\* It returns; the pass goes on to the disconnect checks.
CampaignReturns ==
  /\ held
  /\ DisconnectChecks
  /\ held' = FALSE

PumpUart ==
  /\ ~Blocked
  /\ UartPump
  /\ UNCHANGED <<la, busOwner, las, sump, bp, sp, pin, scan,
                 mode, jtagPins, spPins, dtr, seen, held, host>>

ShiftUart ==
  /\ UartShift
  /\ UNCHANGED <<la, busOwner, las, sump, bp, sp, pin, scan,
                 mode, jtagPins, spPins, dtr, seen, held, host>>

\* The host opens or closes one of its ports, at any time.  One that opens the
\* scanner port while a binary session is still on is not the one that began it.
HostDtr ==
  /\ \E port \in DOMAIN dtr :
       /\ dtr' = [dtr EXCEPT ![port] = ~@]
       /\ host' = IF port = "scanner" /\ dtr'.scanner /\ mode \in {"BUSPIRATE", "SERPROG"}
                  THEN HostReplaced ELSE host
  /\ UNCHANGED <<la, busOwner, las, sump, bp, sp, uart, pin, scan,
                 mode, jtagPins, spPins, seen, held>>

CommandProgress == ScanProgress \/ LaProgress \/ SumpProgress

ShellNext ==
  \/ ScanCommand \/ I2cProbeCommand \/ LaCommandBegin \/ SumpEnter
  \/ BuspirateEnter \/ SerprogEnter \/ UartEnter \/ UartExit \/ ResetCommand
  \/ BuspirateByte \/ SerprogByte \/ SumpByte
  \/ ScanProgress \/ LaProgress \/ SumpProgress
  \/ NoticeDtr \/ CampaignWaits \/ CampaignReturns \/ PumpUart \/ ShiftUart \/ HostDtr

\* The main loop comes round as long as nothing holds it, and a command that holds
\* it goes on.  A campaign step need not end: the crowbar executor waits for its
\* trigger without a time-out.  Nothing is assumed of the host.
ShellSpec ==
  /\ ShellInit
  /\ [][ShellNext]_shellvars
  /\ WF_shellvars(NoticeDtr)
  /\ WF_shellvars(CommandProgress)
=============================================================================
