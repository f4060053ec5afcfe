------------------------------ MODULE BusPirate ------------------------------
(***************************************************************************)
(* The BusPirate / OpenOCD binary parser, and OpenOCD at the other end.    *)
(* What a byte means depends on who looks at it: to a side that expects a  *)
(* command it is the command c, to one that expects the second byte of a   *)
(* length it makes that length len, and to any other it is data.           *)
(***************************************************************************)
EXTENDS PortHost

CONSTANTS
  TapMax,       \* BUSPIRATE_TAP_SHIFT_MAX_BITS
  TapLengths,   \* the bit counts a TAP_SHIFT header can carry
  ByteBits      \* 8

ASSUME TapAssumption ==
  /\ TapMax \in Nat \ {0}
  /\ TapLengths \subseteq Nat
  /\ ByteBits \in Nat \ {0}

VARIABLE bp      \* out is a history variable: TDO bytes sent for this shift

BpStates == {"BBIO_IDLE", "OCD_IDLE", "ARGS", "TAP_LEN_HI", "TAP_LEN_LO",
             "TAP_TDI", "TAP_TMS"}

BpFresh == [state |-> "BBIO_IDLE", args |-> 0, total |-> 0, done |-> 0, out |-> 0]

BpTypeOK ==
  bp \in [state : BpStates, args : 0 .. 3, total : 0 .. TapMax, done : 0 .. TapMax,
          out : 0 .. TapMax]

BpInit == bp = BpFresh

-----------------------------------------------------------------------------
(* The host's side of the protocol.                                         *)

\* The bytes a command has after its first one, a shift's data not included.
\* BACK is 0x00, QUERY stands for READ_ADCS and whatever the parser only answers.
OcdArguments ==
  [BACK |-> 0, ENTER |-> 0, QUERY |-> 0, PORT_MODE |-> 1, FEATURE |-> 2,
   UART_SPEED |-> 3, JTAG_SPEED |-> 2, TAP_SHIFT |-> 2]

OcdCommands == {"BACK", "ENTER", "QUERY", "PORT_MODE", "FEATURE", "UART_SPEED",
                "JTAG_SPEED", "TAP_SHIFT"}

\* The started bytes of a number of bits.
TdoBytes(bits) == (bits + ByteBits - 1) \div ByteBits

\* TDI and TMS bytes interleaved, as many pairs as the length it asked for fills.
TapPayload(bits) == 2 * TdoBytes(bits)

\* Outside OpenOCD mode it sends 0x00 until it is answered, then ENTER.
OcdCommand(c) ==
  /\ host.owed = 0
  /\ host.ocd \/ c \in {"BACK", "ENTER"}
  /\ host' = [host EXCEPT !.owed = OcdArguments[c],
                          !.header = IF c = "TAP_SHIFT" THEN 2 ELSE 0,
                          !.ocd = (c # "BACK")]

\* A shift longer than the parser's limit breaks the rules: its data are sent in
\* full, although the parser goes by the length it cut.
OcdRest(len) ==
  /\ host.owed > 0
  /\ host' = [HostSends(TapPayload(len)) EXCEPT
                !.sync = @ /\ (host.header = 1 => len <= TapMax)]

-----------------------------------------------------------------------------
(* The parser.                                                              *)

\* BBIO1: 0x06 goes on to OpenOCD mode; every other byte but 0x0F repeats the
\* greeting.
BpGreet(c) ==
  /\ bp.state = "BBIO_IDLE"
  /\ bp' = IF c = "ENTER" THEN [bp EXCEPT !.state = "OCD_IDLE"] ELSE bp

BpLeaveOcd(c) ==
  /\ bp.state = "OCD_IDLE"
  /\ c = "BACK"
  /\ bp' = [bp EXCEPT !.state = "BBIO_IDLE"]

BpAnswer(c) ==
  /\ bp.state = "OCD_IDLE"
  /\ c \in {"ENTER", "QUERY"}
  /\ bp' = bp

\* The parser has a state for each argument byte it swallows.
BpArgStates == [PORT_MODE |-> 1, FEATURE |-> 2, UART_SPEED |-> 3, JTAG_SPEED |-> 2]

BpArgCommand(c) ==
  /\ bp.state = "OCD_IDLE"
  /\ c \in {"PORT_MODE", "FEATURE", "UART_SPEED", "JTAG_SPEED"}
  /\ bp' = [bp EXCEPT !.state = "ARGS", !.args = BpArgStates[c]]

BpArgByte ==
  /\ bp.state = "ARGS"
  /\ bp' = [bp EXCEPT !.args = @ - 1, !.state = IF bp.args = 1 THEN "OCD_IDLE" ELSE "ARGS"]

BpTapShift(c) ==
  /\ bp.state = "OCD_IDLE"
  /\ c = "TAP_SHIFT"
  /\ bp' = [bp EXCEPT !.state = "TAP_LEN_HI"]

BpTapLenHi ==
  /\ bp.state = "TAP_LEN_HI"
  /\ bp' = [bp EXCEPT !.state = "TAP_LEN_LO"]

\* Fault: an empty shift waits for a data pair as well.
BpTapLenLo_Fault(len) ==
  /\ bp.state = "TAP_LEN_LO"
  /\ LET total == IF len > TapMax THEN TapMax ELSE len
     IN  bp' = [bp EXCEPT !.total = total, !.done = 0, !.out = 0, !.state = "TAP_TDI"]

\* tap_shift_begin: the echoed length is the clamped one.
BpTapLenLo(len) ==
  /\ bp.state = "TAP_LEN_LO"
  /\ LET total == IF len > TapMax THEN TapMax ELSE len
     IN  bp' = [bp EXCEPT !.total = total, !.done = 0, !.out = 0,
                          !.state = IF total = 0 THEN "OCD_IDLE" ELSE "TAP_TDI"]

BpTapTdi ==
  /\ bp.state = "TAP_TDI"
  /\ bp' = [bp EXCEPT !.state = "TAP_TMS"]

\* tap_shift_pair: the pair clocks a byte's worth of bits, or what is left, and
\* sends one TDO byte.
BpTapTms ==
  /\ bp.state = "TAP_TMS"
  /\ LET left == bp.total - bp.done
         bits == IF left >= ByteBits THEN ByteBits ELSE left
     IN  bp' = [bp EXCEPT !.done = @ + bits, !.out = @ + 1,
                          !.state = IF bits = left THEN "OCD_IDLE" ELSE "TAP_TDI"]

BpFeed(c, len) ==
  \/ BpGreet(c) \/ BpLeaveOcd(c) \/ BpAnswer(c) \/ BpArgCommand(c) \/ BpArgByte
  \/ BpTapShift(c) \/ BpTapLenHi \/ BpTapLenLo(len) \/ BpTapTdi \/ BpTapTms

\* One byte goes over the port.
BpByte ==
  \E c \in OcdCommands, len \in TapLengths :
    /\ BpFeed(c, len)
    /\ OcdCommand(c) \/ OcdRest(len)

\* 0x0F is the way out, but only where a command byte is expected.
BpSaysExit == bp.state \in {"BBIO_IDLE", "OCD_IDLE"}
=============================================================================
