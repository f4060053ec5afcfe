------------------------------- MODULE Serprog -------------------------------
(***************************************************************************)
(* The serprog parser that lets flashrom drive an SPI flash on the header, *)
(* and flashrom at the other end; a byte is a command or the last byte of  *)
(* a length to the side that expects one.  A write phase spans many bytes  *)
(* with chip select low; the read phase that ends it runs inside the last  *)
(* byte's call.                                                            *)
(***************************************************************************)
EXTENDS PortHost

CONSTANT SpLengths     \* the 24-bit lengths an SPIOP can carry

ASSUME SpAssumption == SpLengths \subseteq Nat

VARIABLE sp      \* cs: chip select is driven low

SpStates == {"IDLE", "ARGS", "WLEN", "RLEN", "WBYTES"}

SpFresh == [state |-> "IDLE", args |-> 0, wlen |-> 0, done |-> 0, cs |-> FALSE]

SpTypeOK ==
  sp \in [state : SpStates, args : 0 .. 4, wlen : SpLengths \cup {0},
          done : Nat, cs : BOOLEAN]

SpInit == sp = SpFresh

-----------------------------------------------------------------------------
(* The host's side of the protocol.                                         *)

\* The bytes a command has after its first one, the data written by an SPIOP not
\* included.
FlashArguments ==
  [QUERY |-> 0, S_BUSTYPE |-> 1, S_PIN_STATE |-> 1, S_SPI_FREQ |-> 4, O_SPIOP |-> 6]

FlashCommands == {"QUERY", "S_BUSTYPE", "S_PIN_STATE", "S_SPI_FREQ", "O_SPIOP"}

FlashCommand(c) ==
  /\ host.owed = 0
  /\ host' = [host EXCEPT !.owed = FlashArguments[c],
                          !.header = IF c = "O_SPIOP" THEN 3 ELSE 0]

FlashRest(len) ==
  /\ host.owed > 0
  /\ host' = HostSends(len)

-----------------------------------------------------------------------------
(* The parser.                                                              *)

\* The queries and the unknown commands only answer.
SpAnswer(c) ==
  /\ sp.state = "IDLE"
  /\ c = "QUERY"
  /\ sp' = sp

\* The parser has a state for each argument byte.
SpArgStates == [S_BUSTYPE |-> 1, S_PIN_STATE |-> 1, S_SPI_FREQ |-> 4]

SpArgCommand(c) ==
  /\ sp.state = "IDLE"
  /\ c \in {"S_BUSTYPE", "S_PIN_STATE", "S_SPI_FREQ"}
  /\ sp' = [sp EXCEPT !.state = "ARGS", !.args = SpArgStates[c]]

SpArgByte ==
  /\ sp.state = "ARGS"
  /\ sp' = [sp EXCEPT !.args = @ - 1, !.state = IF sp.args = 1 THEN "IDLE" ELSE "ARGS"]

SpOp(c) ==
  /\ sp.state = "IDLE"
  /\ c = "O_SPIOP"
  /\ sp' = [sp EXCEPT !.state = "WLEN", !.args = 3, !.wlen = 0]

\* The three bytes of the write length, then those of the read length.
SpWlenByte(len) ==
  /\ sp.state = "WLEN"
  /\ sp' = IF sp.args > 1
           THEN [sp EXCEPT !.args = @ - 1]
           ELSE [sp EXCEPT !.state = "RLEN", !.args = 3, !.wlen = len]

\* spiop_finish_with_read_then_cs_high: ACK, the read, chip select high.
SpFinish(s) == [s EXCEPT !.state = "IDLE", !.cs = FALSE]

\* The last length byte asserts chip select.
SpRlenByte ==
  /\ sp.state = "RLEN"
  /\ LET selected == [sp EXCEPT !.args = 0, !.cs = TRUE]
     IN  IF sp.args > 1
         THEN sp' = [sp EXCEPT !.args = @ - 1]
         ELSE IF sp.wlen = 0
              THEN sp' = SpFinish(selected)
              ELSE sp' = [selected EXCEPT !.state = "WBYTES", !.done = 0]

SpWriteByte ==
  /\ sp.state = "WBYTES"
  /\ LET written == [sp EXCEPT !.done = @ + 1]
     IN  sp' = IF written.done >= sp.wlen THEN SpFinish(written) ELSE written

SpFeed(c, len) ==
  \/ SpAnswer(c) \/ SpArgCommand(c) \/ SpArgByte \/ SpOp(c)
  \/ SpWlenByte(len) \/ SpRlenByte \/ SpWriteByte

\* One byte goes over the port.
SpByte ==
  \E c \in FlashCommands, len \in SpLengths :
    /\ SpFeed(c, len)
    /\ FlashCommand(c) \/ FlashRest(len)
=============================================================================
