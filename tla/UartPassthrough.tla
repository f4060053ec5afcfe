--------------------------- MODULE UartPassthrough ---------------------------
(***************************************************************************)
(* Host bytes on their way to UART0: read from the target port, written to *)
(* the UART's FIFO as far as it has room, staged behind each other when it *)
(* has none, dropped and counted when the staging buffer is full as well.  *)
(* Bytes are numbered in the order the host sent them.  The way back, a    *)
(* loop that empties the receive FIFO into the port, keeps no state.       *)
(***************************************************************************)
EXTENDS Integers, Sequences

CONSTANTS
  FifoRoom,     \* the UART's transmit FIFO
  PendingCap,   \* TX_PENDING_CAP
  ReadMax,      \* bytes one pump reads from the port
  MaxBytes      \* bound: bytes of one session

ASSUME UartAssumption ==
  /\ FifoRoom \in Nat /\ PendingCap \in Nat /\ ReadMax \in Nat /\ MaxBytes \in Nat

VARIABLE uart    \* sent and taken are history variables of a session

UartOff ==
  [on |-> FALSE, room |-> FifoRoom, pending |-> <<>>, dropped |-> 0,
   sent |-> <<>>, taken |-> 0]

UartTypeOK ==
  uart \in [on : BOOLEAN, room : 0 .. FifoRoom, pending : Seq(1 .. MaxBytes),
            dropped : 0 .. MaxBytes, sent : Seq(1 .. MaxBytes), taken : 0 .. MaxBytes]

UartInit == uart = UartOff

UartSession == [UartOff EXCEPT !.on = TRUE]

\* uart_passthrough_disable discards what is staged and leaves the drop counter,
\* which does not count it, to the next enable.
UartClosed(u) == [UartOff EXCEPT !.dropped = u.dropped]

-----------------------------------------------------------------------------
FewerOf(a, b) == IF a < b THEN a ELSE b

\* hal_uart_write: as many bytes as the FIFO takes; the rest is the caller's.
UartAccepted(u, bytes) == FewerOf(u.room, Len(bytes))
UartWrite(u, bytes) ==
  LET n == UartAccepted(u, bytes)
  IN  [u EXCEPT !.room = @ - n, !.sent = @ \o SubSeq(bytes, 1, n)]
UartRefused(u, bytes) == SubSeq(bytes, UartAccepted(u, bytes) + 1, Len(bytes))

\* tx_stage
UartStage(u, bytes) ==
  LET n == FewerOf(PendingCap - Len(u.pending), Len(bytes))
  IN  [u EXCEPT !.pending = @ \o SubSeq(bytes, 1, n),
                !.dropped = @ + Len(bytes) - n]

\* tx_flush_pending
UartFlush(u) ==
  [UartWrite(u, u.pending) EXCEPT !.pending = UartRefused(u, u.pending)]

\* Fault: new bytes go to the FIFO while older ones are still staged.
UartForward_Fault(u, bytes) ==
  LET written == UartWrite(u, bytes)
  IN  UartFlush(UartStage(written, UartRefused(u, bytes)))

\* Staged bytes first; new ones reach the FIFO only when none are left.
UartForward(u, bytes) ==
  LET flushed == UartFlush(u)
  IN  IF flushed.pending = <<>>
      THEN UartStage(UartWrite(flushed, bytes), UartRefused(flushed, bytes))
      ELSE UartStage(flushed, bytes)

-----------------------------------------------------------------------------
\* pump_uart_passthrough with `n` bytes in the port.
UartPump ==
  /\ uart.on
  /\ \E n \in 0 .. FewerOf(ReadMax, MaxBytes - uart.taken) :
       uart' = [UartForward(uart, [i \in 1 .. n |-> uart.taken + i]) EXCEPT !.taken = @ + n]

\* The UART shifts a byte out.
UartShift ==
  /\ uart.on
  /\ uart.room < FifoRoom
  /\ uart' = [uart EXCEPT !.room = @ + 1]
=============================================================================
