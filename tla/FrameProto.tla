------------------------------ MODULE FrameProto ------------------------------
(***************************************************************************)
(* The frame parser both binary ports share.  A byte of the wire is a      *)
(* record: its value, and, for the check of the CRC, the frame of the host *)
(* it belongs to and its place there.  The CRC is taken as perfect: it     *)
(* accepts a run of bytes exactly when they are one whole frame, in order. *)
(***************************************************************************)
EXTENDS Integers, Sequences

CONSTANTS
  Base,         \* the values of a byte, 256
  Sof,          \* the start-of-frame byte of the port
  MaxPayload,   \* FRAME_PROTO_MAX_PAYLOAD
  Interbyte     \* the inter-byte timeout

ASSUME FrameAssumption ==
  /\ Base \in Nat \ {0}
  /\ Sof \in 0 .. Base - 1
  /\ MaxPayload \in 0 .. Base * Base - 1
  /\ Interbyte \in Nat

ParserStates == {"SOF", "CMD", "LEN_LO", "LEN_HI", "PAYLOAD", "CRC_LO", "CRC_HI"}

\* got: the bytes since SOF, which stand for cmd, payload and crc_recv; age: the
\* time since last_byte_ms, kept only where it is read.
ParserFresh == [state |-> "SOF", len |-> 0, got |-> <<>>, age |-> 0]

HeaderLength == 4

\* SOF, command and length in front of the payload, two bytes of CRC behind it.
FrameLength(payload) == HeaderLength + payload + 2

-----------------------------------------------------------------------------
\* Fault: the pause between two bytes is not looked at.
Expired_Fault(p) == FALSE

\* A pause inside a frame drops what was received of it.
Expired(p) == p.state # "SOF" /\ p.age > Interbyte

Resynced(p) == IF Expired(p) THEN ParserFresh ELSE p

\* frame_proto_feed: the parser after byte b.
Fed(p, b) ==
  LET q    == Resynced(p)
      took == [q EXCEPT !.got = Append(@, b), !.age = 0]
      len  == q.len + Base * b.val
  IN  CASE q.state = "SOF" ->
             IF b.val = Sof THEN [took EXCEPT !.state = "CMD"] ELSE ParserFresh
        [] q.state = "CMD"    -> [took EXCEPT !.state = "LEN_LO"]
        [] q.state = "LEN_LO" -> [took EXCEPT !.state = "LEN_HI", !.len = b.val]
        [] q.state = "LEN_HI" ->
             IF len > MaxPayload
             THEN ParserFresh
             ELSE [took EXCEPT !.len = len, !.state = IF len = 0 THEN "CRC_LO" ELSE "PAYLOAD"]
        [] q.state = "PAYLOAD" ->
             IF Len(took.got) = HeaderLength + q.len
             THEN [took EXCEPT !.state = "CRC_LO"]
             ELSE took
        [] q.state = "CRC_LO" -> [took EXCEPT !.state = "CRC_HI"]
        [] q.state = "CRC_HI" -> ParserFresh

\* The bytes are one whole frame as the host sent it.
CrcMatches(bytes) ==
  \A i \in DOMAIN bytes : bytes[i].frame = bytes[1].frame /\ bytes[i].place = i

\* Byte b completes a frame with a good CRC.
FrameReady(p, b) ==
  LET q == Resynced(p) IN q.state = "CRC_HI" /\ CrcMatches(Append(q.got, b))
=============================================================================
