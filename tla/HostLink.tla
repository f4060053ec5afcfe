------------------------------- MODULE HostLink -------------------------------
(***************************************************************************)
(* One of the two binary ports: the host sends request frames, whole or    *)
(* cut short, the pump feeds them to the parser and answers each request   *)
(* it recognises with one frame into the port's transmit buffer.  What the *)
(* requests do to the engines is modelled with the engines; here a request *)
(* is the length of its answer, and a DRAIN takes results off the sweep's  *)
(* ring that exist nowhere else from then on.                              *)
(***************************************************************************)
EXTENDS FrameProto

CONSTANTS
  Frames,       \* the requests: [cmd, payload, crc]
  MaxFrames,    \* bound: requests sent
  MaxWire,      \* bytes under way between host and parser, flow controlled
  Latency,      \* the pump reads a waiting byte within this time
  MinLen,       \* command -> the shortest payload it accepts
  ReplyLen,     \* command -> the payload of its answer
  ShortLen,     \* command -> the payload of the answer to a short request
  CaptureCmd,   \* the command that reads out a part of the capture
  CaptureMax,   \* the longest part
  DrainCmd,     \* CAMPAIGN_CMD_DRAIN
  DrainMax,     \* CAMPAIGN_DRAIN_MAX_COUNT
  ResultSize,   \* bytes of a result
  ReplyCap,     \* the reply buffer of the pump
  TxSize,       \* the transmit buffer of the port
  RingDepth,    \* results the campaign manager keeps
  MaxResults    \* bound: results pushed

\* What a DRAIN answers fits a payload, the reply buffer and the transmit buffer
\* (campaign_proto.h counts it out), and a frame under way is not taken for cut.
ASSUME LinkAssumption ==
  /\ Latency \in Nat /\ Latency <= Interbyte
  /\ DrainMax \in Nat /\ ResultSize \in Nat /\ 1 + DrainMax * ResultSize <= MaxPayload
  /\ CaptureMax \in 1 .. MaxPayload
  /\ CaptureCmd \in DOMAIN MinLen => MinLen[CaptureCmd] \in Nat \ {0}
  /\ \A c \in DOMAIN MinLen : ReplyLen[c] \in 0 .. MaxPayload /\ ShortLen[c] \in 0 .. MaxPayload
  /\ ReplyCap \in Nat /\ FrameLength(MaxPayload) <= ReplyCap
  /\ TxSize \in Nat /\ ReplyCap <= TxSize
  /\ MaxWire \in Nat

\* A request is a command, a payload that fits, and two bytes of CRC.
Bytes == 0 .. Base - 1

ASSUME FramesAssumption ==
  \A f \in Frames :
    /\ f.cmd \in Bytes
    /\ f.payload \in Seq(Bytes) /\ Len(f.payload) <= MaxPayload
    /\ f.crc \in Bytes \X Bytes

VARIABLES
  wire,       \* bytes sent and not yet read
  parser,
  waited,     \* how long the next byte has been waiting for the pump
  ring,       \* results in the campaign manager, numbered in order
  tx,         \* [bytes, results, answers]: what waits for the host
  quiet,      \* the host: time since it sent last
  unsure,     \* the host: something it sent may have left the parser in a frame
  sent,       \* requests sent
  owed,       \* history: requests sent with the parser in step, not answered yet
  told,       \* history: [asked, answers, results] of the host
  crowded,    \* history: an answer was written behind one the host had not read
  pushed      \* results pushed

linkvars == <<wire, parser, waited, ring, tx, quiet, unsure, sent, owed, told, crowded, pushed>>

\* A host that pauses this long after a cut frame can be sure it is forgotten:
\* what was under way has been read, and then the timeout has passed.
Recovery == Interbyte + Latency * MaxWire

NothingWritten == [bytes |-> 0, results |-> <<>>, answers |-> 0]

LinkInit ==
  /\ wire = <<>>
  /\ parser = ParserFresh
  /\ waited = 0
  /\ ring = <<>>
  /\ tx = NothingWritten
  /\ quiet = 0
  /\ unsure = FALSE
  /\ sent = 0
  /\ owed = {}
  /\ told = [asked |-> 0, answers |-> 0, results |-> <<>>]
  /\ crowded = FALSE
  /\ pushed = 0

-----------------------------------------------------------------------------
(* Answers.                                                                 *)

LowerOf(a, b) == IF a < b THEN a ELSE b
HigherOf(a, b) == IF a > b THEN a ELSE b

\* The payload of the answer to anything but a DRAIN.  A part of the capture
\* that is too long or out of range is refused.
AnswerLengths(cmd, payload) ==
  IF cmd \notin DOMAIN MinLen THEN {1}
  ELSE IF Len(payload) < MinLen[cmd] THEN {ShortLen[cmd]}
  ELSE IF cmd # CaptureCmd THEN {ReplyLen[cmd]}
  ELSE IF payload[1] > CaptureMax THEN {1}
  ELSE {1, payload[1]}

\* Fault: the count the host asks for is not clamped.
DrainCount_Fault(payload) ==
  LowerOf(HigherOf(IF payload = <<>> THEN 1 ELSE payload[1], 1), Len(ring))

\* campaign_proto_serialize_drain: at least one, at most what the answer can hold.
DrainCount(payload) ==
  LET asked == IF payload = <<>> THEN 1 ELSE payload[1]
  IN  LowerOf(LowerOf(HigherOf(asked, 1), DrainMax), Len(ring))

\* frame_proto_write, then the port: an answer too large for the buffer is not
\* written at all, and the port takes what it has room for.
Answered(length, results) ==
  LET bytes == FrameLength(length)
      room  == TxSize - tx.bytes
  IN  IF length > MaxPayload \/ bytes > ReplyCap THEN tx
      ELSE IF bytes > room THEN [tx EXCEPT !.bytes = TxSize]
      ELSE [tx EXCEPT !.bytes = @ + bytes, !.results = @ \o results, !.answers = @ + 1]

\* emfi_proto_dispatch and crowbar_proto_dispatch
Dispatch(frame) ==
  LET cmd     == frame[2].val
      payload == [i \in 1 .. Len(frame) - FrameLength(0) |-> frame[HeaderLength + i].val]
      n       == DrainCount(payload)
  IN  /\ owed' = owed \ {frame[1].frame}
      /\ told' = [told EXCEPT !.asked = @ + 1]
      /\ crowded' = (crowded \/ tx.bytes > 0)
      /\ IF cmd = DrainCmd
         THEN /\ tx' = Answered(1 + n * ResultSize, SubSeq(ring, 1, n))
              /\ ring' = SubSeq(ring, n + 1, Len(ring))
         ELSE /\ \E length \in AnswerLengths(cmd, payload) : tx' = Answered(length, <<>>)
              /\ UNCHANGED ring

-----------------------------------------------------------------------------
(* The firmware.                                                            *)

\* One byte of pump_emfi_cdc or pump_crowbar_cdc; a pump that reads several
\* bytes is several such steps with no time in between.
PumpByte ==
  /\ wire # <<>>
  /\ wire' = Tail(wire)
  /\ waited' = 0
  /\ parser' = Fed(parser, Head(wire))
  /\ IF FrameReady(parser, Head(wire))
     THEN Dispatch(Append(Resynced(parser).got, Head(wire)))
     ELSE UNCHANGED <<ring, tx, owed, told, crowded>>
  /\ UNCHANGED <<quiet, unsure, sent, pushed>>

\* The sweep pushes a result (a full ring is the campaign manager's affair).
PushResult ==
  /\ pushed < MaxResults
  /\ Len(ring) < RingDepth
  /\ pushed' = pushed + 1
  /\ ring' = Append(ring, pushed')
  /\ UNCHANGED <<wire, parser, waited, tx, quiet, unsure, sent, owed, told, crowded>>

-----------------------------------------------------------------------------
(* The host, and time.                                                      *)

Encoded(f) ==
  <<Sof, f.cmd, Len(f.payload) % Base, Len(f.payload) \div Base>> \o f.payload \o f.crc

\* The first k bytes of a request; a host that is reset or unplugged stops short.
HostSend ==
  /\ sent < MaxFrames
  /\ \E f \in Frames : \E k \in 1 .. Len(Encoded(f)) :
       LET whole  == k = Len(Encoded(f))
           inStep == ~unsure \/ quiet > Recovery
       IN  /\ Len(wire) + k <= MaxWire
           /\ wire' = wire \o [i \in 1 .. k |-> [frame |-> sent, place |-> i, val |-> Encoded(f)[i]]]
           /\ unsure' = ~(whole /\ inStep)
           /\ owed' = IF whole /\ inStep THEN owed \cup {sent} ELSE owed
  /\ sent' = sent + 1
  /\ quiet' = 0
  /\ UNCHANGED <<parser, waited, ring, tx, told, crowded, pushed>>

\* The host reads what the port holds.  Half an answer is of no use to it.
HostRead ==
  /\ tx.bytes > 0
  /\ told' = [told EXCEPT !.answers = @ + tx.answers, !.results = @ \o tx.results]
  /\ tx' = NothingWritten
  /\ UNCHANGED <<wire, parser, waited, ring, quiet, unsure, sent, owed, crowded, pushed>>

\* Ages stop counting where they can no longer make a difference.
Elapse ==
  /\ wire # <<>> => waited < Latency
  /\ waited' = IF wire = <<>> THEN 0 ELSE waited + 1
  /\ quiet' = LowerOf(quiet + 1, Recovery + 1)
  /\ parser' = [parser EXCEPT !.age = IF parser.state = "SOF" THEN 0
                                      ELSE LowerOf(@ + 1, Interbyte + 1)]
  /\ UNCHANGED <<wire, ring, tx, unsure, sent, owed, told, crowded, pushed>>

LinkNext == PumpByte \/ PushResult \/ HostSend \/ HostRead \/ Elapse

LinkSpec == LinkInit /\ [][LinkNext]_linkvars
=============================================================================
