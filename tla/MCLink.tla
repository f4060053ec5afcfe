-------------------------------- MODULE MCLink --------------------------------
(***************************************************************************)
(* Bytes of four values, so that a start-of-frame byte turns up inside     *)
(* frames: as a command, as a count and as a CRC.                          *)
(***************************************************************************)
EXTENDS LinkSafety

\* CONFIGURE too short and long enough, DRAIN asking for more than an answer
\* holds, a part of the capture, and a command nobody knows.
MCFrames ==
  {[cmd |-> 0, payload |-> <<>>,  crc |-> <<0, 3>>],
   [cmd |-> 0, payload |-> <<3>>, crc |-> <<2, 1>>],
   [cmd |-> 1, payload |-> <<3>>, crc |-> <<1, 0>>],
   [cmd |-> 2, payload |-> <<2>>, crc |-> <<3, 0>>],
   [cmd |-> 3, payload |-> <<>>,  crc |-> <<0, 0>>]}

\* A CONFIGURE too short is answered with an empty frame.
MCMinLen   == [c \in {0, 1, 2} |-> IF c = 1 THEN 0 ELSE 1]
MCReplyLen == [c \in {0, 1, 2} |-> 1]
MCShortLen == [c \in {0, 1, 2} |-> IF c = 0 THEN 0 ELSE 1]
=============================================================================
