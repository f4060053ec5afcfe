----------------------------- MODULE HeaderPins ------------------------------
(***************************************************************************)
(* The function of every pin of the scanner header: a CPU input, a CPU     *)
(* output, or muxed to UART0.  Pulls and levels are left out, and so is    *)
(* the PIO function of an SWD candidate, which never outlasts one atomic   *)
(* step of the scan.                                                       *)
(***************************************************************************)
EXTENDS Naturals

CONSTANT Channels     \* the header's channels (GP0 .. GP7 on the board)

VARIABLE pin

PinFunctions == {"IN", "OUT", "UART"}

\* scanner_io_init: the header boots as inputs.
HeaderPinsInit == pin = [c \in Channels |-> "IN"]

\* The pins of S take function f, the others keep theirs.
Muxed(S, f) == [c \in Channels |-> IF c \in S THEN f ELSE pin[c]]
=============================================================================
