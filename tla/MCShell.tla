------------------------------- MODULE MCShell -------------------------------
(***************************************************************************)
(* A header of four channels, a ring of four samples, shifts of up to two  *)
(* and a half bytes, a UART with a FIFO of one byte and two bytes staged.  *)
(***************************************************************************)
EXTENDS ShellSafety

MCChannels    == 0 .. 3
MCJtagPinouts == {<<0, 1, 2, 3>>, <<2, 2, 0, 1>>}
MCSpPinouts   == {<<3, 2, 1, 0>>, <<0, 1, 0, 2>>}
MCTapLengths  == {0, 3, 4, 9}
MCSpLengths   == {0, 2}
MCLaSizes     == {1, 5}
MCSizes       == {1, 3}
=============================================================================
