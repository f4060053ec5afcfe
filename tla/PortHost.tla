------------------------------- MODULE PortHost -------------------------------
(***************************************************************************)
(* The program at the other end of a binary session on the scanner port.   *)
(* It counts, by the rules of its protocol, the bytes it still has to send *)
(* of its current command.  It shares nothing with the parser but the      *)
(* bytes, so the two can come to count differently.                        *)
(***************************************************************************)
EXTENDS Integers

VARIABLE host    \* owed: bytes left of its command; header: those of them up to and
                 \* with the one that completes the command's length; ocd: it is in
                 \* OpenOCD mode; sync: it began the session and keeps to its rules

HostFresh == [owed |-> 0, header |-> 0, ocd |-> FALSE, sync |-> TRUE]

HostTypeOK ==
  host \in [owed : Nat, header : 0 .. 3, ocd : BOOLEAN, sync : BOOLEAN]

HostInit == host = HostFresh

\* Another byte of the command; the last one of the length adds the data it
\* announces.
HostSends(payload) ==
  [host EXCEPT !.owed = (@ - 1) + (IF host.header = 1 THEN payload ELSE 0),
               !.header = IF @ > 0 THEN @ - 1 ELSE 0]

\* A program that opens the port in the middle of another one's session starts
\* with a command, whatever the parser waits for.
HostReplaced == [HostFresh EXCEPT !.sync = FALSE]
=============================================================================
