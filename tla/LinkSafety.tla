------------------------------ MODULE LinkSafety ------------------------------
(***************************************************************************)
(* What a binary port promises a host that follows two rules: after a      *)
(* frame it cut short it pauses, and it reads an answer before it asks     *)
(* again.                                                                  *)
(***************************************************************************)
EXTENDS HostLink

\* The bytes of frame f lie together and in order in s from i on.
LiesAt(s, i, f) ==
  /\ s[i].frame = f /\ s[i].place = 1
  /\ \A j \in i .. Len(s) : s[j].frame = f => s[j].place = j - i + 1

\* A frame sent after a long enough pause, or after nothing but such frames, is
\* dispatched.  Until it is, all of it is under way, or the parser is in the
\* middle of it and started at its first byte: no cut frame before it, whatever
\* its bytes look like, and no pause of the pump inside it, makes the parser
\* swallow, split or drop it.
FramesDispatched ==
  \A f \in owed :
    LET s == Resynced(parser).got \o wire
    IN  \E i \in DOMAIN s :
          /\ LiesAt(s, i, f)
          /\ i = 1 \/ i > Len(Resynced(parser).got)

\* A host that always reads an answer before the next request gets one whole
\* answer to each, and gets every result a DRAIN took off the ring, in order.
AnswersArrive ==
  ~crowded =>
    /\ told.answers + tx.answers = told.asked
    /\ told.results \o tx.results \o ring = [i \in 1 .. pushed |-> i]
=============================================================================
