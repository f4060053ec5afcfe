------------------------------ MODULE LossyQueue ------------------------------
(***************************************************************************)
(* What the result buffer of a sweep promises to the host that drains it:  *)
(* a bounded first-in first-out queue that loses new entries, never old    *)
(* ones, when it is full, and counts what it took and what it lost.        *)
(***************************************************************************)
EXTENDS Integers, Sequences

CONSTANTS Items,      \* what can be queued
          Capacity    \* how many entries fit

VARIABLES queue, taken, lost

qvars == <<queue, taken, lost>>

Init ==
  /\ queue = <<>>
  /\ taken = 0
  /\ lost = 0

\* One new entry behind the old ones, which are untouched.
Accept ==
  /\ Len(queue) < Capacity
  /\ Len(queue') = Len(queue) + 1
  /\ queue'[Len(queue')] \in Items
  /\ SubSeq(queue', 1, Len(queue)) = queue
  /\ taken' = taken + 1
  /\ UNCHANGED lost

Lose ==
  /\ Len(queue) = Capacity
  /\ lost' = lost + 1
  /\ UNCHANGED <<queue, taken>>

\* The reader takes the n oldest entries.
Take(n) ==
  /\ n \in 1 .. Len(queue)
  /\ queue' = SubSeq(queue, n + 1, Len(queue))
  /\ UNCHANGED <<taken, lost>>

\* A new sweep starts from an empty queue and zero counters.
Clear ==
  /\ queue' = <<>>
  /\ taken' = 0
  /\ lost' = 0

Next ==
  \/ Accept
  \/ Lose
  \/ \E n \in 1 .. Capacity : Take(n)
  \/ Clear

Spec == Init /\ [][Next]_qvars
=============================================================================
