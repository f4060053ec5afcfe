-------------------------------- MODULE Clock --------------------------------
(***************************************************************************)
(* Elapsed times.  The firmware stores the value of hal_now_ms() and later *)
(* subtracts it from the current one; only the difference is ever compared *)
(* with a timeout.  The models keep that difference, the age of the stamp, *)
(* and stop counting at Horizon, above every timeout: beyond it no         *)
(* comparison changes.                                                     *)
(***************************************************************************)
EXTENDS Integers

CONSTANT Horizon

ASSUME HorizonAssumption == Horizon \in Nat \ {0}

Age == 0 .. Horizon

\* The age of a stamp one time unit later.
Older(age) == IF age < Horizon THEN age + 1 ELSE age
=============================================================================
