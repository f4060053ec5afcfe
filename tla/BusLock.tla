------------------------------- MODULE BusLock -------------------------------
(***************************************************************************)
(* The cooperative lock over the scanner header (swd_bus_lock).  s_locked  *)
(* is TRUE exactly when s_owner is not IDLE, so one variable stands for    *)
(* both.  Every caller in the firmware uses the no-wait form: the lock is  *)
(* taken at once or the caller gives up.                                   *)
(***************************************************************************)
VARIABLE busOwner

BusOwners == {"IDLE", "SCANNER", "CAMPAIGN", "I2C_SCANNER", "UART_PASSTHRU"}

BusLockInit == busOwner = "IDLE"

BusHeld == busOwner # "IDLE"

\* A successful swd_bus_try_acquire.  The holder asking again is refused like
\* anybody else.
BusTryAcquire(who) ==
  /\ ~BusHeld
  /\ busOwner' = who

\* Releasing a lock somebody else holds does nothing.
BusRelease(who) == busOwner' = IF busOwner = who THEN "IDLE" ELSE busOwner
=============================================================================
