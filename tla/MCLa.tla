--------------------------------- MODULE MCLa ---------------------------------
(***************************************************************************)
(* The `la` command alone on a small ring.                                 *)
(***************************************************************************)
EXTENDS LaCommand

MCLaSizes == {2, 5}
=============================================================================
