----------------------------- MODULE MCPostWait -----------------------------
(***************************************************************************)
(* PostWait for TLC.                                                       *)
(***************************************************************************)
EXTENDS PostWait

CONSTANTS w1, p1, p2

=============================================================================
