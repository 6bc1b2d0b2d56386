------------------------------ MODULE MCXCall ------------------------------
(***************************************************************************)
(* XCall for TLC: two engines that call each other and a third one.        *)
(***************************************************************************)
EXTENDS XCall

CONSTANTS e1, e2, e3

=============================================================================
