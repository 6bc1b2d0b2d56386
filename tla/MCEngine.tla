------------------------------ MODULE MCEngine ------------------------------
(***************************************************************************)
(* Engine for TLC.                                                         *)
(***************************************************************************)
EXTENDS Engine

CONSTANTS l1, l2

=============================================================================
