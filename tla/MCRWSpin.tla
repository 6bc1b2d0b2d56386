------------------------------ MODULE MCRWSpin ------------------------------
(***************************************************************************)
(* RWSpin for TLC.                                                         *)
(***************************************************************************)
EXTENDS RWSpin

CONSTANTS e1, e2, e3

=============================================================================
