----------------------------- MODULE MCRWSleep -----------------------------
(***************************************************************************)
(* RWSleep for TLC.                                                        *)
(***************************************************************************)
EXTENDS RWSleep

CONSTANTS l1, l2, w1

=============================================================================
