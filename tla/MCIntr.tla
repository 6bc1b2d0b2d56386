------------------------------- MODULE MCIntr -------------------------------
(***************************************************************************)
(* Intr for TLC: a disk at PLDISK and a terminal at PLSTR.                 *)
(***************************************************************************)
EXTENDS Intr, TLC

CONSTANTS disk, tty

MCPri == (disk :> 5) @@ (tty :> 6)

=============================================================================
