-------------------------------- MODULE MCShm --------------------------------
(***************************************************************************)
(* Shm for TLC: the process p1, in which one LWP attaches and forks while  *)
(* another one detaches; p2, whose LWP does everything; and p3, the child  *)
(* of a fork, which keeps what it was given.                               *)
(***************************************************************************)
EXTENDS Shm, TLC

CONSTANTS a1, a2, b1, p1, p2, p3

MCProcOf == (a1 :> p1) @@ (a2 :> p1) @@ (b1 :> p2)

MCOps ==
  (a1 :> {"at", "fork", "rmid"})
  @@ (a2 :> {"dt"})
  @@ (b1 :> {"get", "at", "lock", "unlock", "exec", "exit"})

MCMaxCalls == (a1 :> 2) @@ (a2 :> 1) @@ (b1 :> 3)

=============================================================================
