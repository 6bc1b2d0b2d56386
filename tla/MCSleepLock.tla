---------------------------- MODULE MCSleepLock ----------------------------
(***************************************************************************)
(* SleepLock for TLC.                                                      *)
(***************************************************************************)
EXTENDS SleepLock

CONSTANTS l1, l2, l3, io

=============================================================================
