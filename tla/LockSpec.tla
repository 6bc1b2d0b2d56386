------------------------------ MODULE LockSpec ------------------------------
(***************************************************************************)
(* What a sleep lock promises to its callers (util/sleep.c, the headers of *)
(* sleep_lock, sleep_trylock, sleep_unlock and the SLEEP_DISOWN macro of   *)
(* util/ksynch.h): the lock is free, held by one LWP, or held with its     *)
(* ownership given up, in which case any context may release it.           *)
(***************************************************************************)
CONSTANTS LWP,      \* the LWPs that use the lock
          Free,     \* the lock is not held
          Disowned  \* the lock is held and its ownership info is lost

VARIABLE holder

Init == holder = Free

Acquire(l) == holder = Free /\ holder' = l

\* SLEEP_DISOWN, and sleep_lock_private, which leaves the lock disowned.
GiveUp == holder # Disowned /\ holder' = Disowned

Release == holder # Free /\ holder' = Free

Next == (\E l \in LWP : Acquire(l)) \/ GiveUp \/ Release

Spec == Init /\ [][Next]_holder

=============================================================================
