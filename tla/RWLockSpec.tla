----------------------------- MODULE RWLockSpec -----------------------------
(***************************************************************************)
(* What a reader-writer lock promises to its callers, a sleep lock to LWPs *)
(* (util/rwsleep.c, the headers of rwsleep_rdlock, rwsleep_wrlock and      *)
(* rwsleep_unlock) and a spin lock to engines (util/rwlocks.s): any number *)
(* hold it in read mode, or one holds it in write mode.                    *)
(***************************************************************************)
CONSTANTS LWP  \* the LWPs or engines that use the lock

VARIABLES readers, writers

Init == readers = {} /\ writers = {}

Read(l) == writers = {} /\ readers' = readers \cup {l} /\ UNCHANGED writers

Write(l) == writers = {} /\ readers = {} /\ writers' = {l} /\ UNCHANGED readers

Unlock(l) ==
  /\ l \in readers \cup writers
  /\ readers' = readers \ {l} /\ writers' = writers \ {l}

Next == \E l \in LWP : Read(l) \/ Write(l) \/ Unlock(l)

Spec == Init /\ [][Next]_<<readers, writers>>

=============================================================================
