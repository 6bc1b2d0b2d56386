------------------------------- MODULE RWSpin -------------------------------
(***************************************************************************)
(* The reader-writer spin lock: i386/uts/util/rwlocks.s.  The engine that  *)
(* takes rws_lock, a reader or a writer, has the lock; further readers     *)
(* join a reader by counting themselves in rws_rdcount, under rws_fspin    *)
(* and while rws_state is RWS_READ.  A reader that releases the lock and   *)
(* sees nobody else sets rws_state to RWS_UNLOCKED first and then looks    *)
(* again, without rws_fspin.                                               *)
(*                                                                         *)
(* Each access of the lock is a step; the steps of the engines interleave. *)
(***************************************************************************)
EXTENDS Integers, FiniteSets

CONSTANTS Engine  \* the engines that use the lock, at its ipl, not preempted

ASSUME RWSpinAssumption == IsFiniteSet(Engine)

VARIABLES
  lock,     \* rws_lock is SP_LOCKED
  state,    \* rws_state
  rdcount,  \* rws_rdcount: readers besides the one that took rws_lock
  fspin,    \* rws_fspin is SP_LOCKED
  pc,       \* per engine, where it is in the code
  call      \* per engine, the call it is in or got the lock by

vars == <<lock, state, rdcount, fspin, pc, call>>

Init ==
  /\ lock = FALSE /\ state = "UNLOCKED" /\ rdcount = 0 /\ fspin = FALSE
  /\ pc = [e \in Engine |-> "idle"] /\ call = [e \in Engine |-> "none"]

-----------------------------------------------------------------------------
Goto(e, from, to) == pc[e] = from /\ pc' = [pc EXCEPT ![e] = to]

Reading(e) == call[e] \in {"rdlock", "tryrdlock"}
Writing(e) == call[e] \in {"wrlock", "trywrlock"}

(* The lock cannot be had: the ipl is restored, and the engine spins or    *)
(* returns INVPL.                                                          *)
Failed(e, from) ==
  \/ call[e] \in {"rdlock", "wrlock"} /\ Goto(e, from, "spin") /\ UNCHANGED call
  \/ /\ call[e] \in {"tryrdlock", "trywrlock"} /\ Goto(e, from, "idle")
     /\ call' = [call EXCEPT ![e] = "none"]

-----------------------------------------------------------------------------
(* rw_rdlock, rw_wrlock, rw_tryrdlock, rw_trywrlock.                       *)

Start(e) ==
  /\ Goto(e, "idle", "try")
  /\ \E c \in {"rdlock", "tryrdlock", "wrlock", "trywrlock"} : call' = [call EXCEPT ![e] = c]
  /\ UNCHANGED <<lock, state, rdcount, fspin>>

(* The exchange with rws_lock.                                             *)
Take(e) ==
  /\ ~ lock /\ lock' = TRUE
  /\ Goto(e, "try", "set")
  /\ UNCHANGED <<state, rdcount, fspin, call>>

Busy(e) ==
  /\ lock
  /\ \/ Reading(e) /\ Goto(e, "try", "peek") /\ UNCHANGED call
     \/ Writing(e) /\ Failed(e, "try")
  /\ UNCHANGED <<lock, state, rdcount, fspin>>

SetState(e) ==
  /\ Goto(e, "set", "held")
  /\ state' = (IF Reading(e) THEN "READ" ELSE "WRITE")
  /\ UNCHANGED <<lock, rdcount, fspin, call>>

Peek(e) ==
  /\ IF state = "READ" THEN Goto(e, "peek", "joinSpin") /\ UNCHANGED call ELSE Failed(e, "peek")
  /\ UNCHANGED <<lock, state, rdcount, fspin>>

(* rws_fspin, here and in rw_unlock.                                       *)
TakeFspin(e) ==
  /\ ~ fspin /\ fspin' = TRUE
  /\ Goto(e, "joinSpin", "join") \/ Goto(e, "shared", "sharedCount")
  /\ UNCHANGED <<lock, state, rdcount, call>>

Join(e) ==
  /\ Goto(e, "join", "joinLock")
  /\ rdcount' = rdcount + 1
  /\ UNCHANGED <<lock, state, fspin, call>>

JoinLock(e) ==
  /\ Goto(e, "joinLock", IF lock THEN "joinState" ELSE "undo")
  /\ UNCHANGED <<lock, state, rdcount, fspin, call>>

(* Still held, and still in read mode: the engine is a reader.             *)
JoinState(e) ==
  /\ Goto(e, "joinState", IF state = "READ" THEN "joined" ELSE "undo")
  /\ UNCHANGED <<lock, state, rdcount, fspin, call>>

Joined(e) ==
  /\ Goto(e, "joined", "held") /\ fspin' = FALSE
  /\ UNCHANGED <<lock, state, rdcount, call>>

(* Mutant: the count is left incremented.                                  *)
Undo_Missing(e) ==
  /\ Goto(e, "undo", "undone")
  /\ UNCHANGED <<lock, state, rdcount, fspin, call>>

Undo(e) ==
  /\ Goto(e, "undo", "undone")
  /\ rdcount' = rdcount - 1
  /\ UNCHANGED <<lock, state, fspin, call>>

Undone(e) ==
  /\ Failed(e, "undone") /\ fspin' = FALSE
  /\ UNCHANGED <<lock, state, rdcount>>

(* .rdspin and .wrspin, until another try is worth it.                     *)
Spin(e) ==
  /\ Goto(e, "spin", "try")
  /\ ~ lock \/ (Reading(e) /\ state = "READ")
  /\ UNCHANGED <<lock, state, rdcount, fspin, call>>

-----------------------------------------------------------------------------
(* rw_unlock.                                                              *)

Unlock(e) ==
  /\ Goto(e, "held", IF state = "WRITE" THEN "clear" ELSE "look")
  /\ UNCHANGED <<lock, state, rdcount, fspin, call>>

(* The first look and the second, each at rws_fspin and then at            *)
(* rws_rdcount: anybody else there makes it a shared release.              *)
LookFspin(e) ==
  /\ \/ Goto(e, "look", IF fspin THEN "shared" ELSE "lookCount")
     \/ Goto(e, "again", IF fspin THEN "shared" ELSE "againCount")
  /\ UNCHANGED <<lock, state, rdcount, fspin, call>>

LookCount(e) ==
  /\ \/ Goto(e, "lookCount", IF rdcount # 0 THEN "shared" ELSE "unset")
     \/ Goto(e, "againCount", IF rdcount # 0 THEN "shared" ELSE "againState")
  /\ UNCHANGED <<lock, state, rdcount, fspin, call>>

(* RWS_UNLOCKED, and the write flush.                                      *)
Unset(e) ==
  /\ Goto(e, "unset", "again") /\ state' = "UNLOCKED"
  /\ UNCHANGED <<lock, rdcount, fspin, call>>

(* Mutant: rws_state is not looked at again.                               *)
AgainState_Unchecked(e) ==
  /\ Goto(e, "againState", "clear")
  /\ UNCHANGED <<lock, state, rdcount, fspin, call>>

AgainState(e) ==
  /\ Goto(e, "againState", IF state = "UNLOCKED" THEN "clear" ELSE "shared")
  /\ UNCHANGED <<lock, state, rdcount, fspin, call>>

SharedCount(e) ==
  /\ Goto(e, "sharedCount", IF rdcount = 0 THEN "sharedUnset" ELSE "sharedSet")
  /\ UNCHANGED <<lock, state, rdcount, fspin, call>>

(* Mutant: RWS_READ is not restored.                                       *)
SharedSet_Missing(e) ==
  /\ Goto(e, "sharedSet", "leave")
  /\ UNCHANGED <<lock, state, rdcount, fspin, call>>

SharedSet(e) ==
  /\ Goto(e, "sharedSet", "leave") /\ state' = "READ"
  /\ UNCHANGED <<lock, rdcount, fspin, call>>

Leave(e) ==
  /\ Goto(e, "leave", "left")
  /\ rdcount' = rdcount - 1
  /\ UNCHANGED <<lock, state, fspin, call>>

Left(e) ==
  /\ Goto(e, "left", "idle") /\ fspin' = FALSE /\ call' = [call EXCEPT ![e] = "none"]
  /\ UNCHANGED <<lock, state, rdcount>>

(* .ulsfree: the last reader after all.                                    *)
SharedUnset(e) ==
  /\ Goto(e, "sharedUnset", "sharedLast") /\ state' = "UNLOCKED"
  /\ UNCHANGED <<lock, rdcount, fspin, call>>

SharedLast(e) ==
  /\ Goto(e, "sharedLast", "clear") /\ fspin' = FALSE
  /\ UNCHANGED <<lock, state, rdcount, call>>

(* .ulunlock.                                                              *)
Clear(e) ==
  /\ Goto(e, "clear", "free") /\ state' = "UNLOCKED"
  /\ UNCHANGED <<lock, rdcount, fspin, call>>

Free(e) ==
  /\ Goto(e, "free", "idle") /\ lock' = FALSE /\ call' = [call EXCEPT ![e] = "none"]
  /\ UNCHANGED <<state, rdcount, fspin>>

-----------------------------------------------------------------------------
Step(e) ==
  \/ Take(e) \/ Busy(e) \/ SetState(e) \/ Peek(e) \/ TakeFspin(e) \/ Spin(e)
  \/ Join(e) \/ JoinLock(e) \/ JoinState(e) \/ Joined(e) \/ Undo(e) \/ Undone(e)
  \/ Unlock(e) \/ LookFspin(e) \/ LookCount(e) \/ Unset(e) \/ AgainState(e)
  \/ SharedCount(e) \/ SharedSet(e) \/ Leave(e) \/ Left(e) \/ SharedUnset(e) \/ SharedLast(e)
  \/ Clear(e) \/ Free(e)

Next == \E e \in Engine : Start(e) \/ Step(e)

Spec == Init /\ [][Next]_vars

(* Engines go on, and give the lock up.                                    *)
FairSpec == Spec /\ \A e \in Engine : WF_vars(Step(e))

-----------------------------------------------------------------------------
(* Properties.                                                             *)

Joining(e) == pc[e] \in {"joinLock", "joinState", "undo"}

Releasing(e) == pc[e] \in {"look", "lookCount", "unset", "again", "againCount", "againState", "shared",
                           "sharedCount", "sharedSet", "leave", "sharedUnset", "sharedLast", "clear", "free"}

Has(e) == pc[e] \in {"set", "joined", "held"} \/ Releasing(e)

(* rw_rdlock against rw_unlock: the lock is a reader-writer lock as        *)
(* RWLockSpec has it, of the engines that are not done with releasing it.  *)
RWLock == INSTANCE RWLockSpec WITH
            LWP <- Engine,
            readers <- {e \in Engine : Has(e) /\ Reading(e)},
            writers <- {e \in Engine : Has(e) /\ Writing(e)}

ImplementsRWLock == RWLock!Spec

(* rws_rdcount is exact: the readers besides the one that took rws_lock,   *)
(* and one that only tries to join; and rws_lock is free only when nobody  *)
(* has the lock.                                                           *)
CountExact ==
  /\ lock <=> \E e \in Engine : Has(e)
  /\ rdcount + (IF \E e \in Engine : Has(e) /\ Reading(e) THEN 1 ELSE 0)
       = Cardinality({e \in Engine : Has(e) /\ Reading(e)}) + Cardinality({e \in Engine : Joining(e)})

(* The engine that releases the lock finds in rws_state how it has it, and *)
(* RWS_UNLOCKED in a lock that is held for reading is benign, as the       *)
(* remarks of rw_unlock say: readers are kept out only while another       *)
(* engine is in rw_unlock and will set RWS_READ again.                     *)
StateTells ==
  \A e \in Engine : pc[e] = "held" =>
    /\ Writing(e) <=> state = "WRITE"
    /\ state = "UNLOCKED" =>
         \E f \in Engine : pc[f] \in {"again", "againCount", "againState", "shared", "sharedCount", "sharedSet"}

(* At every release the words of the lock say who has it and how.          *)
WordsExact == CountExact /\ StateTells

(* An engine that spins for the lock does not spin in vain: one of them    *)
(* gets it.                                                                *)
SomebodyGetsIt == (\E e \in Engine : pc[e] = "spin") ~> (\E e \in Engine : pc[e] = "held")

=============================================================================
