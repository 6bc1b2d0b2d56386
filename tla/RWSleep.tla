------------------------------ MODULE RWSleep ------------------------------
(***************************************************************************)
(* The UnixWare reader-writer sleep lock: util/rwsleep.c.  The LWP that    *)
(* takes rw_avail, a reader or a writer, has the lock; further readers     *)
(* join a reader by counting themselves in rw_read, which they may do only *)
(* under rw_fspin and while rw_mode is RWS_READ, and the last reader to    *)
(* leave gives the lock up.                                                *)
(*                                                                         *)
(* An LWP advances through the shared-memory accesses of the calls; the    *)
(* accesses of different LWPs interleave.  l_mutex is held at the pcs of   *)
(* HoldsLmutex.  KS_LOCKTEST and the lock statistics are off.              *)
(***************************************************************************)
EXTENDS Integers, Sequences, FiniteSets

CONSTANTS
  LWP,        \* the LWPs that use the lock
  Readers,    \* those that may ask for it in read mode
  Writers,    \* those that may ask for it in write mode
  Swappable,  \* those that may be found swapped out by rwsleep_dequeue
  None,       \* holder of a spin lock that nobody holds
  MaxSleeps   \* no acquisition starts while an LWP has slept this often

ASSUME RWSleepAssumption ==
  /\ Readers \subseteq LWP /\ Writers \subseteq LWP /\ Swappable \subseteq LWP
  /\ IsFiniteSet(LWP) /\ None \notin LWP /\ MaxSleeps \in Nat

VARIABLES
  avail,    \* rw_avail
  mode,     \* rw_mode
  read,     \* rw_read: readers besides the one that took rw_avail
  fspin,    \* holder of rw_fspin
  pend,     \* rw_pend: LWPs woken that have not yet retaken the lock
  queue,    \* rw_list
  pc,       \* per LWP, where it is in the code
  call,     \* per LWP, the call it is in or got the lock by
  nsleeps,  \* per LWP, local of rwsleep_rdlock and rwsleep_wrlock
  chain,    \* per LWP, wakeup_chain of rwsleep_unlock
  stat      \* per LWP, l_stat: "SSLEEP" or "SRUN" (runnable or running)

lockVars == <<avail, mode, read, fspin, pend, queue>>
lwpVars  == <<call, nsleeps, chain, stat>>
vars     == <<lockVars, lwpVars, pc>>

(* rwsleep_init.                                                           *)
Init ==
  /\ avail = TRUE /\ mode = "UNLOCKED" /\ read = 0 /\ fspin = None /\ pend = 0 /\ queue = <<>>
  /\ pc      = [l \in LWP |-> "idle"]
  /\ call    = [l \in LWP |-> "none"]
  /\ nsleeps = [l \in LWP |-> 0]
  /\ chain   = [l \in LWP |-> <<>>]
  /\ stat    = [l \in LWP |-> "SRUN"]

-----------------------------------------------------------------------------
(* Helpers.                                                                *)

At(l, from) == pc[l] = from
Goto(l, from, to) == pc[l] = from /\ pc' = [pc EXCEPT ![l] = to]

Reading(l) == call[l] \in {"rdlock", "tryrdlock"}
Writing(l) == call[l] \in {"wrlock", "trywrlock"}
Blocking(l) == call[l] \in {"rdlock", "wrlock"}

HoldsLmutex(l) == pc[l] \in {"fsp", "chk", "chkBusy", "chkMode", "lateAvail", "lateMode",
                             "lateUndo", "ins", "sleep"}

(* An LWP that could not have the lock at once goes for the spin locks to  *)
(* sleep, or returns B_FALSE.                                              *)
Denied(l, from) ==
  \/ Blocking(l) /\ Goto(l, from, "fsp") /\ UNCHANGED call
  \/ ~Blocking(l) /\ Goto(l, from, "idle") /\ call' = [call EXCEPT ![l] = "none"]

WithinBounds == \A l \in LWP : nsleeps[l] < MaxSleeps

InSeq(s) == {s[i] : i \in 1..Len(s)}

-----------------------------------------------------------------------------
(* rwsleep_rdlock, rwsleep_wrlock, rwsleep_tryrdlock, rwsleep_trywrlock.   *)

Start(l) ==
  /\ WithinBounds
  /\ \E c \in (IF l \in Readers THEN {"rdlock", "tryrdlock"} ELSE {})
         \cup (IF l \in Writers THEN {"wrlock", "trywrlock"} ELSE {}) :
       call' = [call EXCEPT ![l] = c]
  /\ Goto(l, "idle", "try")
  /\ UNCHANGED <<lockVars, nsleeps, chain, stat>>

(* rw_avail && rwsleep_take, on the fast path and at the head of the loop. *)
Take(l) ==
  /\ avail /\ avail' = FALSE
  /\ Goto(l, "try", "mode")
  /\ UNCHANGED <<mode, read, fspin, pend, queue, lwpVars>>

TakeFails(l) ==
  /\ ~avail
  /\ \/ Reading(l) /\ Goto(l, "try", "peek") /\ UNCHANGED call
     \/ Writing(l) /\ Denied(l, "try")
  /\ UNCHANGED <<lockVars, nsleeps, chain, stat>>

(* rw_mode is read without a lock; RWS_READ is worth a try to join.        *)
Peek(l) ==
  /\ IF mode = "READ" THEN Goto(l, "peek", "join") /\ UNCHANGED call ELSE Denied(l, "peek")
  /\ UNCHANGED <<lockVars, nsleeps, chain, stat>>

(* rw_read is incremented under rw_fspin before the lock is looked at.     *)
Join(l) ==
  /\ fspin = None /\ fspin' = l
  /\ read' = read + 1
  /\ Goto(l, "join", "joinAvail")
  /\ UNCHANGED <<avail, mode, pend, queue, lwpVars>>

JoinAvail(l) ==
  /\ \/ Goto(l, "joinAvail", IF avail THEN "joinUndo" ELSE "joinMode")
     \/ Goto(l, "lateAvail", IF avail THEN "lateUndo" ELSE "lateMode")
  /\ UNCHANGED <<lockVars, lwpVars>>

(* Still held, and still in read mode: the LWP is a reader.                *)
JoinMode(l) ==
  /\ \/ Goto(l, "joinMode", IF mode = "READ" THEN "joined" ELSE "joinUndo")
     \/ Goto(l, "lateMode", IF mode = "READ" THEN "joined" ELSE "lateUndo")
  /\ UNCHANGED <<lockVars, lwpVars>>

(* Mutant: a reader that joins does not count its sleeps down.             *)
Joined_NoPend(l) ==
  /\ nsleeps' = [nsleeps EXCEPT ![l] = 0]
  /\ fspin' = None /\ Goto(l, "joined", "held")
  /\ UNCHANGED <<avail, mode, read, pend, queue, call, chain, stat>>

Joined(l) ==
  /\ pend' = pend - nsleeps[l] /\ nsleeps' = [nsleeps EXCEPT ![l] = 0]
  /\ fspin' = None /\ Goto(l, "joined", "held")
  /\ UNCHANGED <<avail, mode, read, queue, call, chain, stat>>

(* Mutant: the reader count is left incremented.                           *)
JoinUndo_Missing(l) ==
  /\ \/ Denied(l, "joinUndo") /\ fspin' = None
     \/ Goto(l, "lateUndo", "ins") /\ UNCHANGED <<fspin, call>>
  /\ UNCHANGED <<avail, mode, read, pend, queue, nsleeps, chain, stat>>

(* The lock was dropped: the first time rw_fspin is released, the second   *)
(* time the LWP goes on to sleep.                                          *)
JoinUndo(l) ==
  /\ read' = read - 1
  /\ \/ Denied(l, "joinUndo") /\ fspin' = None
     \/ Goto(l, "lateUndo", "ins") /\ UNCHANGED <<fspin, call>>
  /\ UNCHANGED <<avail, mode, pend, queue, nsleeps, chain, stat>>

(* Barring races, the caller is put to sleep: l_mutex, then rw_fspin.      *)
LockFspin(l) ==
  /\ fspin = None /\ fspin' = l
  /\ Goto(l, "fsp", "chk")
  /\ UNCHANGED <<avail, mode, read, pend, queue, lwpVars>>

(* Raced with an unlock: a writer drops both spin locks, a reader waits    *)
(* for RWS_BUSY to go away first.                                          *)
Raced(l) ==
  /\ avail /\ avail' = FALSE
  /\ IF Writing(l) THEN Goto(l, "chk", "mode") /\ fspin' = None
                   ELSE Goto(l, "chk", "chkBusy") /\ UNCHANGED fspin
  /\ UNCHANGED <<mode, read, pend, queue, lwpVars>>

NotRaced(l) ==
  /\ ~avail
  /\ Goto(l, "chk", IF Writing(l) THEN "ins" ELSE "chkMode")
  /\ UNCHANGED <<lockVars, lwpVars>>

RacedBusy(l) ==
  /\ mode # "BUSY" /\ mode' = "READ"
  /\ pend' = pend - nsleeps[l] /\ nsleeps' = [nsleeps EXCEPT ![l] = 0]
  /\ fspin' = None /\ Goto(l, "chkBusy", "held")
  /\ UNCHANGED <<avail, read, queue, call, chain, stat>>

(* A reader looks at the mode a second time before it queues up.           *)
LateJoin(l) ==
  /\ IF mode = "READ" THEN Goto(l, "chkMode", "lateAvail") /\ read' = read + 1
                      ELSE Goto(l, "chkMode", "ins") /\ UNCHANGED read
  /\ UNCHANGED <<avail, mode, fspin, pend, queue, lwpVars>>

(* CL_INSQUE leaves the place in the queue to the scheduling class; insque *)
(* at rw_head puts an LWP that slept before in front of everybody.         *)
Enqueue(l) ==
  /\ \E i \in 0..Len(queue) :
       /\ nsleeps[l] = 0 \/ i = 0
       /\ queue' = SubSeq(queue, 1, i) \o <<l>> \o SubSeq(queue, i + 1, Len(queue))
  /\ fspin' = None /\ Goto(l, "ins", "sleep")
  /\ UNCHANGED <<avail, mode, read, pend, lwpVars>>

(* l_stype and l_stat = SSLEEP are set; swtch releases l_mutex once the    *)
(* LWP is off its stack.                                                   *)
Swtch(l) ==
  /\ Goto(l, "sleep", "asleep")
  /\ stat' = [stat EXCEPT ![l] = "SSLEEP"]
  /\ nsleeps' = [nsleeps EXCEPT ![l] = @ + 1]
  /\ UNCHANGED <<lockVars, call, chain>>

Resume(l) ==
  /\ stat[l] = "SRUN" /\ Goto(l, "asleep", "try")
  /\ UNCHANGED <<lockVars, lwpVars>>

(* Mutant: the new holder does not wait for RWS_BUSY to go away.           *)
SetMode_NoWait(l) ==
  /\ mode' = (IF Reading(l) THEN "READ" ELSE "WRITE")
  /\ Goto(l, "mode", IF nsleeps[l] > 0 THEN "settle" ELSE "held")
  /\ UNCHANGED <<avail, read, fspin, pend, queue, lwpVars>>

(* while (rw_mode == RWS_BUSY) ; then the new holder sets the mode.        *)
SetMode(l) ==
  /\ mode # "BUSY" /\ mode' = (IF Reading(l) THEN "READ" ELSE "WRITE")
  /\ Goto(l, "mode", IF nsleeps[l] > 0 THEN "settle" ELSE "held")
  /\ UNCHANGED <<avail, read, fspin, pend, queue, lwpVars>>

(* rw_pend -= nsleeps: a reader does it under rw_fspin.                    *)
Settle(l) ==
  /\ Reading(l) => fspin = None
  /\ pend' = pend - nsleeps[l] /\ nsleeps' = [nsleeps EXCEPT ![l] = 0]
  /\ Goto(l, "settle", "held")
  /\ UNCHANGED <<avail, mode, read, fspin, queue, call, chain, stat>>

-----------------------------------------------------------------------------
(* rwsleep_unlock.                                                         *)

(* A writer goes on to give the lock up, a reader may not be the last.     *)
Unlock(l) ==
  /\ Goto(l, "held", IF mode = "WRITE" THEN "free" ELSE "lastSpin")
  /\ UNCHANGED <<lockVars, lwpVars>>

(* rw_fspin is looked at before rw_read, here and in the second look: a    *)
(* reader that joins counts itself before it releases rw_fspin.            *)
LastSpin(l) ==
  /\ Goto(l, "lastSpin", IF fspin = None THEN "lastRead" ELSE "shared")
  /\ UNCHANGED <<lockVars, lwpVars>>

LastRead(l) ==
  /\ Goto(l, "lastRead", IF read = 0 THEN "unset" ELSE "shared")
  /\ UNCHANGED <<lockVars, lwpVars>>

(* rw_mode = RWS_UNLOCKED, and WRITE_SYNC before anything is read again.   *)
Unset(l) ==
  /\ Goto(l, "unset", "againSpin") /\ mode' = "UNLOCKED"
  /\ UNCHANGED <<avail, read, fspin, pend, queue, lwpVars>>

AgainSpin(l) ==
  /\ Goto(l, "againSpin", IF fspin = None THEN "againRead" ELSE "shared")
  /\ UNCHANGED <<lockVars, lwpVars>>

AgainRead(l) ==
  /\ Goto(l, "againRead", IF read = 0 THEN "againMode" ELSE "shared")
  /\ UNCHANGED <<lockVars, lwpVars>>

(* A reader that came and went in between has set the mode again.          *)
AgainMode(l) ==
  /\ Goto(l, "againMode", IF mode = "UNLOCKED" THEN "free" ELSE "shared")
  /\ UNCHANGED <<lockVars, lwpVars>>

(* The shared unlock, under rw_fspin.                                      *)
SharedLock(l) ==
  /\ fspin = None /\ fspin' = l
  /\ Goto(l, "shared", "sharedTest")
  /\ UNCHANGED <<avail, mode, read, pend, queue, lwpVars>>

SharedTest(l) ==
  /\ IF read > 0
       THEN Goto(l, "sharedTest", "leave") /\ mode' = "READ" /\ UNCHANGED fspin
       ELSE Goto(l, "sharedTest", "free") /\ mode' = "UNLOCKED" /\ fspin' = None
  /\ UNCHANGED <<avail, read, pend, queue, lwpVars>>

Leave(l) ==
  /\ read' = read - 1 /\ fspin' = None
  /\ call' = [call EXCEPT ![l] = "none"]
  /\ Goto(l, "leave", "idle")
  /\ UNCHANGED <<avail, mode, pend, queue, nsleeps, chain, stat>>

(* L1: the lock is to be given up.  With nobody in sight the optimistic    *)
(* path is taken, otherwise the queue is served.                           *)
Free(l) ==
  /\ Goto(l, "free", IF fspin = None /\ queue = <<>> THEN "busy" ELSE "deq")
  /\ UNCHANGED <<lockVars, lwpVars>>

SetBusy(l) ==
  /\ Goto(l, "busy", "release") /\ mode' = "BUSY"
  /\ UNCHANGED <<avail, read, fspin, pend, queue, lwpVars>>

(* rw_avail = 1, and WRITE_SYNC before anything is read again.             *)
Release(l) ==
  /\ Goto(l, "release", "recheckSpin") /\ avail' = TRUE
  /\ call' = [call EXCEPT ![l] = "none"]
  /\ UNCHANGED <<mode, read, fspin, pend, queue, nsleeps, chain, stat>>

(* Mutant: the second look leaves out rw_fspin.                            *)
RecheckSpin_Skipped(l) ==
  /\ Goto(l, "recheckSpin", "recheckQueue")
  /\ UNCHANGED <<lockVars, lwpVars>>

RecheckSpin(l) ==
  /\ Goto(l, "recheckSpin", IF fspin = None THEN "recheckQueue" ELSE "retake")
  /\ UNCHANGED <<lockVars, lwpVars>>

(* Mutant: the second look leaves out the queue.                           *)
RecheckQueue_Skipped(l) ==
  /\ Goto(l, "recheckQueue", "idle") /\ mode' = "UNLOCKED"
  /\ UNCHANGED <<avail, read, fspin, pend, queue, lwpVars>>

RecheckQueue(l) ==
  /\ Goto(l, "recheckQueue", IF queue = <<>> THEN "idle" ELSE "retake")
  /\ mode' = IF queue = <<>> THEN "UNLOCKED" ELSE mode
  /\ UNCHANGED <<avail, read, fspin, pend, queue, lwpVars>>

(* Mutant: the lock is taken back whether or not it is still free.         *)
Retake_Always(l) ==
  /\ Goto(l, "retake", "deq") /\ avail' = FALSE
  /\ UNCHANGED <<mode, read, fspin, pend, queue, lwpVars>>

(* Somebody may have queued up: take the lock back to wake him, unless a   *)
(* new holder was faster, who then has the waiters to wake.                *)
Retake(l) ==
  /\ Goto(l, "retake", IF avail THEN "deq" ELSE "idle")
  /\ avail' = FALSE
  /\ mode' = IF avail THEN mode ELSE "UNLOCKED"
  /\ UNCHANGED <<read, fspin, pend, queue, lwpVars>>

-----------------------------------------------------------------------------
(* rwsleep_dequeue and the wakeups.                                        *)

DequeueLock(l) ==
  /\ fspin = None /\ fspin' = l
  /\ Goto(l, "deq", "dequeue")
  /\ UNCHANGED <<avail, mode, read, pend, queue, lwpVars>>

(* How many LWPs at the head of the queue are woken when those in loaded   *)
(* are in core: up to the first writer behind a loaded reader, or up to a  *)
(* loaded writer, or all.  l_stype is read twice: writers and writers2 are *)
(* the LWPs in which ST_WRLOCK is found.                                   *)
Woken(loaded, writers, writers2) ==
  LET Stops(n) == \/ n = Len(queue)
                  \/ n > 0 /\ queue[n] \in loaded \cap writers2
                  \/ queue[n + 1] \in writers /\ \E i \in 1..n : queue[i] \in loaded
  IN  CHOOSE n \in 0..Len(queue) : Stops(n) /\ \A m \in 0..(n - 1) : ~Stops(m)

(* An LWP sets l_stype when it has released rw_fspin, so that the last     *)
(* wakeup's ST_NONE may still be found in a writer that has just queued    *)
(* up.  Each LWP is pushed on the chain, the last one is woken first.      *)
Dequeue(l) ==
  /\ \E swapped \in SUBSET Swappable,
        late \in SUBSET {w \in LWP : Writing(w) /\ At(w, "sleep")} :
       \E late2 \in SUBSET late :
         LET writers == {w \in LWP : Writing(w)}
             n == Woken(LWP \ swapped, writers \ late, writers \ late2)
         IN  /\ chain' = [chain EXCEPT ![l] = [i \in 1..n |-> queue[n + 1 - i]]]
             /\ queue' = SubSeq(queue, n + 1, Len(queue))
             /\ pend' = pend + n
  /\ mode' = "UNLOCKED" /\ avail' = TRUE
  /\ call' = [call EXCEPT ![l] = "none"]
  /\ Goto(l, "dequeue", "deqdone")
  /\ UNCHANGED <<read, fspin, nsleeps, stat>>

DequeueUnlock(l) ==
  /\ fspin' = None
  /\ Goto(l, "deqdone", IF chain[l] = <<>> THEN "idle" ELSE "wake")
  /\ UNCHANGED <<avail, mode, read, pend, queue, lwpVars>>

(* LWP_WAKEUP under the l_mutex of the LWP that is woken.                  *)
Wake(l) ==
  /\ Goto(l, "wake", IF Len(chain[l]) = 1 THEN "idle" ELSE "wake")
  /\ ~HoldsLmutex(Head(chain[l]))
  /\ stat' = [stat EXCEPT ![Head(chain[l])] = "SRUN"]
  /\ chain' = [chain EXCEPT ![l] = Tail(@)]
  /\ UNCHANGED <<lockVars, call, nsleeps>>

-----------------------------------------------------------------------------
LockStep(l) ==
  \/ Take(l) \/ TakeFails(l) \/ Peek(l) \/ Join(l) \/ JoinAvail(l) \/ JoinMode(l) \/ Joined(l)
  \/ JoinUndo(l) \/ LockFspin(l) \/ Raced(l) \/ NotRaced(l) \/ RacedBusy(l) \/ LateJoin(l)
  \/ Enqueue(l) \/ Swtch(l) \/ Resume(l) \/ SetMode(l) \/ Settle(l)

UnlockStep(l) ==
  \/ LastSpin(l) \/ LastRead(l) \/ Unset(l) \/ AgainSpin(l) \/ AgainRead(l) \/ AgainMode(l)
  \/ SharedLock(l) \/ SharedTest(l) \/ Leave(l) \/ Free(l) \/ SetBusy(l) \/ Release(l)
  \/ RecheckSpin(l) \/ RecheckQueue(l) \/ Retake(l)
  \/ DequeueLock(l) \/ Dequeue(l) \/ DequeueUnlock(l) \/ Wake(l)

Next == \E l \in LWP : Start(l) \/ Unlock(l) \/ LockStep(l) \/ UnlockStep(l)

Spec == Init /\ [][Next]_vars

(* An LWP that is runnable goes on, and one that holds the lock unlocks it *)
(* in the end.  Nobody has to ask for the lock.                            *)
Fairness == \A l \in LWP : WF_vars(LockStep(l) \/ UnlockStep(l)) /\ WF_vars(Unlock(l))

FairSpec == Spec /\ Fairness

-----------------------------------------------------------------------------
(* Properties.                                                             *)

JoinPcs == {"joinAvail", "joinMode", "joinUndo", "lateAvail", "lateMode", "lateUndo"}
HeldPcs == {"chkBusy", "mode", "settle", "joined", "held", "lastSpin", "lastRead", "unset",
            "againSpin", "againRead", "againMode", "shared", "sharedTest", "leave", "free",
            "busy", "release", "deq", "dequeue"}
(* An LWP has the lock from the exchange of rw_avail, or from the look at  *)
(* rw_mode that makes it a reader, to the store that frees rw_avail, or to *)
(* the decrement of rw_read.                                               *)
Has(l) == pc[l] \in HeldPcs

(* rw_read is exact: the readers besides the one that took rw_avail, and   *)
(* those that only try to join.  (One too many and the lock is never given *)
(* up, one too few and it is given up under a reader.)  And rw_avail is    *)
(* set only when nobody has the lock.                                      *)
ReadExact ==
  /\ avail <=> \A l \in LWP : ~Has(l)
  /\ read + (IF \E l \in LWP : Has(l) /\ Reading(l) THEN 1 ELSE 0)
       = Cardinality({l \in LWP : (Has(l) /\ Reading(l)) \/ pc[l] \in JoinPcs})

(* The ASSERTs at the end of rwsleep_rdlock and rwsleep_wrlock, for as     *)
(* long as the lock is held: rw_mode is RWS_WRITE for a writer, RWS_READ   *)
(* or, while the last reader leaves, RWS_UNLOCKED for a reader.            *)
HolderMode ==
  \A l \in LWP : pc[l] = "held" =>
    IF Writing(l) THEN mode = "WRITE" ELSE mode \in {"READ", "UNLOCKED"}

(* An LWP in SSLEEP can be woken: it is on the queue or on the wakeup      *)
(* chain of an LWP in rwsleep_unlock.                                      *)
SleeperReachable ==
  \A l \in LWP : stat[l] = "SSLEEP" =>
    l \in InSeq(queue) \cup UNION {InSeq(chain[u]) : u \in LWP}

(* No wakeup is lost in the race of an LWP that queues up with an unlock:  *)
(* when the lock is free and an LWP is queued, somebody is bound to look   *)
(* at rw_avail or has an LWP to wake that will.                            *)
WillLook(l) ==
  \/ pc[l] \in {"try", "fsp", "chk", "recheckSpin", "recheckQueue", "retake"}
  \/ pc[l] = "asleep" /\ stat[l] = "SRUN"
  \/ chain[l] # <<>>

NoLostWakeup == avail /\ queue # <<>> => \E l \in LWP : WillLook(l)

(* An LWP that sleeps is woken when it is due, by either of the two.       *)
SleepersWoken == SleeperReachable /\ NoLostWakeup

(* The sleeps of an LWP that rwsleep_dequeue has ended and that the LWP    *)
(* has not yet subtracted from rw_pend.                                    *)
Owed(l) ==
  nsleeps[l] + (IF pc[l] = "sleep" THEN 1 ELSE 0) - (IF l \in InSeq(queue) THEN 1 ELSE 0)

(* rw_pend is their sum exactly, whichever of the four ways to get the     *)
(* lock an LWP that slept takes: RWSLEEP_LOCKBLKD and rwsleep_deinit       *)
(* depend on it.  (There is a pair for each sleep.)                        *)
PendExact ==
  /\ \A l \in LWP : Owed(l) >= 0
  /\ pend = Cardinality(UNION {{l} \X (1..Owed(l)) : l \in LWP})

(* The lock implements RWLockSpec.  A caller of rwsleep_unlock has given   *)
(* up the lock when it calls.                                              *)
Holding(l) == pc[l] \in {"chkBusy", "mode", "settle", "joined", "held"}

RWLock == INSTANCE RWLockSpec WITH
            readers <- {l \in LWP : Holding(l) /\ Reading(l)},
            writers <- {l \in LWP : Holding(l) /\ Writing(l)}

ImplementsRWLock == RWLock!Spec

(* Fair scheduling: when an LWP has gone to sleep for the lock, some LWP   *)
(* gets it.  (Not each: readers that join may keep a writer out for ever,  *)
(* and a newcomer may take the lock before an LWP that has been woken.)    *)
SomebodyGetsIt == (\E l \in LWP : pc[l] = "asleep") ~> (\E l \in LWP : pc[l] = "held")

=============================================================================
