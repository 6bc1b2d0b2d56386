----------------------------- MODULE SleepLock -----------------------------
(***************************************************************************)
(* The UnixWare multiprocessor sleep lock: util/sleep.c and the sleep_t    *)
(* part of util/ksynch.h.  An LWP advances through the shared-memory       *)
(* accesses of sleep_lock, sleep_lock_sig, sleep_trylock, sleep_unlock and *)
(* sleep_lock_private; the accesses of different LWPs interleave.  Setrun  *)
(* stands for the context that posts a signal and calls sleep_unsleep.     *)
(*                                                                         *)
(* sl_pid and sl_lwpid are written and compared together and are one value *)
(* here, owner.  KS_LOCKTEST and the lock statistics are off.              *)
(***************************************************************************)
EXTENDS Integers, Sequences, FiniteSets

CONSTANTS
  LWP,           \* contexts that use the lock: the LWPs of one process that may
                 \* acquire it, and those that only release a disowned lock
  Plain,         \* those that may call sleep_lock
  Interruptible, \* those that may call sleep_lock_sig
  Swappable,     \* those that may be found swapped out by sleep_dequeue
  NOPID,         \* sl_pid of a lock that records no owner
  SL_BUSY,       \* sl_pid of a lock that is becoming free
  None,          \* holder of a spin lock that nobody holds
  Setrun,        \* the context that posts signals
  Signals,       \* kinds of signal posted, a subset of SignalKinds
  SigWaiting,    \* p_sigwait is set and SIGWAITING is caught
  MaxSleeps,     \* no acquisition starts while an LWP has slept this often
  MaxSignals,    \* bound on the signals posted
  MaxBlocked     \* no acquisition starts while p_niblked is this large

SignalKinds == {"caught", "stop", "cancelled"}

ASSUME SleepLockAssumption ==
  /\ Plain \subseteq LWP /\ Interruptible \subseteq LWP /\ Swappable \subseteq LWP
  /\ IsFiniteSet(LWP) /\ {NOPID, SL_BUSY, None, Setrun} \cap LWP = {}
  /\ NOPID # SL_BUSY /\ NOPID # None /\ None # Setrun
  /\ Signals \subseteq SignalKinds /\ SigWaiting \in BOOLEAN
  /\ MaxSleeps \in Nat /\ MaxSignals \in Nat /\ MaxBlocked \in Nat

VARIABLES
  avail,    \* sl_avail
  fspin,    \* holder of sl_fspin
  owner,    \* sl_pid and sl_lwpid
  pend,     \* sl_pend: LWPs woken that have not yet retaken the lock
  fixpend,  \* sl_fixpend: correction still to be applied to sl_pend
  queue,    \* sl_list
  disowned, \* held by no LWP: after SLEEP_DISOWN or sleep_lock_private
  pc,       \* per LWP, where it is in the code
  nsleeps,  \* per LWP, local of sleep_lock and sleep_lock_sig
  chain,    \* per LWP, wakeup_chain of sleep_unlock
  lmutex,   \* per LWP, holder of its l_mutex
  stat,     \* per LWP, l_stat: "SSLEEP" or "SRUN" (runnable or running)
  sigwoke,  \* per LWP, L_SIGWOKE
  sig,      \* per LWP, the signal or stop that issig would find
  niblked,  \* p_niblked
  post,     \* the signal being posted
  nsig      \* signals posted so far

lockVars == <<avail, fspin, owner, pend, fixpend, queue>>
lwpVars  == <<nsleeps, chain, lmutex, stat, disowned>>
sigVars  == <<sigwoke, sig, niblked, post, nsig>>
vars     == <<lockVars, lwpVars, sigVars, pc>>

Idle == [pc |-> "idle", lwp |-> None, kind |-> "none"]

(* sleep_init: the lock is free, nobody waits and no correction is due.    *)
Init ==
  /\ avail = TRUE /\ fspin = None /\ owner = NOPID
  /\ pend = 0 /\ fixpend = 0 /\ queue = <<>> /\ disowned = FALSE
  /\ pc      = [l \in LWP |-> "idle"]
  /\ nsleeps = [l \in LWP |-> 0]
  /\ chain   = [l \in LWP |-> <<>>]
  /\ lmutex  = [l \in LWP |-> None]
  /\ stat    = [l \in LWP |-> "SRUN"]
  /\ sigwoke = [l \in LWP |-> FALSE]
  /\ sig     = [l \in LWP |-> "none"]
  /\ niblked = 0 /\ post = Idle /\ nsig = 0

-----------------------------------------------------------------------------
(* Helpers.                                                                *)

Goto(l, from, to) == pc[l] = from /\ pc' = [pc EXCEPT ![l] = to]

Acquirers == Plain \cup Interruptible

(* A lock is disowned for the completion of an I/O, say, to release it.    *)
Completers == LWP \ Acquirers

(* The bounds of the model: they limit the start of an acquisition, never  *)
(* the progress of one that has started.                                   *)
WithinBounds == niblked < MaxBlocked /\ \A l \in LWP : nsleeps[l] < MaxSleeps

(* CL_INSQUE leaves the place in the queue to the scheduling class; insque *)
(* at sl_head puts an LWP that slept before in front of everybody.         *)
InsertAt(s, i, l) == [j \in 1..(Len(s) + 1) |->
                        IF j < i THEN s[j] ELSE IF j = i THEN l ELSE s[j - 1]]

RemoveAt(s, i) == [j \in 1..(Len(s) - 1) |-> IF j < i THEN s[j] ELSE s[j + 1]]

FirstSleep(l) == nsleeps[l] = 0

Enqueued(l) ==
  \E i \in 1..(Len(queue) + 1) :
    /\ FirstSleep(l) \/ i = 1
    /\ queue' = InsertAt(queue, i, l)

-----------------------------------------------------------------------------
(* sleep_lock.                                                             *)

(* The fast path is tried only when no correction of sl_pend is due.       *)
LockStart(l) ==
  /\ l \in Plain /\ WithinBounds
  /\ Goto(l, "idle", IF fixpend = 0 THEN "fast" ELSE "try")
  /\ UNCHANGED <<lockVars, lwpVars, sigVars>>

(* sl_avail && sleep_take: the exchange decides, the read before it only   *)
(* avoids it.  The slow path makes the same test at the head of its loop.  *)
LockFast(l) ==
  /\ Goto(l, "fast", IF avail THEN "own" ELSE "try")
  /\ avail' = FALSE
  /\ UNCHANGED <<fspin, owner, pend, fixpend, queue, lwpVars, sigVars>>

LockTry(l) ==
  /\ Goto(l, "try", IF avail THEN "got" ELSE "lmx")
  /\ avail' = FALSE
  /\ UNCHANGED <<fspin, owner, pend, fixpend, queue, lwpVars, sigVars>>

LockLmutex(l) ==
  /\ lmutex[l] = None /\ lmutex' = [lmutex EXCEPT ![l] = l]
  /\ Goto(l, "lmx", "fsp")
  /\ UNCHANGED <<lockVars, nsleeps, chain, stat, disowned, sigVars>>

LockFspin(l) ==
  /\ fspin = None /\ fspin' = l
  /\ Goto(l, "fsp", "chk")
  /\ UNCHANGED <<avail, owner, pend, fixpend, queue, lwpVars, sigVars>>

(* Raced with an unlock: take the lock and drop both spin locks.           *)
LockRaced(l) ==
  /\ avail /\ avail' = FALSE
  /\ fspin' = None /\ lmutex' = [lmutex EXCEPT ![l] = None]
  /\ Goto(l, "chk", "got")
  /\ UNCHANGED <<owner, pend, fixpend, queue, nsleeps, chain, stat, disowned, sigVars>>

(* sl_avail is read under sl_fspin, and the LWP queued after that.         *)
LockUnavail(l) ==
  /\ ~avail
  /\ Goto(l, "chk", "ins")
  /\ UNCHANGED <<lockVars, lwpVars, sigVars>>

LockEnqueue(l) ==
  /\ Enqueued(l) /\ fspin' = None
  /\ Goto(l, "ins", "sleep")
  /\ UNCHANGED <<avail, owner, pend, fixpend, lwpVars, sigVars>>

(* l_stat = SSLEEP; swtch releases l_mutex once the LWP is off its stack.  *)
LockSwtch(l) ==
  /\ Goto(l, "sleep", "asleep")
  /\ stat' = [stat EXCEPT ![l] = "SSLEEP"]
  /\ nsleeps' = [nsleeps EXCEPT ![l] = @ + 1]
  /\ lmutex' = [lmutex EXCEPT ![l] = None]
  /\ UNCHANGED <<lockVars, chain, disowned, sigVars>>

LockResume(l) ==
  /\ stat[l] = "SRUN"
  /\ Goto(l, "asleep", "try")
  /\ UNCHANGED <<lockVars, lwpVars, sigVars>>

(* Mutant: one sleep too many is counted down.                             *)
LockSettle_Countdown(l) ==
  /\ Goto(l, "got", IF fixpend > 0 THEN "fix" ELSE "own")
  /\ pend' = pend - nsleeps[l]
  /\ nsleeps' = [nsleeps EXCEPT ![l] = @ - 1]
  /\ UNCHANGED <<avail, fspin, owner, fixpend, queue, chain, lmutex, stat, disowned, sigVars>>

(* Only the holder writes sl_pend: sl_pend -= nsleeps.                     *)
LockSettle(l) ==
  /\ Goto(l, "got", IF fixpend > 0 THEN "fix" ELSE "own")
  /\ pend' = pend - nsleeps[l]
  /\ nsleeps' = [nsleeps EXCEPT ![l] = 0]
  /\ UNCHANGED <<avail, fspin, owner, fixpend, queue, chain, lmutex, stat, disowned, sigVars>>

(* The correction that signalled waiters left, applied under sl_fspin.     *)
ApplyFix(l, from, to) ==
  /\ fspin = None
  /\ Goto(l, from, to)
  /\ pend' = pend - fixpend /\ fixpend' = 0
  /\ UNCHANGED <<avail, fspin, owner, queue, lwpVars, sigVars>>

LockFix(l) == ApplyFix(l, "fix", "own")

(* Mutant: the new owner does not wait for SL_BUSY to go away.             *)
RecordOwner_NoWait(l) ==
  /\ owner' = l
  /\ Goto(l, "own", "held")
  /\ UNCHANGED <<avail, fspin, pend, fixpend, queue, lwpVars, sigVars>>

(* while (sl_pid == SL_BUSY) ; then the new owner is recorded.             *)
RecordOwner(l) ==
  /\ owner # SL_BUSY /\ owner' = l
  /\ Goto(l, "own", "held")
  /\ UNCHANGED <<avail, fspin, pend, fixpend, queue, lwpVars, sigVars>>

(* sleep_trylock that finds the lock; one that fails changes nothing.      *)
TryLock(l) ==
  /\ l \in Acquirers /\ WithinBounds
  /\ avail /\ avail' = FALSE
  /\ Goto(l, "idle", "own")
  /\ UNCHANGED <<fspin, owner, pend, fixpend, queue, lwpVars, sigVars>>

(* sleep_lock_private: the caller alone can reach the lock.                *)
PrivateLock(l) ==
  /\ avail /\ \A x \in LWP : pc[x] = "idle"
  /\ fspin = None /\ queue = <<>> /\ pend <= 0
  /\ avail' = FALSE /\ owner' = NOPID /\ disowned' = TRUE
  /\ l \in Plain /\ Completers # {}
  /\ UNCHANGED <<fspin, pend, fixpend, queue, pc, nsleeps, chain, lmutex, stat, sigVars>>

(* SLEEP_DISOWN.                                                           *)
Disown(l) ==
  /\ Goto(l, "held", "idle")
  /\ Completers # {}
  /\ owner' = NOPID /\ disowned' = TRUE
  /\ UNCHANGED <<avail, fspin, pend, fixpend, queue, nsleeps, chain, lmutex, stat, sigVars>>

-----------------------------------------------------------------------------
(* sleep_unlock and sleep_dequeue.                                         *)

NoContention == fspin = None /\ queue = <<>>

(* The caller holds the lock, or the lock was disowned and any context     *)
(* (the completion of an I/O) may release it.  With nobody in sight the    *)
(* optimistic path marks the lock busy; otherwise the queue is served.     *)
UnlockStart(l) ==
  /\ pc[l] = "held" \/ (pc[l] = "idle" /\ disowned)
  /\ disowned' = (disowned /\ pc[l] = "held")
  /\ IF NoContention /\ fixpend = 0
       THEN /\ owner' = SL_BUSY
            /\ pc' = [pc EXCEPT ![l] = "release"]
       ELSE /\ UNCHANGED owner
            /\ pc' = [pc EXCEPT ![l] = "deq"]
  /\ UNCHANGED <<avail, fspin, pend, fixpend, queue, nsleeps, chain, lmutex, stat, sigVars>>

(* sl_avail = 1, and WRITE_SYNC before anything is read again.             *)
UnlockRelease(l) ==
  /\ Goto(l, "release", "recheckSpin")
  /\ avail' = TRUE
  /\ UNCHANGED <<fspin, owner, pend, fixpend, queue, lwpVars, sigVars>>

(* Mutant: the second look leaves out sl_fspin.                            *)
UnlockRecheckSpin_Skipped(l) ==
  /\ Goto(l, "recheckSpin", "recheckQueue")
  /\ UNCHANGED <<lockVars, lwpVars, sigVars>>

(* The second look reads sl_fspin first and the queue after it.            *)
UnlockRecheckSpin(l) ==
  /\ Goto(l, "recheckSpin", IF fspin = None THEN "recheckQueue" ELSE "retake")
  /\ UNCHANGED <<lockVars, lwpVars, sigVars>>

(* Mutant: the second look leaves out the queue.                           *)
UnlockRecheckQueue_Skipped(l) ==
  /\ Goto(l, "recheckQueue", "idle")
  /\ owner' = NOPID
  /\ UNCHANGED <<avail, fspin, pend, fixpend, queue, lwpVars, sigVars>>

UnlockRecheckQueue(l) ==
  /\ Goto(l, "recheckQueue", IF queue = <<>> THEN "idle" ELSE "retake")
  /\ owner' = IF queue = <<>> THEN NOPID ELSE owner
  /\ UNCHANGED <<avail, fspin, pend, fixpend, queue, lwpVars, sigVars>>

(* Mutant: the lock is taken back whether or not it is still free.         *)
UnlockRetake_Always(l) ==
  /\ Goto(l, "retake", "deq")
  /\ avail' = FALSE
  /\ UNCHANGED <<owner, fspin, pend, fixpend, queue, lwpVars, sigVars>>

(* Mutant: the lock is taken back, but the queue is not served.            *)
UnlockRetake_Return(l) ==
  /\ Goto(l, "retake", "idle")
  /\ avail' = FALSE
  /\ owner' = NOPID
  /\ UNCHANGED <<fspin, pend, fixpend, queue, lwpVars, sigVars>>

(* Somebody may have queued up: take the lock back to wake him, unless a   *)
(* new owner was faster, who then has the waiters to wake.                 *)
UnlockRetake(l) ==
  /\ Goto(l, "retake", IF avail THEN "deq" ELSE "idle")
  /\ avail' = FALSE
  /\ owner' = IF avail THEN owner ELSE NOPID
  /\ UNCHANGED <<fspin, pend, fixpend, queue, lwpVars, sigVars>>

DequeueLock(l) ==
  /\ fspin = None /\ fspin' = l
  /\ Goto(l, "deq", "dequeue")
  /\ UNCHANGED <<avail, owner, pend, fixpend, queue, lwpVars, sigVars>>

(* The waiters sleep_dequeue may take: the first one found in core ends    *)
(* the loop, those before it are swapped out.                              *)
DequeueCounts ==
  {n \in 0..Len(queue) : /\ n = 0 => queue = <<>>
                         /\ \A i \in 1..(n - 1) : queue[i] \in Swappable
                         /\ n < Len(queue) => n > 0}

(* Mutant: sl_pid keeps the value it had.                                  *)
Dequeue_KeepOwner(l) ==
  /\ Goto(l, "dequeue", "deqdone")
  /\ \E n \in DequeueCounts :
       /\ chain' = [chain EXCEPT ![l] = [i \in 1..n |-> queue[n + 1 - i]]]
       /\ queue' = SubSeq(queue, n + 1, Len(queue))
       /\ pend' = pend + n - fixpend
  /\ fixpend' = 0 /\ avail' = TRUE
  /\ UNCHANGED <<fspin, owner, nsleeps, lmutex, stat, disowned, sigVars>>

(* Each is pushed on the chain, so the last one dequeued is woken first.   *)
Dequeue(l) ==
  /\ Goto(l, "dequeue", "deqdone")
  /\ \E n \in DequeueCounts :
       /\ chain' = [chain EXCEPT ![l] = [i \in 1..n |-> queue[n + 1 - i]]]
       /\ queue' = SubSeq(queue, n + 1, Len(queue))
       /\ pend' = pend + n - fixpend
  /\ fixpend' = 0 /\ owner' = NOPID /\ avail' = TRUE
  /\ UNCHANGED <<fspin, nsleeps, lmutex, stat, disowned, sigVars>>

DequeueUnlock(l) ==
  /\ fspin' = None
  /\ Goto(l, "deqdone", IF chain[l] = <<>> THEN "idle" ELSE "wake")
  /\ UNCHANGED <<avail, owner, pend, fixpend, queue, lwpVars, sigVars>>

(* LWP_WAKEUP under the l_mutex of the LWP that is woken.                  *)
UnlockWake(l) ==
  /\ Goto(l, "wake", IF Len(chain[l]) = 1 THEN "idle" ELSE "wake")
  /\ chain' = [chain EXCEPT ![l] = Tail(@)]
  /\ LET x == Head(chain[l]) IN
       /\ lmutex[x] = None
       /\ stat' = [stat EXCEPT ![x] = "SRUN"]
       /\ sigwoke' = [sigwoke EXCEPT ![x] = FALSE]
  /\ UNCHANGED <<lockVars, nsleeps, lmutex, disowned, sig, niblked, post, nsig>>

-----------------------------------------------------------------------------
(* sleep_lock_sig.                                                         *)

SigStart(l) ==
  /\ l \in Interruptible /\ WithinBounds
  /\ Goto(l, "idle", "s_again")
  /\ UNCHANGED <<lockVars, lwpVars, sigVars>>

(* again: QUEUEDSIG is read without a lock first, then under l_mutex.      *)
SigAgain(l) ==
  /\ Goto(l, "s_again", IF sig[l] = "none" THEN "s_lmx" ELSE "s_issig")
  /\ UNCHANGED <<lockVars, lwpVars, sigVars>>

SigLmutex(l) ==
  /\ lmutex[l] = None
  /\ sigwoke' = [sigwoke EXCEPT ![l] = FALSE]
  /\ lmutex' = [lmutex EXCEPT ![l] = IF sig[l] = "none" THEN l ELSE None]
  /\ Goto(l, "s_lmx", IF sig[l] = "none" THEN "s_acquire" ELSE "s_issig")
  /\ UNCHANGED <<lockVars, nsleeps, chain, stat, disowned, sig, niblked, post, nsig>>

(* B_FALSE is returned.  An LWP that slept more than once leaves its other *)
(* sleeps to be subtracted from sl_pend; the signal is then delivered.     *)
Signalled(l, from) ==
  /\ sig[l] = "caught"
  /\ Goto(l, from, IF nsleeps[l] > 1 THEN "s_fixpend" ELSE "idle")
  /\ nsleeps' = IF nsleeps[l] > 1 THEN nsleeps ELSE [nsleeps EXCEPT ![l] = 0]
  /\ sig' = [sig EXCEPT ![l] = "none"]

Stopped(l, from) ==
  /\ sig[l] = "stop"
  /\ Goto(l, from, "s_again")
  /\ sig' = [sig EXCEPT ![l] = "none"]
  /\ UNCHANGED nsleeps

(* Nothing is left to process; issig returns with l_mutex held.            *)
NoSignal(l, from) ==
  /\ sig[l] \in {"none", "cancelled"} /\ lmutex[l] = None
  /\ lmutex' = [lmutex EXCEPT ![l] = l]
  /\ Goto(l, from, "s_acquire")
  /\ sig' = [sig EXCEPT ![l] = "none"]
  /\ UNCHANGED nsleeps

(* issig before the LWP goes for the lock.                                 *)
SigIssig(l) ==
  /\ \/ Signalled(l, "s_issig") /\ UNCHANGED lmutex
     \/ Stopped(l, "s_issig") /\ UNCHANGED lmutex
     \/ NoSignal(l, "s_issig")
  /\ UNCHANGED <<lockVars, chain, stat, disowned, sigwoke, niblked, post, nsig>>

(* Mutant: the correction counts the sleep that the signal ended.          *)
SigFixpend_All(l) ==
  /\ fspin = None
  /\ Goto(l, "s_fixpend", "idle")
  /\ fixpend' = fixpend + nsleeps[l]
  /\ nsleeps' = [nsleeps EXCEPT ![l] = 0]
  /\ UNCHANGED <<avail, fspin, owner, pend, queue, chain, lmutex, stat, disowned, sigVars>>

SigFixpend(l) ==
  /\ fspin = None
  /\ Goto(l, "s_fixpend", "idle")
  /\ fixpend' = fixpend + nsleeps[l] - 1
  /\ nsleeps' = [nsleeps EXCEPT ![l] = 0]
  /\ UNCHANGED <<avail, fspin, owner, pend, queue, chain, lmutex, stat, disowned, sigVars>>

(* acquire: count this LWP as blocked, or send SIGWAITING and start again  *)
(* when it would be the last of its process to block.  Whether SIGWAITING  *)
(* is already pending is not followed.                                     *)
SigAcquire(l) ==
  /\ \/ /\ niblked' = niblked + 1
        /\ Goto(l, "s_acquire", "s_take")
        /\ UNCHANGED lmutex
     \/ /\ SigWaiting /\ niblked + 1 >= Cardinality(Acquirers) /\ nsig < MaxSignals
        /\ lmutex' = [lmutex EXCEPT ![l] = None]
        /\ Goto(l, "s_acquire", "s_sigtoproc")
        /\ UNCHANGED niblked
  /\ UNCHANGED <<lockVars, nsleeps, chain, stat, disowned, sigwoke, sig, post, nsig>>

(* sigtoproc picks the LWP that is to take SIGWAITING; it returns when the *)
(* signal has been posted.                                                 *)
SigToProc(l) ==
  /\ post = Idle
  /\ \E x \in LWP : post' = [pc |-> "lock", lwp |-> x, kind |-> "caught"]
  /\ nsig' = nsig + 1
  /\ Goto(l, "s_sigtoproc", "s_posted")
  /\ UNCHANGED <<lockVars, lwpVars, sigwoke, sig, niblked>>

SigPosted(l) ==
  /\ post = Idle
  /\ Goto(l, "s_posted", "s_again")
  /\ UNCHANGED <<lockVars, lwpVars, sigVars>>

(* The lock is available: sl_pend is settled, then l_mutex is dropped.     *)
SigTake(l) ==
  /\ avail /\ avail' = FALSE
  /\ pend' = pend - nsleeps[l]
  /\ nsleeps' = [nsleeps EXCEPT ![l] = 0]
  /\ lmutex' = [lmutex EXCEPT ![l] = None]
  /\ Goto(l, "s_take", IF fixpend > 0 THEN "s_fix" ELSE "s_own")
  /\ UNCHANGED <<fspin, owner, fixpend, queue, chain, stat, disowned, sigVars>>

SigFix(l) == ApplyFix(l, "s_fix", "s_own")

SigOwner(l) ==
  /\ owner # SL_BUSY /\ owner' = l
  /\ niblked' = niblked - 1
  /\ Goto(l, "s_own", "held")
  /\ UNCHANGED <<avail, fspin, pend, fixpend, queue, lwpVars, sigwoke, sig, post, nsig>>

(* The lock is not available: sl_fspin is wanted too.                      *)
SigUnavail(l) ==
  /\ ~avail
  /\ Goto(l, "s_take", "s_fsp")
  /\ UNCHANGED <<lockVars, lwpVars, sigVars>>

SigFspin(l) ==
  /\ fspin = None /\ fspin' = l
  /\ Goto(l, "s_fsp", "s_chk")
  /\ UNCHANGED <<avail, owner, pend, fixpend, queue, lwpVars, sigVars>>

(* Raced with an unlock: both spin locks are dropped and the code goes to  *)
(* acquire, which expects l_mutex to be held and counts the LWP again.     *)
SigRaced(l) ==
  /\ avail
  /\ fspin' = None /\ lmutex' = [lmutex EXCEPT ![l] = None]
  /\ Goto(l, "s_chk", "s_acquire")
  /\ UNCHANGED <<avail, owner, pend, fixpend, queue, nsleeps, chain, stat, disowned, sigVars>>

SigNotRaced(l) ==
  /\ ~avail
  /\ Goto(l, "s_chk", "s_ins")
  /\ UNCHANGED <<lockVars, lwpVars, sigVars>>

SigEnqueue(l) ==
  /\ Enqueued(l) /\ fspin' = None
  /\ Goto(l, "s_ins", "s_sleep")
  /\ UNCHANGED <<avail, owner, pend, fixpend, lwpVars, sigVars>>

(* L_NWAKE is off in this sleep: a signal may end it.                      *)
SigSwtch(l) ==
  /\ Goto(l, "s_sleep", "s_asleep")
  /\ stat' = [stat EXCEPT ![l] = "SSLEEP"]
  /\ nsleeps' = [nsleeps EXCEPT ![l] = @ + 1]
  /\ lmutex' = [lmutex EXCEPT ![l] = None]
  /\ UNCHANGED <<lockVars, chain, disowned, sigVars>>

SigResume(l) ==
  /\ stat[l] = "SRUN"
  /\ niblked' = niblked - 1
  /\ Goto(l, "s_asleep", IF sigwoke[l] THEN "s_woken" ELSE "s_relock")
  /\ UNCHANGED <<lockVars, lwpVars, sigwoke, sig, post, nsig>>

(* issig after a wakeup by a signal.                                       *)
SigWoken(l) ==
  /\ \/ /\ Signalled(l, "s_woken") /\ lmutex[l] = None
        /\ sigwoke' = [sigwoke EXCEPT ![l] = FALSE]
        /\ UNCHANGED lmutex
     \/ Stopped(l, "s_woken") /\ UNCHANGED <<lmutex, sigwoke>>
     \/ /\ NoSignal(l, "s_woken")
        /\ sigwoke' = [sigwoke EXCEPT ![l] = FALSE]
  /\ UNCHANGED <<lockVars, chain, stat, disowned, niblked, post, nsig>>

SigRelock(l) ==
  /\ lmutex[l] = None /\ lmutex' = [lmutex EXCEPT ![l] = l]
  /\ Goto(l, "s_relock", "s_acquire")
  /\ UNCHANGED <<lockVars, nsleeps, chain, stat, disowned, sigVars>>

-----------------------------------------------------------------------------
(* The posting of signals, which is outside util/: a signal is recorded    *)
(* under l_mutex and an interruptible sleeper is taken off the queue with  *)
(* sleep_unsleep, which fails when sleep_unlock has dequeued it already.   *)

PostSignal(x, kind) ==
  /\ post = Idle /\ nsig < MaxSignals
  /\ post' = [pc |-> "lock", lwp |-> x, kind |-> kind] /\ nsig' = nsig + 1
  /\ UNCHANGED <<lockVars, lwpVars, sigwoke, sig, niblked, pc>>

PostLock ==
  LET x == post.lwp
      sleeping == stat[x] = "SSLEEP" /\ pc[x] = "s_asleep" IN
  /\ post.pc = "lock" /\ lmutex[x] = None
  /\ sig' = [sig EXCEPT ![x] = IF @ = "none" THEN post.kind ELSE @]
  /\ lmutex' = [lmutex EXCEPT ![x] = IF sleeping THEN Setrun ELSE None]
  /\ post' = IF sleeping THEN [post EXCEPT !.pc = "fspin"] ELSE Idle
  /\ UNCHANGED <<lockVars, nsleeps, chain, stat, disowned, sigwoke, niblked, nsig, pc>>

PostFspin ==
  /\ post.pc = "fspin" /\ fspin = None
  /\ fspin' = Setrun /\ post' = [post EXCEPT !.pc = "unsleep"]
  /\ UNCHANGED <<avail, owner, pend, fixpend, queue, lwpVars, sigwoke, sig, niblked, nsig, pc>>

(* slpdeque under sl_fspin; setrun wakes the LWP it dequeued.              *)
Unsleep ==
  LET x == post.lwp IN
  /\ post.pc = "unsleep"
  /\ \/ \E i \in 1..Len(queue) :
          /\ queue[i] = x /\ queue' = RemoveAt(queue, i)
          /\ stat' = [stat EXCEPT ![x] = "SRUN"]
          /\ sigwoke' = [sigwoke EXCEPT ![x] = TRUE]
     \/ /\ \A i \in 1..Len(queue) : queue[i] # x
        /\ UNCHANGED <<queue, stat, sigwoke>>
  /\ fspin' = None /\ lmutex' = [lmutex EXCEPT ![x] = None]
  /\ post' = Idle
  /\ UNCHANGED <<avail, owner, pend, fixpend, nsleeps, chain, disowned, sig, niblked, nsig, pc>>

(* A signal that finds the LWP outside the lock code is delivered.         *)
Deliver(l) ==
  /\ pc[l] = "idle" /\ sig[l] # "none"
  /\ sig' = [sig EXCEPT ![l] = "none"]
  /\ UNCHANGED <<lockVars, lwpVars, sigwoke, niblked, post, nsig, pc>>

-----------------------------------------------------------------------------
Start(l) == LockStart(l) \/ TryLock(l) \/ PrivateLock(l) \/ SigStart(l) \/ Disown(l)

LockStep(l) ==
  \/ LockFast(l) \/ LockTry(l) \/ LockLmutex(l) \/ LockFspin(l) \/ LockRaced(l) \/ LockUnavail(l)
  \/ LockEnqueue(l) \/ LockSwtch(l) \/ LockResume(l) \/ LockSettle(l) \/ LockFix(l)
  \/ RecordOwner(l)

UnlockStep(l) ==
  \/ UnlockRelease(l) \/ UnlockRecheckSpin(l) \/ UnlockRecheckQueue(l) \/ UnlockRetake(l)
  \/ DequeueLock(l) \/ Dequeue(l) \/ DequeueUnlock(l) \/ UnlockWake(l)

SigStep(l) ==
  \/ SigAgain(l) \/ SigLmutex(l) \/ SigIssig(l) \/ SigFixpend(l) \/ SigAcquire(l)
  \/ SigToProc(l) \/ SigPosted(l) \/ SigTake(l) \/ SigFix(l) \/ SigOwner(l)
  \/ SigUnavail(l) \/ SigFspin(l) \/ SigRaced(l) \/ SigNotRaced(l) \/ SigEnqueue(l) \/ SigSwtch(l)
  \/ SigResume(l) \/ SigWoken(l) \/ SigRelock(l)

PostStep == PostLock \/ PostFspin \/ Unsleep

Next ==
  \/ \E l \in LWP : \/ Start(l) \/ UnlockStart(l) \/ LockStep(l)
                    \/ UnlockStep(l) \/ SigStep(l) \/ Deliver(l)
  \/ \E x \in LWP, kind \in Signals : PostSignal(x, kind)
  \/ PostStep

Spec == Init /\ [][Next]_vars

(* An LWP that is runnable goes on; a lock that is held is released in the *)
(* end, by its owner or, once it is disowned, by somebody; a signal that   *)
(* is being posted gets posted.  Nobody has to ask for the lock.           *)
Fairness ==
  /\ \A l \in LWP : WF_vars(LockStep(l) \/ UnlockStep(l) \/ SigStep(l))
  /\ \A l \in LWP : WF_vars(pc[l] = "held" /\ UnlockStart(l))
  /\ WF_vars(\E l \in LWP : UnlockStart(l))
  /\ WF_vars(PostStep)

FairSpec == Spec /\ Fairness


-----------------------------------------------------------------------------
(* Properties.                                                             *)

PlainPcs == {"idle", "fast", "try", "lmx", "fsp", "chk", "ins", "sleep", "asleep", "got", "fix",
             "own", "held", "release", "recheckSpin", "recheckQueue", "retake", "deq",
             "dequeue", "deqdone", "wake"}
SigPcs == {"s_again", "s_lmx", "s_issig", "s_fixpend", "s_acquire", "s_sigtoproc",
           "s_posted", "s_take", "s_fix", "s_own", "s_fsp", "s_chk", "s_ins", "s_sleep",
           "s_asleep", "s_woken", "s_relock"}

TypeOK ==
  /\ avail \in BOOLEAN /\ disowned \in BOOLEAN
  /\ fspin \in LWP \cup {None, Setrun}
  /\ owner \in LWP \cup {NOPID, SL_BUSY}
  /\ pend \in Int /\ fixpend \in Int
  /\ queue \in Seq(LWP)
  /\ pc \in [LWP -> PlainPcs \cup SigPcs]
  /\ nsleeps \in [LWP -> Nat]
  /\ chain \in [LWP -> Seq(LWP)]
  /\ lmutex \in [LWP -> LWP \cup {None, Setrun}]
  /\ stat \in [LWP -> {"SSLEEP", "SRUN"}]
  /\ sigwoke \in [LWP -> BOOLEAN]
  /\ sig \in [LWP -> SignalKinds \cup {"none"}]
  /\ niblked \in Int /\ nsig \in Nat
  /\ post \in [pc : {"idle", "lock", "fspin", "unsleep"}, lwp : LWP \cup {None},
               kind : SignalKinds \cup {"none"}]

(* Between the exchange that takes sl_avail and the store that frees it.   *)
Taken(l) == pc[l] \in {"got", "fix", "own", "held", "release", "deq", "dequeue",
                       "s_fix", "s_own"}

(* The optimistic release, from SL_BUSY to the store of NOPID.             *)
Releasing(l) == pc[l] \in {"release", "recheckSpin", "recheckQueue", "retake"}

(* sleep_lock: however acquisitions, optimistic releases that take the     *)
(* lock back, wakeups and signals interleave, one LWP at a time has the    *)
(* lock, and nobody has it while it is free or disowned.                   *)
MutualExclusion ==
  /\ \A a, b \in LWP : Taken(a) /\ Taken(b) => a = b
  /\ \A a \in LWP : Taken(a) => ~avail /\ ~disowned
  /\ disowned => ~avail

(* The lock is never lost: while sl_avail is 0 somebody has it and will    *)
(* release it (sleep_unlock takes the lock back and sometimes must not).   *)
NeverLost == ~avail => disowned \/ \E l \in LWP : Taken(l)

(* SLEEP_LOCKOWNED is exact for the LWP that holds the lock: sl_pid names  *)
(* it from the end of sleep_lock to sleep_unlock, no late store of NOPID   *)
(* by the previous holder erases it, and it names nobody else.             *)
OwnerRecorded ==
  /\ \A l \in LWP : pc[l] = "held" => owner = l
  /\ \A l \in LWP : owner = l => pc[l] \in {"held", "deq", "dequeue"}

(* ASSERT(lockp->sl_pid == NOPID) before the new owner is recorded: the    *)
(* hand-over always goes through NOPID.                                    *)
OwnerHandover == [][owner' \in LWP /\ owner' # owner => owner = NOPID]_vars

(* An LWP in SSLEEP can be woken: it is on the queue or on the wakeup      *)
(* chain of an LWP in sleep_unlock (l_mutex orders l_stat against          *)
(* LWP_WAKEUP).                                                            *)
InSeq(s) == {s[i] : i \in 1..Len(s)}

SleeperReachable ==
  \A l \in LWP : stat[l] = "SSLEEP" =>
    l \in InSeq(queue) \cup UNION {InSeq(chain[u]) : u \in LWP}

(* An LWP that is bound to find sl_avail set: it looks at it again before  *)
(* it sleeps, or it is about to be woken and then looks.                   *)
WillLook(l) ==
  \/ pc[l] \in {"fast", "try", "lmx", "fsp", "chk", "s_relock", "s_acquire", "s_take",
                "s_fsp", "s_chk", "recheckSpin", "recheckQueue", "retake"}
  \/ pc[l] \in {"asleep", "s_asleep"} /\ stat[l] = "SRUN" /\ ~sigwoke[l]
  \/ chain[l] # <<>>

(* No wakeup is lost in the race of an LWP that queues up with an unlock:  *)
(* when the lock is free and an LWP is queued, somebody will look at it.   *)
NoLostWakeup == avail /\ queue # <<>> => \E l \in LWP : WillLook(l)

(* An LWP that sleeps is woken when it is due, by either of the two.       *)
SleepersWoken == SleeperReachable /\ NoLostWakeup

(* What every sleep and wakeup leaves in sl_pend: the sleeps of an LWP     *)
(* that were ended by sleep_dequeue and that it has not subtracted yet.    *)
Owed(l) ==
  nsleeps[l]
  + (IF pc[l] \in {"sleep", "s_sleep"} THEN 1 ELSE 0)
  - (IF l \in InSeq(queue) THEN 1 ELSE 0)
  - (IF pc[l] \in {"s_woken", "s_fixpend"} \/ (pc[l] = "s_asleep" /\ sigwoke[l])
       THEN 1 ELSE 0)

(* (There is a pair for each sleep.)                                       *)
PendExact ==
  /\ \A l \in LWP : Owed(l) >= 0
  /\ pend - fixpend = Cardinality(UNION {{l} \X (1..Owed(l)) : l \in LWP})

(* No signal is posted but such as are caught, and no SIGWAITING sent.     *)
OnlyCaught ==
  /\ \A l \in LWP : sig[l] \in {"none", "caught"} /\ pc[l] \notin {"s_sigtoproc", "s_posted"}
  /\ post.pc # "idle" => post.kind = "caught"

(* sl_pend, less the correction that is still due, is exactly the sum of   *)
(* these: otherwise SLEEP_LOCKBLKD is wrong for ever, and sleep_deinit     *)
(* panics.  It is as long as every signal is caught: a stop, a signal that *)
(* is cancelled and SIGWAITING make the two part.                          *)
PendKept == []OnlyCaught => []PendExact

(* ASSERT(LOCK_OWNED(&lwpp->l_mutex)) at acquire in sleep_lock_sig.        *)
AcquireHoldsLmutex == \A l \in LWP : pc[l] = "s_acquire" => lmutex[l] = l

(* The lock implements LockSpec.  A caller of sleep_unlock has given up    *)
(* the lock when it calls, a caller of sleep_lock has it when it took      *)
(* sl_avail.                                                               *)
Having(l) == pc[l] \in {"got", "fix", "own", "held", "s_fix", "s_own"}

Holder == IF disowned THEN None
          ELSE IF \E l \in LWP : Having(l) THEN CHOOSE l \in LWP : Having(l)
          ELSE NOPID

Lock == INSTANCE LockSpec WITH Free <- NOPID, Disowned <- None, holder <- Holder

ImplementsLock == Lock!Spec

(* Fair scheduling and no signals: when an LWP wants the lock, one gets    *)
(* it.  (Not each: a newcomer may take the lock before an LWP that has     *)
(* been woken does.)                                                       *)
SomebodyGetsIt ==
  (\E l \in LWP : pc[l] \in {"try", "lmx", "fsp", "chk", "sleep", "asleep"})
    ~> (\E l \in LWP : pc[l] = "held")

=============================================================================
