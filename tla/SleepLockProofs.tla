-------------------------- MODULE SleepLockProofs --------------------------
(***************************************************************************)
(* Proofs about SleepLock for every number of LWPs, every mix of calls and *)
(* every bound.                                                            *)
(***************************************************************************)
EXTENDS SleepLock, FiniteSetTheorems, SequenceTheorems, TLAPS

-----------------------------------------------------------------------------
(* Sequences of LWPs: the queue and the wakeup chains stay sequences.      *)

(* Inserting an LWP into the queue (CL_INSQUE, insque) gives a queue.      *)
LEMMA InsertAtType ==
  ASSUME NEW S, NEW s \in Seq(S), NEW l \in S, NEW i \in 1..(Len(s) + 1)
  PROVE  InsertAt(s, i, l) \in Seq(S)
<1>1. Len(s) \in Nat /\ \A j \in 1..Len(s) : s[j] \in S
  BY LenProperties, ElementOfSeq
<1>2. \A j \in 1..(Len(s) + 1) : InsertAt(s, i, l)[j] \in S
  BY <1>1 DEF InsertAt
<1> QED
  BY <1>1, <1>2, SeqDef DEF InsertAt

(* Taking an LWP out of the queue (slpdeque) gives a queue.                *)
LEMMA RemoveAtType ==
  ASSUME NEW S, NEW s \in Seq(S), NEW i \in 1..Len(s)
  PROVE  RemoveAt(s, i) \in Seq(S)
<1>1. Len(s) \in Nat /\ Len(s) - 1 \in Nat /\ \A j \in 1..Len(s) : s[j] \in S
  BY LenProperties, ElementOfSeq
<1>2. \A j \in 1..(Len(s) - 1) : RemoveAt(s, i)[j] \in S
  BY <1>1 DEF RemoveAt
<1> QED
  BY <1>1, <1>2, SeqDef DEF RemoveAt

(* What sleep_dequeue takes from the queue and what it leaves there.       *)
LEMMA DequeueType ==
  ASSUME NEW S, NEW s \in Seq(S), NEW n \in 0..Len(s)
  PROVE  /\ SubSeq(s, n + 1, Len(s)) \in Seq(S)
         /\ [i \in 1..n |-> s[n + 1 - i]] \in Seq(S)
<1>1. Len(s) \in Nat /\ n \in Nat /\ \A j \in 1..Len(s) : s[j] \in S
  BY LenProperties, ElementOfSeq
<1>2. SubSeq(s, n + 1, Len(s)) \in Seq(S)
  BY <1>1, SubSeqProperties
<1>3. \A i \in 1..n : s[n + 1 - i] \in S
  BY <1>1
<1>4. [i \in 1..n |-> s[n + 1 - i]] \in Seq(S)
  BY <1>1, <1>3, SeqDef
<1> QED
  BY <1>2, <1>4

-----------------------------------------------------------------------------
(* Type correctness.                                                       *)

(* An LWP that is to wake somebody has somebody on its chain.              *)
WakeHasChain == \A l \in LWP : pc[l] = "wake" => chain[l] # <<>>

TypeInv == TypeOK /\ WakeHasChain

(* sleep_init establishes the types.                                       *)
LEMMA InitType == Init => TypeInv
<1> SUFFICES ASSUME Init PROVE TypeInv
  OBVIOUS
<1>1. /\ avail \in BOOLEAN /\ disowned \in BOOLEAN /\ fspin = None /\ owner = NOPID
  BY Zenon DEF Init
<1>0. pend \in Int /\ fixpend \in Int /\ niblked \in Int /\ nsig \in Nat
  BY DEF Init
<1>5. queue \in Seq(LWP)
  BY EmptySeq, Zenon DEF Init
<1>2. /\ pc \in [LWP -> PlainPcs \cup SigPcs] /\ WakeHasChain
      /\ sig \in [LWP -> SignalKinds \cup {"none"}] /\ stat \in [LWP -> {"SSLEEP", "SRUN"}]
  BY DEF Init, PlainPcs, WakeHasChain
<1>3. /\ nsleeps \in [LWP -> Nat] /\ chain \in [LWP -> Seq(LWP)]
      /\ lmutex \in [LWP -> LWP \cup {None, Setrun}] /\ sigwoke \in [LWP -> BOOLEAN]
  BY EmptySeq DEF Init
<1>4. post \in [pc : {"idle", "lock", "fspin", "unsleep"}, lwp : LWP \cup {None},
                kind : SignalKinds \cup {"none"}]
  BY DEF Init, Idle
<1> QED
  BY <1>0, <1>1, <1>2, <1>3, <1>4, <1>5 DEF TypeInv, TypeOK


(* The calls that start an acquisition or disown the lock keep the types.  *)
LEMMA StartType ==
  ASSUME TypeInv, NEW l \in LWP, Start(l)
  PROVE  TypeInv'
<1> USE SleepLockAssumption DEF TypeInv, TypeOK, WakeHasChain, Goto, PlainPcs, SigPcs,
        SignalKinds, lockVars, lwpVars, sigVars
<1>1. CASE LockStart(l)
  BY <1>1 DEF LockStart
<1>2. CASE TryLock(l)
  BY <1>2 DEF TryLock
<1>3. CASE PrivateLock(l)
  BY <1>3 DEF PrivateLock
<1>4. CASE SigStart(l)
  BY <1>4 DEF SigStart
<1>5. CASE Disown(l)
  BY <1>5 DEF Disown
<1> QED
  BY <1>1, <1>2, <1>3, <1>4, <1>5 DEF Start

(* So do the steps of sleep_lock.                                          *)
LEMMA LockType ==
  ASSUME TypeInv, NEW l \in LWP, LockStep(l)
  PROVE  TypeInv'
<1> USE SleepLockAssumption DEF TypeInv, TypeOK, WakeHasChain, Goto, PlainPcs, SigPcs,
        SignalKinds, lockVars, lwpVars, sigVars
<1>1. CASE LockFast(l)
  <2>1. \/ pc' = [pc EXCEPT ![l] = "own"]
        \/ pc' = [pc EXCEPT ![l] = "try"]
    BY <1>1, Zenon DEF LockFast
  <2>2. avail' = FALSE /\ UNCHANGED <<fspin, owner, pend, fixpend, queue, lwpVars, sigVars>>
    BY <1>1 DEF LockFast
  <2>3. CASE pc' = [pc EXCEPT ![l] = "own"]
    BY <2>2, <2>3
  <2>4. CASE pc' = [pc EXCEPT ![l] = "try"]
    BY <2>2, <2>4
  <2> QED
    BY <2>1, <2>3, <2>4
<1>2. CASE LockTry(l)
  <2>1. \/ pc' = [pc EXCEPT ![l] = "got"]
        \/ pc' = [pc EXCEPT ![l] = "lmx"]
    BY <1>2, Zenon DEF LockTry
  <2>2. avail' = FALSE /\ UNCHANGED <<fspin, owner, pend, fixpend, queue, lwpVars, sigVars>>
    BY <1>2 DEF LockTry
  <2>3. CASE pc' = [pc EXCEPT ![l] = "got"]
    BY <2>2, <2>3
  <2>4. CASE pc' = [pc EXCEPT ![l] = "lmx"]
    BY <2>2, <2>4
  <2> QED
    BY <2>1, <2>3, <2>4
<1>3. CASE LockLmutex(l)
  BY <1>3 DEF LockLmutex
<1>4. CASE LockFspin(l)
  BY <1>4 DEF LockFspin
<1>5. CASE LockRaced(l)
  BY <1>5 DEF LockRaced
<1>6. CASE LockUnavail(l)
  BY <1>6 DEF LockUnavail
<1>7. CASE LockEnqueue(l)
  <2>1. PICK i \in 1..(Len(queue) + 1) : queue' = InsertAt(queue, i, l)
    BY <1>7 DEF LockEnqueue, Enqueued, FirstSleep
  <2>2. queue' \in Seq(LWP)
    BY <2>1, InsertAtType
  <2> QED
    BY <1>7, <2>2 DEF LockEnqueue
<1>8. CASE LockSwtch(l)
  BY <1>8 DEF LockSwtch
<1>9. CASE LockResume(l)
  BY <1>9 DEF LockResume
<1>10. CASE LockSettle(l)
  BY <1>10 DEF LockSettle
<1>11. CASE LockFix(l)
  BY <1>11 DEF LockFix, ApplyFix
<1>12. CASE RecordOwner(l)
  BY <1>12 DEF RecordOwner
<1> QED
  BY <1>1, <1>2, <1>3, <1>4, <1>5, <1>6, <1>7, <1>8, <1>9, <1>10, <1>11, <1>12 DEF LockStep

(* So do the steps of sleep_unlock and sleep_dequeue.                      *)
LEMMA UnlockType ==
  ASSUME TypeInv, NEW l \in LWP, UnlockStep(l)
  PROVE  TypeInv'
<1> USE SleepLockAssumption DEF TypeInv, TypeOK, WakeHasChain, Goto, PlainPcs, SigPcs,
        SignalKinds, lockVars, lwpVars, sigVars
<1>1. CASE UnlockRelease(l)
  BY <1>1 DEF UnlockRelease
<1>2. CASE UnlockRecheckSpin(l)
  BY <1>2 DEF UnlockRecheckSpin
<1>3. CASE UnlockRecheckQueue(l)
  BY <1>3 DEF UnlockRecheckQueue
<1>4. CASE UnlockRetake(l)
  BY <1>4 DEF UnlockRetake
<1>5. CASE DequeueLock(l)
  BY <1>5 DEF DequeueLock
<1>6. CASE Dequeue(l)
  <2>1. PICK n \in 0..Len(queue) :
          /\ chain' = [chain EXCEPT ![l] = [i \in 1..n |-> queue[n + 1 - i]]]
          /\ queue' = SubSeq(queue, n + 1, Len(queue))
          /\ pend' = pend + n - fixpend
    BY <1>6 DEF Dequeue, DequeueCounts
  <2>2. queue' \in Seq(LWP) /\ [i \in 1..n |-> queue[n + 1 - i]] \in Seq(LWP)
    BY <2>1, DequeueType
  <2>3. n \in Int /\ chain' \in [LWP -> Seq(LWP)]
    BY <2>1, <2>2, LenProperties
  <2> QED
    BY <1>6, <2>1, <2>2, <2>3, SMTT(60) DEF Dequeue
<1>7. CASE DequeueUnlock(l)
  BY <1>7 DEF DequeueUnlock
<1>8. CASE UnlockWake(l)
  <2>1. chain[l] \in Seq(LWP) /\ chain[l] # <<>>
    BY <1>8 DEF UnlockWake
  <2>2. Tail(chain[l]) \in Seq(LWP) /\ Len(Tail(chain[l])) = Len(chain[l]) - 1
    BY <2>1, HeadTailProperties
  <2>3. Len(chain[l]) # 1 => Tail(chain[l]) # <<>>
    <3>1. Len(chain[l]) \in Nat /\ Len(Tail(chain[l])) \in Nat
      BY <2>1, <2>2, LenProperties
    <3>2. Len(chain[l]) # 1 => Len(Tail(chain[l])) # 0
      BY <2>2, <3>1
    <3> QED
      BY <2>2, <3>2, EmptySeq, Zenon
  <2>4. PICK x : x = Head(chain[l]) /\ stat' = [stat EXCEPT ![x] = "SRUN"]
                 /\ sigwoke' = [sigwoke EXCEPT ![x] = FALSE]
    BY <1>8 DEF UnlockWake
  <2>5. chain' = [chain EXCEPT ![l] = Tail(chain[l])]
    BY <1>8 DEF UnlockWake
  <2>6. \/ pc' = [pc EXCEPT ![l] = "idle"]
        \/ Len(chain[l]) # 1 /\ pc' = [pc EXCEPT ![l] = "wake"]
    BY <1>8, Zenon DEF UnlockWake
  <2>7. chain' \in [LWP -> Seq(LWP)] /\ WakeHasChain'
    <3>1. CASE pc' = [pc EXCEPT ![l] = "idle"]
      BY <2>2, <2>5, <3>1
    <3>2. CASE Len(chain[l]) # 1 /\ pc' = [pc EXCEPT ![l] = "wake"]
      BY <2>2, <2>3, <2>5, <3>2
    <3> QED
      BY <2>6, <3>1, <3>2
  <2>8. stat' \in [LWP -> {"SSLEEP", "SRUN"}]
    BY <2>4
  <2>9. sigwoke' \in [LWP -> BOOLEAN]
    BY <2>4, Zenon
  <2>10. pc' \in [LWP -> PlainPcs \cup SigPcs]
    BY <2>6
  <2>11. UNCHANGED <<lockVars, nsleeps, lmutex, disowned, sig, niblked, post, nsig>>
    BY <1>8 DEF UnlockWake
  <2> QED
    BY <2>7, <2>8, <2>9, <2>10, <2>11
<1> QED
  BY <1>1, <1>2, <1>3, <1>4, <1>5, <1>6, <1>7, <1>8 DEF UnlockStep

(* So do the steps of sleep_lock_sig.                                      *)
LEMMA SigType ==
  ASSUME TypeInv, NEW l \in LWP, SigStep(l)
  PROVE  TypeInv'
<1> USE SleepLockAssumption DEF TypeInv, TypeOK, WakeHasChain, Goto, PlainPcs, SigPcs,
        SignalKinds, lockVars, lwpVars, sigVars
<1>1. CASE SigAgain(l)
  BY <1>1 DEF SigAgain
<1>2. CASE SigLmutex(l)
  BY <1>2 DEF SigLmutex
<1>3. CASE SigIssig(l)
  <2>1. CASE Signalled(l, "s_issig")
    BY <1>3, <2>1, SMTT(60) DEF SigIssig, Signalled, Stopped, NoSignal
  <2>2. CASE Stopped(l, "s_issig")
    BY <1>3, <2>2, SMTT(60) DEF SigIssig, Signalled, Stopped, NoSignal
  <2>3. CASE NoSignal(l, "s_issig")
    BY <1>3, <2>3, SMTT(60) DEF SigIssig, Signalled, Stopped, NoSignal
  <2> QED
    BY <1>3, <2>1, <2>2, <2>3 DEF SigIssig
<1>4. CASE SigFixpend(l)
  BY <1>4 DEF SigFixpend
<1>5. CASE SigAcquire(l)
  <2>1. CASE niblked' = niblked + 1 /\ Goto(l, "s_acquire", "s_take") /\ UNCHANGED lmutex
    <3>1. UNCHANGED <<lockVars, nsleeps, chain, stat, disowned, sigwoke, sig, post, nsig>>
      BY <1>5 DEF SigAcquire
    <3>2. niblked' \in Int
      BY <2>1
    <3> QED
      BY <2>1, <3>1, <3>2
  <2>2. CASE /\ lmutex' = [lmutex EXCEPT ![l] = None]
             /\ Goto(l, "s_acquire", "s_sigtoproc") /\ UNCHANGED niblked
    <3>1. UNCHANGED <<lockVars, nsleeps, chain, stat, disowned, sigwoke, sig, post, nsig>>
      BY <1>5 DEF SigAcquire
    <3> QED
      BY <2>2, <3>1
  <2> QED
    BY <1>5, <2>1, <2>2, Zenon DEF SigAcquire
<1>6. CASE SigToProc(l)
  BY <1>6 DEF SigToProc
<1>7. CASE SigPosted(l)
  BY <1>7 DEF SigPosted
<1>8. CASE SigTake(l)
  <2>1. \/ pc' = [pc EXCEPT ![l] = "s_fix"]
        \/ pc' = [pc EXCEPT ![l] = "s_own"]
    BY <1>8, Zenon DEF SigTake
  <2>2. /\ avail' = FALSE /\ pend' = pend - nsleeps[l]
        /\ nsleeps' = [nsleeps EXCEPT ![l] = 0] /\ lmutex' = [lmutex EXCEPT ![l] = None]
        /\ UNCHANGED <<fspin, owner, fixpend, queue, chain, stat, disowned, sigVars>>
    BY <1>8 DEF SigTake
  <2>3. pend' \in Int
    BY <2>2
  <2>4. CASE pc' = [pc EXCEPT ![l] = "s_fix"]
    BY <2>2, <2>3, <2>4
  <2>5. CASE pc' = [pc EXCEPT ![l] = "s_own"]
    BY <2>2, <2>3, <2>5
  <2> QED
    BY <2>1, <2>4, <2>5
<1>9. CASE SigFix(l)
  BY <1>9 DEF SigFix, ApplyFix
<1>10. CASE SigOwner(l)
  BY <1>10 DEF SigOwner
<1>11. CASE SigUnavail(l)
  BY <1>11 DEF SigUnavail
<1>12. CASE SigFspin(l)
  BY <1>12 DEF SigFspin
<1>13. CASE SigRaced(l)
  BY <1>13 DEF SigRaced
<1>14. CASE SigNotRaced(l)
  BY <1>14 DEF SigNotRaced
<1>15. CASE SigEnqueue(l)
  <2>1. PICK i \in 1..(Len(queue) + 1) : queue' = InsertAt(queue, i, l)
    BY <1>15 DEF SigEnqueue, Enqueued, FirstSleep
  <2>2. queue' \in Seq(LWP)
    BY <2>1, InsertAtType
  <2> QED
    BY <1>15, <2>2 DEF SigEnqueue
<1>16. CASE SigSwtch(l)
  BY <1>16 DEF SigSwtch
<1>17. CASE SigResume(l)
  BY <1>17 DEF SigResume
<1>18. CASE SigWoken(l)
  <2>1. CASE Signalled(l, "s_woken")
    <3>1. \/ pc' = [pc EXCEPT ![l] = "s_fixpend"] /\ nsleeps' = nsleeps
          \/ pc' = [pc EXCEPT ![l] = "idle"] /\ nsleeps' = [nsleeps EXCEPT ![l] = 0]
      BY <2>1, Zenon DEF Signalled
    <3>2. /\ sig' = [sig EXCEPT ![l] = "none"]
          /\ lmutex' \in [LWP -> LWP \cup {None, Setrun}]
          /\ sigwoke' \in [LWP -> BOOLEAN]
          /\ UNCHANGED <<lockVars, chain, stat, disowned, niblked, post, nsig>>
      BY <1>18, <2>1 DEF SigWoken, Signalled, NoSignal
    <3>3. CASE pc' = [pc EXCEPT ![l] = "s_fixpend"] /\ nsleeps' = nsleeps
      BY <3>2, <3>3
    <3>4. CASE pc' = [pc EXCEPT ![l] = "idle"] /\ nsleeps' = [nsleeps EXCEPT ![l] = 0]
      BY <3>2, <3>4
    <3> QED
      BY <3>1, <3>3, <3>4
  <2>2. CASE Stopped(l, "s_woken")
    BY <1>18, <2>2, SMTT(60) DEF SigWoken, Signalled, Stopped, NoSignal
  <2>3. CASE NoSignal(l, "s_woken")
    <3>1. /\ pc' = [pc EXCEPT ![l] = "s_acquire"] /\ nsleeps' = nsleeps
          /\ sig' = [sig EXCEPT ![l] = "none"] /\ lmutex' = [lmutex EXCEPT ![l] = l]
      BY <2>3 DEF NoSignal
    <3>2. /\ sigwoke' \in [LWP -> BOOLEAN]
          /\ UNCHANGED <<lockVars, chain, stat, disowned, niblked, post, nsig>>
      BY <1>18 DEF SigWoken
    <3>3. lmutex' \in [LWP -> LWP \cup {None, Setrun}]
      BY <3>1
    <3> QED
      BY <3>1, <3>2, <3>3
  <2> QED
    BY <1>18, <2>1, <2>2, <2>3 DEF SigWoken
<1>19. CASE SigRelock(l)
  BY <1>19 DEF SigRelock
<1> QED
  BY <1>1, <1>2, <1>3, <1>4, <1>5, <1>6, <1>7, <1>8, <1>9, <1>10, <1>11, <1>12, <1>13, <1>14, <1>15, <1>16, <1>17, <1>18, <1>19 DEF SigStep

(* sleep_unlock's first look and the posting of signals keep the types.    *)
LEMMA OtherType ==
  ASSUME TypeInv,
         \/ \E l \in LWP : UnlockStart(l) \/ Deliver(l)
         \/ \E x \in LWP, kind \in Signals : PostSignal(x, kind)
         \/ PostStep
         \/ UNCHANGED vars
  PROVE  TypeInv'
<1> USE SleepLockAssumption DEF TypeInv, TypeOK, WakeHasChain, Goto, PlainPcs, SigPcs,
        SignalKinds, lockVars, lwpVars, sigVars, Idle
<1>1. ASSUME NEW l \in LWP, UnlockStart(l) PROVE TypeInv'
  <2>1. disowned' \in BOOLEAN
    BY <1>1, Zenon DEF UnlockStart
  <2>2. \/ owner' = SL_BUSY /\ pc' = [pc EXCEPT ![l] = "release"]
        \/ owner' = owner /\ pc' = [pc EXCEPT ![l] = "deq"]
    BY <1>1, Zenon DEF UnlockStart
  <2>3. UNCHANGED <<avail, fspin, pend, fixpend, queue, nsleeps, chain, lmutex, stat, sigVars>>
    BY <1>1 DEF UnlockStart
  <2>4. CASE owner' = SL_BUSY /\ pc' = [pc EXCEPT ![l] = "release"]
    BY <2>1, <2>3, <2>4
  <2>5. CASE owner' = owner /\ pc' = [pc EXCEPT ![l] = "deq"]
    BY <2>1, <2>3, <2>5
  <2> QED
    BY <2>2, <2>4, <2>5
<1>2. ASSUME NEW l \in LWP, Deliver(l) PROVE TypeInv'
  BY <1>2 DEF Deliver
<1>3. ASSUME NEW x \in LWP, NEW kind \in Signals, PostSignal(x, kind) PROVE TypeInv'
  BY <1>3 DEF PostSignal
<1>4. CASE PostLock
  <2>1. post' \in [pc : {"idle", "lock", "fspin", "unsleep"}, lwp : LWP \cup {None},
                   kind : SignalKinds \cup {"none"}]
    BY <1>4 DEF PostLock
  <2>2. sig' \in [LWP -> SignalKinds \cup {"none"}]
    BY <1>4 DEF PostLock
  <2>3. lmutex' \in [LWP -> LWP \cup {None, Setrun}]
    BY <1>4 DEF PostLock
  <2>4. UNCHANGED <<lockVars, nsleeps, chain, stat, disowned, sigwoke, niblked, nsig, pc>>
    BY <1>4 DEF PostLock
  <2> QED
    BY <2>1, <2>2, <2>3, <2>4
<1>5. CASE PostFspin
  BY <1>5 DEF PostFspin
<1>6. CASE Unsleep
  <2>1. queue' \in Seq(LWP)
    BY <1>6, RemoveAtType DEF Unsleep
  <2>2. stat' \in [LWP -> {"SSLEEP", "SRUN"}]
    BY <1>6 DEF Unsleep
  <2>3. sigwoke' \in [LWP -> BOOLEAN]
    BY <1>6, Zenon DEF Unsleep
  <2>4. /\ fspin' = None /\ lmutex' = [lmutex EXCEPT ![post.lwp] = None] /\ post' = Idle
        /\ UNCHANGED <<avail, owner, pend, fixpend, nsleeps, chain, disowned, sig, niblked,
                       nsig, pc>>
    BY <1>6 DEF Unsleep
  <2> QED
    BY <2>1, <2>2, <2>3, <2>4
<1>7. CASE UNCHANGED vars
  BY <1>7 DEF vars
<1> QED
  BY <1>1, <1>2, <1>3, <1>4, <1>5, <1>6, <1>7 DEF PostStep

(* The type invariant: every variable of the lock and of its LWPs keeps    *)
(* its type in every behaviour of sleep.c.                                 *)
THEOREM TypeCorrect == Spec => []TypeOK
<1>1. TypeInv /\ [Next]_vars => TypeInv'
  BY StartType, LockType, UnlockType, SigType, OtherType DEF Next
<1>2. TypeInv => TypeOK
  BY DEF TypeInv
<1> QED
  BY InitType, <1>1, <1>2, PTL DEF Spec

-----------------------------------------------------------------------------
(* Mutual exclusion.                                                       *)

(* Where an LWP has the lock, or has just made it available.               *)
Critical == {"got", "fix", "own", "held", "release", "deq", "dequeue", "s_fix", "s_own",
             "recheckSpin", "recheckQueue", "retake"}

(* SL_BUSY separates the optimistic release from the next owner: one LWP   *)
(* at a time releases, the new owner is not recorded before it is through, *)
(* and whoever serves the queue is not overtaken by a releasing LWP.       *)
ReleaseInv ==
  /\ \A l \in LWP : Releasing(l) => owner = SL_BUSY
  /\ \A a, b \in LWP : Releasing(a) /\ (Releasing(b) \/ pc[b] \in {"deq", "dequeue"}) => a = b
  /\ \A l \in LWP : pc[l] \in {"deq", "dequeue"} => owner \in {l, NOPID, SL_BUSY}
  /\ disowned => owner = NOPID

CoreInv == MutualExclusion /\ NeverLost /\ OwnerRecorded /\ ReleaseInv

(* What the steps that do not concern the holder of the lock have in       *)
(* common.                                                                 *)
PcType == pc \in [LWP -> PlainPcs \cup SigPcs]

(* A step in which no LWP moves and the lock is left alone.                *)
LEMMA FrameStep ==
  ASSUME CoreInv, UNCHANGED <<pc, avail, owner, disowned>>
  PROVE  CoreInv'
BY DEF CoreInv, MutualExclusion, NeverLost, OwnerRecorded, ReleaseInv, Taken, Releasing

(* A step of an LWP that has nothing to do with the lock, before or after. *)
LEMMA NeutralStep ==
  ASSUME PcType, CoreInv, NEW l \in LWP, NEW q,
         pc[l] \notin Critical, q \notin Critical, pc' = [pc EXCEPT ![l] = q],
         UNCHANGED <<avail, owner, disowned>>
  PROVE  CoreInv'
<1> USE DEF PcType, CoreInv, Critical, Taken, Releasing
<1>1. MutualExclusion'
  BY DEF MutualExclusion
<1>2. NeverLost'
  BY DEF NeverLost
<1>3. OwnerRecorded'
  BY DEF OwnerRecorded
<1>4. ReleaseInv'
  BY DEF ReleaseInv
<1> QED
  BY <1>1, <1>2, <1>3, <1>4

(* The exchange of sl_avail that finds the lock free.                      *)
LEMMA TakeStep ==
  ASSUME PcType, CoreInv, NEW l \in LWP, NEW q \in {"got", "own", "s_fix", "s_own"},
         pc[l] \notin Critical, pc' = [pc EXCEPT ![l] = q],
         avail, avail' = FALSE, UNCHANGED <<owner, disowned>>
  PROVE  CoreInv'
<1> USE DEF PcType, CoreInv, Critical, Taken, Releasing
<1>1. MutualExclusion'
  BY DEF MutualExclusion
<1>2. NeverLost'
  BY DEF NeverLost
<1>3. OwnerRecorded'
  BY DEF OwnerRecorded
<1>4. ReleaseInv'
  BY DEF ReleaseInv
<1> QED
  BY <1>1, <1>2, <1>3, <1>4

(* The new holder on its way to recording that it owns the lock.           *)
LEMMA SettleStep ==
  ASSUME PcType, CoreInv, NEW l \in LWP, NEW q \in {"fix", "own", "s_own"},
         pc[l] \in {"got", "fix", "s_fix"}, pc' = [pc EXCEPT ![l] = q],
         UNCHANGED <<avail, owner, disowned>>
  PROVE  CoreInv'
<1> USE DEF PcType, CoreInv, Critical, Taken, Releasing
<1>1. MutualExclusion'
  BY DEF MutualExclusion
<1>2. NeverLost'
  BY DEF NeverLost
<1>3. OwnerRecorded'
  BY DEF OwnerRecorded
<1>4. ReleaseInv'
  BY DEF ReleaseInv
<1> QED
  BY <1>1, <1>2, <1>3, <1>4

(* The new holder records that it owns the lock.                           *)
LEMMA OwnStep ==
  ASSUME PcType, CoreInv, NEW l \in LWP, pc[l] \in {"own", "s_own"},
         owner # SL_BUSY, owner' = l, pc' = [pc EXCEPT ![l] = "held"],
         UNCHANGED <<avail, disowned>>
  PROVE  CoreInv'
<1> USE DEF PcType, CoreInv, Critical, Taken, Releasing
<1>1. MutualExclusion'
  BY DEF MutualExclusion
<1>2. NeverLost'
  BY DEF NeverLost
<1>3. OwnerRecorded'
  BY DEF OwnerRecorded, MutualExclusion
<1>4. ReleaseInv'
  BY SleepLockAssumption DEF ReleaseInv, MutualExclusion
<1> QED
  BY <1>1, <1>2, <1>3, <1>4

(* The steps of sleep_lock keep the lock in one pair of hands.             *)
LEMMA LockCore ==
  ASSUME TypeOK, CoreInv, NEW l \in LWP, LockStep(l)
  PROVE  CoreInv'
<1>0. PcType
  BY DEF PcType, TypeOK
<1> USE DEF Goto, lockVars, lwpVars, sigVars
<1>1. CASE LockFast(l)
  <2>1. CASE avail
    BY <1>0, <1>1, <2>1, TakeStep DEF LockFast, Critical
  <2>2. CASE ~avail
    BY <1>0, <1>1, <2>2, NeutralStep DEF LockFast, Critical, TypeOK
  <2> QED
    BY <2>1, <2>2
<1>2. CASE LockTry(l)
  <2>1. CASE avail
    BY <1>0, <1>2, <2>1, TakeStep DEF LockTry, Critical
  <2>2. CASE ~avail
    BY <1>0, <1>2, <2>2, NeutralStep DEF LockTry, Critical, TypeOK
  <2> QED
    BY <2>1, <2>2
<1>3. CASE LockLmutex(l)
  BY <1>0, <1>3, NeutralStep DEF LockLmutex, Critical
<1>4. CASE LockFspin(l)
  BY <1>0, <1>4, NeutralStep DEF LockFspin, Critical
<1>5. CASE LockRaced(l)
  BY <1>0, <1>5, TakeStep DEF LockRaced, Critical
<1>6. CASE LockUnavail(l)
  BY <1>0, <1>6, NeutralStep DEF LockUnavail, Critical
<1>7. CASE LockEnqueue(l)
  BY <1>0, <1>7, NeutralStep DEF LockEnqueue, Critical
<1>8. CASE LockSwtch(l)
  BY <1>0, <1>8, NeutralStep DEF LockSwtch, Critical
<1>9. CASE LockResume(l)
  BY <1>0, <1>9, NeutralStep DEF LockResume, Critical
<1>10. CASE LockSettle(l)
  <2>1. \/ pc' = [pc EXCEPT ![l] = "fix"]
        \/ pc' = [pc EXCEPT ![l] = "own"]
    BY <1>10, Zenon DEF LockSettle
  <2> QED
    BY <1>0, <1>10, <2>1, SettleStep DEF LockSettle
<1>11. CASE LockFix(l)
  BY <1>0, <1>11, SettleStep DEF LockFix, ApplyFix
<1>12. CASE RecordOwner(l)
  BY <1>0, <1>12, OwnStep DEF RecordOwner
<1> QED
  BY <1>1, <1>2, <1>3, <1>4, <1>5, <1>6, <1>7, <1>8, <1>9, <1>10, <1>11, <1>12 DEF LockStep

(* So do those of sleep_lock_sig.                                          *)
LEMMA SigCore ==
  ASSUME TypeOK, CoreInv, NEW l \in LWP, SigStep(l)
  PROVE  CoreInv'
<1>0. PcType
  BY DEF PcType, TypeOK
<1> USE DEF Goto, lockVars, lwpVars, sigVars
<1>1. CASE SigAgain(l)
  <2>1. \/ pc' = [pc EXCEPT ![l] = "s_lmx"]
        \/ pc' = [pc EXCEPT ![l] = "s_issig"]
    BY <1>1, Zenon DEF SigAgain
  <2>2. pc[l] = "s_again" /\ UNCHANGED <<avail, owner, disowned>>
    BY <1>1 DEF SigAgain
  <2> QED
    BY <1>0, <2>1, <2>2, NeutralStep DEF Critical
<1>2. CASE SigLmutex(l)
  <2>1. \/ pc' = [pc EXCEPT ![l] = "s_acquire"]
        \/ pc' = [pc EXCEPT ![l] = "s_issig"]
    BY <1>2, Zenon DEF SigLmutex
  <2>2. pc[l] = "s_lmx" /\ UNCHANGED <<avail, owner, disowned>>
    BY <1>2 DEF SigLmutex
  <2> QED
    BY <1>0, <2>1, <2>2, NeutralStep DEF Critical
<1>3. CASE SigIssig(l)
  <2>1. \/ pc' = [pc EXCEPT ![l] = "s_fixpend"]
        \/ pc' = [pc EXCEPT ![l] = "idle"]
        \/ pc' = [pc EXCEPT ![l] = "s_again"]
        \/ pc' = [pc EXCEPT ![l] = "s_acquire"]
    BY <1>3, Zenon DEF SigIssig, Signalled, Stopped, NoSignal
  <2>2. pc[l] = "s_issig" /\ UNCHANGED <<avail, owner, disowned>>
    BY <1>3 DEF SigIssig, Signalled, Stopped, NoSignal
  <2> QED
    BY <1>0, <2>1, <2>2, NeutralStep DEF Critical
<1>4. CASE SigFixpend(l)
  BY <1>0, <1>4, NeutralStep DEF SigFixpend, Critical
<1>5. CASE SigAcquire(l)
  <2>1. \/ pc' = [pc EXCEPT ![l] = "s_take"]
        \/ pc' = [pc EXCEPT ![l] = "s_sigtoproc"]
    BY <1>5, Zenon DEF SigAcquire
  <2>2. pc[l] = "s_acquire" /\ UNCHANGED <<avail, owner, disowned>>
    BY <1>5 DEF SigAcquire
  <2> QED
    BY <1>0, <2>1, <2>2, NeutralStep DEF Critical
<1>6. CASE SigToProc(l)
  BY <1>0, <1>6, NeutralStep DEF SigToProc, Critical
<1>7. CASE SigPosted(l)
  BY <1>0, <1>7, NeutralStep DEF SigPosted, Critical
<1>8. CASE SigTake(l)
  <2>1. \/ pc' = [pc EXCEPT ![l] = "s_fix"]
        \/ pc' = [pc EXCEPT ![l] = "s_own"]
    BY <1>8, Zenon DEF SigTake
  <2> QED
    BY <1>0, <1>8, <2>1, TakeStep DEF SigTake, Critical
<1>9. CASE SigFix(l)
  BY <1>0, <1>9, SettleStep DEF SigFix, ApplyFix
<1>10. CASE SigOwner(l)
  BY <1>0, <1>10, OwnStep DEF SigOwner
<1>11. CASE SigUnavail(l)
  BY <1>0, <1>11, NeutralStep DEF SigUnavail, Critical
<1>12. CASE SigFspin(l)
  BY <1>0, <1>12, NeutralStep DEF SigFspin, Critical
<1>13. CASE SigRaced(l)
  BY <1>0, <1>13, NeutralStep DEF SigRaced, Critical
<1>14. CASE SigNotRaced(l)
  BY <1>0, <1>14, NeutralStep DEF SigNotRaced, Critical
<1>15. CASE SigEnqueue(l)
  BY <1>0, <1>15, NeutralStep DEF SigEnqueue, Critical
<1>16. CASE SigSwtch(l)
  BY <1>0, <1>16, NeutralStep DEF SigSwtch, Critical
<1>17. CASE SigResume(l)
  <2>1. \/ pc' = [pc EXCEPT ![l] = "s_woken"]
        \/ pc' = [pc EXCEPT ![l] = "s_relock"]
    BY <1>17, Zenon DEF SigResume
  <2>2. pc[l] = "s_asleep" /\ UNCHANGED <<avail, owner, disowned>>
    BY <1>17 DEF SigResume
  <2> QED
    BY <1>0, <2>1, <2>2, NeutralStep DEF Critical
<1>18. CASE SigWoken(l)
  <2>1. \/ pc' = [pc EXCEPT ![l] = "s_fixpend"]
        \/ pc' = [pc EXCEPT ![l] = "idle"]
        \/ pc' = [pc EXCEPT ![l] = "s_again"]
        \/ pc' = [pc EXCEPT ![l] = "s_acquire"]
    BY <1>18, Zenon DEF SigWoken, Signalled, Stopped, NoSignal
  <2>2. pc[l] = "s_woken" /\ UNCHANGED <<avail, owner, disowned>>
    BY <1>18 DEF SigWoken, Signalled, Stopped, NoSignal
  <2> QED
    BY <1>0, <2>1, <2>2, NeutralStep DEF Critical
<1>19. CASE SigRelock(l)
  BY <1>0, <1>19, NeutralStep DEF SigRelock, Critical
<1> QED
  BY <1>1, <1>2, <1>3, <1>4, <1>5, <1>6, <1>7, <1>8, <1>9, <1>10, <1>11, <1>12, <1>13, <1>14, <1>15, <1>16, <1>17, <1>18, <1>19 DEF SigStep

(* So do those of sleep_unlock: the optimistic release frees the lock and  *)
(* takes it back only while it is free.                                    *)
LEMMA UnlockCore ==
  ASSUME TypeOK, CoreInv, NEW l \in LWP, UnlockStart(l) \/ UnlockStep(l)
  PROVE  CoreInv'
<1>0. PcType
  BY DEF PcType, TypeOK
<1> USE DEF Goto, lockVars, lwpVars, sigVars
<1>1. CASE UnlockStart(l)
  <2> USE <1>0, <1>1 DEF PcType, CoreInv, Critical, Taken, Releasing, UnlockStart
  <2>1. MutualExclusion'
    BY DEF MutualExclusion
  <2>2. NeverLost'
    BY DEF NeverLost
  <2>3. OwnerRecorded'
    <3>1. CASE pc[l] = "held"
      <4>1. owner = l /\ \A m \in LWP : pc[m] = "held" \/ owner = m => m = l
        BY <3>1 DEF OwnerRecorded
      <4>2. CASE owner' = SL_BUSY /\ pc' = [pc EXCEPT ![l] = "release"]
        BY <4>1, <4>2, SleepLockAssumption DEF OwnerRecorded
      <4>3. CASE owner' = owner /\ pc' = [pc EXCEPT ![l] = "deq"]
        BY <4>1, <4>3, SleepLockAssumption DEF OwnerRecorded
      <4> QED
        BY <4>2, <4>3, Zenon
    <3>2. CASE pc[l] # "held" /\ disowned
      BY <3>2, SleepLockAssumption DEF OwnerRecorded, MutualExclusion, ReleaseInv, TypeOK
    <3> QED
      BY <3>1, <3>2
  <2>4. ReleaseInv'
    BY SleepLockAssumption DEF ReleaseInv, MutualExclusion, OwnerRecorded, TypeOK
  <2> QED
    BY <2>1, <2>2, <2>3, <2>4
<1>2. CASE UnlockRelease(l)
  <2> USE <1>0, <1>2 DEF PcType, CoreInv, Critical, Taken, Releasing, UnlockRelease
  <2>1. MutualExclusion'
    BY DEF MutualExclusion
  <2>2. NeverLost'
    BY DEF NeverLost
  <2>3. OwnerRecorded'
    BY SleepLockAssumption DEF OwnerRecorded, MutualExclusion, ReleaseInv, TypeOK
  <2>4. ReleaseInv'
    BY SleepLockAssumption DEF ReleaseInv, MutualExclusion, OwnerRecorded, TypeOK
  <2> QED
    BY <2>1, <2>2, <2>3, <2>4
<1>3. CASE UnlockRecheckSpin(l)
  <2> USE <1>0, <1>3 DEF PcType, CoreInv, Critical, Taken, Releasing, UnlockRecheckSpin
  <2>1. MutualExclusion'
    BY DEF MutualExclusion
  <2>2. NeverLost'
    BY DEF NeverLost
  <2>3. OwnerRecorded'
    BY SleepLockAssumption DEF OwnerRecorded, MutualExclusion, ReleaseInv, TypeOK
  <2>4. ReleaseInv'
    BY SleepLockAssumption DEF ReleaseInv, MutualExclusion, OwnerRecorded, TypeOK
  <2> QED
    BY <2>1, <2>2, <2>3, <2>4
<1>4. CASE UnlockRecheckQueue(l)
  <2> USE <1>0, <1>4 DEF PcType, CoreInv, Critical, Taken, Releasing, UnlockRecheckQueue
  <2>1. MutualExclusion'
    BY DEF MutualExclusion, ReleaseInv
  <2>2. NeverLost'
    BY DEF NeverLost
  <2>3. OwnerRecorded'
    BY SleepLockAssumption DEF OwnerRecorded, MutualExclusion, ReleaseInv, TypeOK
  <2>4. ReleaseInv'
    BY SleepLockAssumption DEF ReleaseInv, MutualExclusion, OwnerRecorded, TypeOK
  <2> QED
    BY <2>1, <2>2, <2>3, <2>4
<1>5. CASE UnlockRetake(l)
  <2> USE <1>0, <1>5 DEF PcType, CoreInv, Critical, Taken, Releasing, UnlockRetake
  <2>1. MutualExclusion'
    BY DEF MutualExclusion, ReleaseInv
  <2>2. NeverLost'
    BY DEF NeverLost
  <2>3. OwnerRecorded'
    BY SleepLockAssumption DEF OwnerRecorded, MutualExclusion, ReleaseInv, TypeOK
  <2>4. ReleaseInv'
    BY SleepLockAssumption DEF ReleaseInv, MutualExclusion, OwnerRecorded, TypeOK
  <2> QED
    BY <2>1, <2>2, <2>3, <2>4
<1>6. CASE DequeueLock(l)
  <2> USE <1>0, <1>6 DEF PcType, CoreInv, Critical, Taken, Releasing, DequeueLock
  <2>1. MutualExclusion'
    BY DEF MutualExclusion
  <2>2. NeverLost'
    BY DEF NeverLost
  <2>3. OwnerRecorded'
    BY SleepLockAssumption DEF OwnerRecorded, MutualExclusion, ReleaseInv, TypeOK
  <2>4. ReleaseInv'
    BY SleepLockAssumption DEF ReleaseInv, MutualExclusion, OwnerRecorded, TypeOK
  <2> QED
    BY <2>1, <2>2, <2>3, <2>4
<1>7. CASE Dequeue(l)
  <2> USE <1>0, <1>7 DEF PcType, CoreInv, Critical, Taken, Releasing, Dequeue
  <2>1. MutualExclusion'
    BY DEF MutualExclusion
  <2>2. NeverLost'
    BY DEF NeverLost
  <2>3. OwnerRecorded'
    BY SleepLockAssumption DEF OwnerRecorded, MutualExclusion, ReleaseInv, TypeOK
  <2>4. ReleaseInv'
    BY SleepLockAssumption DEF ReleaseInv, MutualExclusion, OwnerRecorded, TypeOK
  <2> QED
    BY <2>1, <2>2, <2>3, <2>4
<1>8. CASE DequeueUnlock(l)
  BY <1>0, <1>8, NeutralStep DEF DequeueUnlock, Critical
<1>9. CASE UnlockWake(l)
  <2>1. \/ pc' = [pc EXCEPT ![l] = "idle"]
        \/ pc' = [pc EXCEPT ![l] = "wake"]
    BY <1>9, Zenon DEF UnlockWake
  <2>2. pc[l] = "wake" /\ UNCHANGED <<avail, owner, disowned>>
    BY <1>9 DEF UnlockWake
  <2> QED
    BY <1>0, <2>1, <2>2, NeutralStep DEF Critical
<1> QED
  BY <1>1, <1>2, <1>3, <1>4, <1>5, <1>6, <1>7, <1>8, <1>9 DEF UnlockStep

(* So do the calls that start an acquisition or disown the lock.           *)
LEMMA StartCore ==
  ASSUME TypeOK, CoreInv, NEW l \in LWP, Start(l)
  PROVE  CoreInv'
<1>0. PcType
  BY DEF PcType, TypeOK
<1> USE DEF Goto, lockVars, lwpVars, sigVars
<1>1. CASE LockStart(l)
  <2>1. \/ pc' = [pc EXCEPT ![l] = "fast"]
        \/ pc' = [pc EXCEPT ![l] = "try"]
    BY <1>1, Zenon DEF LockStart
  <2>2. pc[l] = "idle" /\ UNCHANGED <<avail, owner, disowned>>
    BY <1>1 DEF LockStart
  <2> QED
    BY <1>0, <2>1, <2>2, NeutralStep DEF Critical
<1>2. CASE TryLock(l)
  BY <1>0, <1>2, TakeStep DEF TryLock, Critical
<1>3. CASE PrivateLock(l)
  <2> USE <1>0, <1>3 DEF PcType, CoreInv, Critical, Taken, Releasing, PrivateLock
  <2>1. MutualExclusion'
    BY DEF MutualExclusion
  <2>2. NeverLost'
    BY DEF NeverLost
  <2>3. OwnerRecorded'
    BY SleepLockAssumption DEF OwnerRecorded, MutualExclusion, ReleaseInv, TypeOK
  <2>4. ReleaseInv'
    BY SleepLockAssumption DEF ReleaseInv, MutualExclusion, OwnerRecorded, TypeOK
  <2> QED
    BY <2>1, <2>2, <2>3, <2>4
<1>4. CASE SigStart(l)
  BY <1>0, <1>4, NeutralStep DEF SigStart, Critical
<1>5. CASE Disown(l)
  <2> USE <1>0, <1>5 DEF PcType, CoreInv, Critical, Taken, Releasing, Disown
  <2>1. MutualExclusion'
    BY DEF MutualExclusion
  <2>2. NeverLost'
    BY DEF NeverLost
  <2>3. OwnerRecorded'
    BY SleepLockAssumption DEF OwnerRecorded, MutualExclusion, ReleaseInv, TypeOK
  <2>4. ReleaseInv'
    BY SleepLockAssumption DEF ReleaseInv, MutualExclusion, OwnerRecorded, TypeOK
  <2> QED
    BY <2>1, <2>2, <2>3, <2>4
<1> QED
  BY <1>1, <1>2, <1>3, <1>4, <1>5 DEF Start

(* Nothing that the posting of signals does concerns the lock.             *)
LEMMA PostCore ==
  ASSUME CoreInv,
         \/ \E l \in LWP : Deliver(l)
         \/ \E x \in LWP, kind \in Signals : PostSignal(x, kind)
         \/ PostStep
         \/ UNCHANGED vars
  PROVE  CoreInv'
<1>1. UNCHANGED <<pc, avail, owner, disowned>>
  BY DEF Deliver, PostSignal, PostStep, PostLock, PostFspin, Unsleep, vars, lockVars, lwpVars
<1> QED
  BY <1>1, FrameStep

(* sleep_init establishes the invariant.                                   *)
LEMMA InitCore == Init => CoreInv
BY SleepLockAssumption DEF Init, CoreInv, MutualExclusion, NeverLost, OwnerRecorded, ReleaseInv,
   Taken, Releasing

(* CoreInv, the inductive invariant of sleep_lock and sleep_unlock.        *)
THEOREM CoreCorrect == Spec => []CoreInv
<1>1. TypeOK /\ CoreInv /\ [Next]_vars => CoreInv'
  BY StartCore, LockCore, UnlockCore, SigCore, PostCore DEF Next
<1> QED
  BY InitCore, TypeCorrect, <1>1, PTL DEF Spec

(* One LWP at a time has the lock, however acquisitions, optimistic        *)
(* releases, wakeups and signals interleave, for any number of LWPs.       *)
THEOREM MutualExclusionHolds == Spec => []MutualExclusion
<1>1. CoreInv => MutualExclusion
  BY DEF CoreInv
<1> QED
  BY CoreCorrect, <1>1, PTL

(* A lock that is not available is held by somebody who will release it.   *)
THEOREM NeverLostHolds == Spec => []NeverLost
<1>1. CoreInv => NeverLost
  BY DEF CoreInv
<1> QED
  BY CoreCorrect, <1>1, PTL

(* SLEEP_LOCKOWNED is exact for the LWP that holds the lock.               *)
THEOREM OwnerRecordedHolds == Spec => []OwnerRecorded
<1>1. CoreInv => OwnerRecorded
  BY DEF CoreInv
<1> QED
  BY CoreCorrect, <1>1, PTL

-----------------------------------------------------------------------------
(* sleep.c implements LockSpec.                                            *)

HavingPcs == {"got", "fix", "own", "held", "s_fix", "s_own"}

(* The holder of LockSpec, without the CHOOSE.                             *)
HolderIs ==
  /\ disowned => Holder = None
  /\ \A l \in LWP : Having(l) => Holder = l
  /\ ~disowned /\ (\A l \in LWP : ~Having(l)) => Holder = NOPID

(* CoreInv makes the holder of LockSpec unique.                            *)
LEMMA HolderExact == CoreInv => HolderIs
<1> SUFFICES ASSUME CoreInv PROVE HolderIs
  OBVIOUS
<1>1. \A l \in LWP : Having(l) => ~disowned /\ \A m \in LWP : Having(m) => m = l
  BY DEF CoreInv, MutualExclusion, Having, Taken
<1>2. ASSUME NEW l \in LWP, Having(l) PROVE Holder = l
  <2>1. Holder = CHOOSE m \in LWP : Having(m)
    BY <1>1, <1>2, Zenon DEF Holder
  <2>2. Holder \in LWP /\ Having(Holder)
    BY <1>2, <2>1, Zenon
  <2> QED
    BY <1>1, <1>2, <2>2
<1>3. disowned => Holder = None
  BY Zenon DEF Holder
<1>4. ~disowned /\ (\A l \in LWP : ~Having(l)) => Holder = NOPID
  BY Zenon DEF Holder
<1> QED
  BY <1>2, <1>3, <1>4 DEF HolderIs

(* The same about the next state.                                          *)
LEMMA HolderExactNext == CoreInv' => HolderIs'
BY HolderExact, PTL

(* An LWP that has the lock is the only one, and the lock is not disowned. *)
LEMMA HavingAlone ==
  ASSUME CoreInv, NEW l \in LWP, Having(l)
  PROVE  ~disowned /\ ~avail /\ \A m \in LWP : Having(m) => m = l
BY DEF CoreInv, MutualExclusion, Having, Taken

(* A step that moves one LWP, but neither into nor out of the lock.        *)
LEMMA KeepStep ==
  ASSUME PcType, CoreInv, CoreInv', NEW l \in LWP, NEW q,
         pc[l] \in HavingPcs <=> q \in HavingPcs, pc' = [pc EXCEPT ![l] = q],
         UNCHANGED disowned
  PROVE  [Lock!Next]_Holder
<1>1. \A m \in LWP : Having(m)' <=> Having(m)
  BY DEF Having, HavingPcs, PcType
<1>2. HolderIs /\ HolderIs'
  BY HolderExact, HolderExactNext
<1>3. Holder' = Holder
  BY <1>1, <1>2 DEF HolderIs
<1> QED
  BY <1>3

(* A step in which no LWP moves.                                           *)
LEMMA StillStep ==
  ASSUME UNCHANGED <<pc, disowned>>
  PROVE  [Lock!Next]_Holder
<1>1. Holder' = Holder
  BY DEF Holder, Having
<1> QED
  BY <1>1

(* The exchange of sl_avail that finds the lock free is Acquire.           *)
LEMMA GetStep ==
  ASSUME PcType, CoreInv, CoreInv', NEW l \in LWP, NEW q,
         q \in HavingPcs, pc' = [pc EXCEPT ![l] = q], avail,
         UNCHANGED disowned
  PROVE  [Lock!Next]_Holder
<1>1. ~disowned /\ \A m \in LWP : ~Having(m)
  BY DEF CoreInv, MutualExclusion, Having, Taken
<1>2. Having(l)'
  BY DEF Having, HavingPcs, PcType
<1>3. Holder = NOPID /\ Holder' = l
  BY <1>1, <1>2, HolderExact, HolderExactNext DEF HolderIs
<1> QED
  BY <1>3 DEF Lock!Next, Lock!Acquire

(* sleep_unlock of an LWP that has the lock is Release.                    *)
LEMMA GiveStep ==
  ASSUME PcType, CoreInv, CoreInv', NEW l \in LWP, NEW q,
         pc[l] = "held", q \notin HavingPcs, pc' = [pc EXCEPT ![l] = q]
  PROVE  /\ Holder = l
         /\ ~disowned' => Holder' = NOPID
         /\ disowned' => Holder' = None
<1>1. Having(l)
  BY DEF Having
<1>2. \A m \in LWP : Having(m) => m = l
  BY <1>1 DEF CoreInv, MutualExclusion, Having, Taken
<1>3. \A m \in LWP : ~Having(m)'
  BY <1>2 DEF Having, HavingPcs, PcType
<1> QED
  BY <1>1, <1>3, HolderExact, HolderExactNext DEF HolderIs

(* The steps of sleep_lock implement LockSpec.                             *)
LEMMA LockRefines ==
  ASSUME TypeOK, CoreInv, CoreInv', NEW l \in LWP, LockStep(l)
  PROVE  [Lock!Next]_Holder
<1>0. PcType
  BY DEF PcType, TypeOK
<1> USE DEF Goto, lockVars, lwpVars, sigVars
<1>1. CASE LockFast(l)
  <2>1. CASE avail
    BY <1>0, <1>1, <2>1, GetStep DEF LockFast, HavingPcs
  <2>2. CASE ~avail
    BY <1>0, <1>1, <2>2, KeepStep DEF LockFast, HavingPcs
  <2> QED
    BY <2>1, <2>2
<1>2. CASE LockTry(l)
  <2>1. CASE avail
    BY <1>0, <1>2, <2>1, GetStep DEF LockTry, HavingPcs
  <2>2. CASE ~avail
    BY <1>0, <1>2, <2>2, KeepStep DEF LockTry, HavingPcs
  <2> QED
    BY <2>1, <2>2
<1>3. CASE LockLmutex(l)
  BY <1>0, <1>3, KeepStep DEF LockLmutex, HavingPcs
<1>4. CASE LockFspin(l)
  BY <1>0, <1>4, KeepStep DEF LockFspin, HavingPcs
<1>5. CASE LockRaced(l)
  BY <1>0, <1>5, GetStep DEF LockRaced, HavingPcs
<1>6. CASE LockUnavail(l)
  BY <1>0, <1>6, KeepStep DEF LockUnavail, HavingPcs
<1>7. CASE LockEnqueue(l)
  BY <1>0, <1>7, KeepStep DEF LockEnqueue, HavingPcs
<1>8. CASE LockSwtch(l)
  BY <1>0, <1>8, KeepStep DEF LockSwtch, HavingPcs
<1>9. CASE LockResume(l)
  BY <1>0, <1>9, KeepStep DEF LockResume, HavingPcs
<1>10. CASE LockSettle(l)
  <2>1. \/ pc' = [pc EXCEPT ![l] = "fix"]
        \/ pc' = [pc EXCEPT ![l] = "own"]
    BY <1>10, Zenon DEF LockSettle
  <2> QED
    BY <1>0, <1>10, <2>1, KeepStep DEF LockSettle, HavingPcs
<1>11. CASE LockFix(l)
  BY <1>0, <1>11, KeepStep DEF LockFix, HavingPcs, ApplyFix
<1>12. CASE RecordOwner(l)
  BY <1>0, <1>12, KeepStep DEF RecordOwner, HavingPcs
<1> QED
  BY <1>1, <1>2, <1>3, <1>4, <1>5, <1>6, <1>7, <1>8, <1>9, <1>10, <1>11, <1>12 DEF LockStep

(* So do those of sleep_lock_sig.                                          *)
LEMMA SigRefines ==
  ASSUME TypeOK, CoreInv, CoreInv', NEW l \in LWP, SigStep(l)
  PROVE  [Lock!Next]_Holder
<1>0. PcType
  BY DEF PcType, TypeOK
<1> USE DEF Goto, lockVars, lwpVars, sigVars
<1>1. CASE SigAgain(l)
  <2>1. \/ pc' = [pc EXCEPT ![l] = "s_lmx"]
        \/ pc' = [pc EXCEPT ![l] = "s_issig"]
    BY <1>1, Zenon DEF SigAgain
  <2>2. pc[l] = "s_again" /\ UNCHANGED disowned
    BY <1>1 DEF SigAgain
  <2> QED
    BY <1>0, <2>1, <2>2, KeepStep DEF HavingPcs
<1>2. CASE SigLmutex(l)
  <2>1. \/ pc' = [pc EXCEPT ![l] = "s_acquire"]
        \/ pc' = [pc EXCEPT ![l] = "s_issig"]
    BY <1>2, Zenon DEF SigLmutex
  <2>2. pc[l] = "s_lmx" /\ UNCHANGED disowned
    BY <1>2 DEF SigLmutex
  <2> QED
    BY <1>0, <2>1, <2>2, KeepStep DEF HavingPcs
<1>3. CASE SigIssig(l)
  <2>1. \/ pc' = [pc EXCEPT ![l] = "s_fixpend"]
        \/ pc' = [pc EXCEPT ![l] = "idle"]
        \/ pc' = [pc EXCEPT ![l] = "s_again"]
        \/ pc' = [pc EXCEPT ![l] = "s_acquire"]
    BY <1>3, Zenon DEF SigIssig, Signalled, Stopped, NoSignal
  <2>2. pc[l] = "s_issig" /\ UNCHANGED disowned
    BY <1>3 DEF SigIssig, Signalled, Stopped, NoSignal
  <2> QED
    BY <1>0, <2>1, <2>2, KeepStep DEF HavingPcs
<1>4. CASE SigFixpend(l)
  BY <1>0, <1>4, KeepStep DEF SigFixpend, HavingPcs
<1>5. CASE SigAcquire(l)
  <2>1. \/ pc' = [pc EXCEPT ![l] = "s_take"]
        \/ pc' = [pc EXCEPT ![l] = "s_sigtoproc"]
    BY <1>5, Zenon DEF SigAcquire
  <2>2. pc[l] = "s_acquire" /\ UNCHANGED disowned
    BY <1>5 DEF SigAcquire
  <2> QED
    BY <1>0, <2>1, <2>2, KeepStep DEF HavingPcs
<1>6. CASE SigToProc(l)
  BY <1>0, <1>6, KeepStep DEF SigToProc, HavingPcs
<1>7. CASE SigPosted(l)
  BY <1>0, <1>7, KeepStep DEF SigPosted, HavingPcs
<1>8. CASE SigTake(l)
  <2>1. \/ pc' = [pc EXCEPT ![l] = "s_fix"]
        \/ pc' = [pc EXCEPT ![l] = "s_own"]
    BY <1>8, Zenon DEF SigTake
  <2> QED
    BY <1>0, <1>8, <2>1, GetStep DEF SigTake, HavingPcs
<1>9. CASE SigFix(l)
  BY <1>0, <1>9, KeepStep DEF SigFix, HavingPcs, ApplyFix
<1>10. CASE SigOwner(l)
  BY <1>0, <1>10, KeepStep DEF SigOwner, HavingPcs
<1>11. CASE SigUnavail(l)
  BY <1>0, <1>11, KeepStep DEF SigUnavail, HavingPcs
<1>12. CASE SigFspin(l)
  BY <1>0, <1>12, KeepStep DEF SigFspin, HavingPcs
<1>13. CASE SigRaced(l)
  BY <1>0, <1>13, KeepStep DEF SigRaced, HavingPcs
<1>14. CASE SigNotRaced(l)
  BY <1>0, <1>14, KeepStep DEF SigNotRaced, HavingPcs
<1>15. CASE SigEnqueue(l)
  BY <1>0, <1>15, KeepStep DEF SigEnqueue, HavingPcs
<1>16. CASE SigSwtch(l)
  BY <1>0, <1>16, KeepStep DEF SigSwtch, HavingPcs
<1>17. CASE SigResume(l)
  <2>1. \/ pc' = [pc EXCEPT ![l] = "s_woken"]
        \/ pc' = [pc EXCEPT ![l] = "s_relock"]
    BY <1>17, Zenon DEF SigResume
  <2>2. pc[l] = "s_asleep" /\ UNCHANGED disowned
    BY <1>17 DEF SigResume
  <2> QED
    BY <1>0, <2>1, <2>2, KeepStep DEF HavingPcs
<1>18. CASE SigWoken(l)
  <2>1. \/ pc' = [pc EXCEPT ![l] = "s_fixpend"]
        \/ pc' = [pc EXCEPT ![l] = "idle"]
        \/ pc' = [pc EXCEPT ![l] = "s_again"]
        \/ pc' = [pc EXCEPT ![l] = "s_acquire"]
    BY <1>18, Zenon DEF SigWoken, Signalled, Stopped, NoSignal
  <2>2. pc[l] = "s_woken" /\ UNCHANGED disowned
    BY <1>18 DEF SigWoken, Signalled, Stopped, NoSignal
  <2> QED
    BY <1>0, <2>1, <2>2, KeepStep DEF HavingPcs
<1>19. CASE SigRelock(l)
  BY <1>0, <1>19, KeepStep DEF SigRelock, HavingPcs
<1> QED
  BY <1>1, <1>2, <1>3, <1>4, <1>5, <1>6, <1>7, <1>8, <1>9, <1>10, <1>11, <1>12, <1>13, <1>14, <1>15, <1>16, <1>17, <1>18, <1>19 DEF SigStep

(* So do those of sleep_unlock: the lock is given up when it is called.    *)
LEMMA UnlockRefines ==
  ASSUME TypeOK, CoreInv, CoreInv', NEW l \in LWP, UnlockStart(l) \/ UnlockStep(l)
  PROVE  [Lock!Next]_Holder
<1>0. PcType
  BY DEF PcType, TypeOK
<1> USE DEF Goto, lockVars, lwpVars, sigVars
<1>1. CASE UnlockStart(l)
  <2>1. \/ pc' = [pc EXCEPT ![l] = "release"]
        \/ pc' = [pc EXCEPT ![l] = "deq"]
    BY <1>1, Zenon DEF UnlockStart
  <2>2. CASE pc[l] = "held"
    <3>1. ~disowned'
      BY <1>1, <2>2, HavingAlone DEF UnlockStart, Having
    <3>2. Holder = l /\ Holder' = NOPID
      BY <1>0, <2>1, <2>2, <3>1, GiveStep DEF HavingPcs
    <3> QED
      BY <3>2, SleepLockAssumption DEF Lock!Next, Lock!Release
  <2>3. CASE pc[l] = "idle" /\ disowned
    <3>1. ~disowned' /\ \A m \in LWP : ~Having(m)
      BY <1>1, <2>3, HavingAlone DEF UnlockStart
    <3>2. \A m \in LWP : ~Having(m)'
      BY <1>0, <2>1, <3>1 DEF Having, PcType
    <3>3. Holder = None /\ Holder' = NOPID
      BY <2>3, <3>1, <3>2, HolderExact, HolderExactNext DEF HolderIs
    <3> QED
      BY <3>3, SleepLockAssumption DEF Lock!Next, Lock!Release
  <2> QED
    BY <1>1, <2>2, <2>3 DEF UnlockStart
<1>2. CASE UnlockRelease(l)
  BY <1>0, <1>2, KeepStep DEF UnlockRelease, HavingPcs
<1>3. CASE UnlockRecheckSpin(l)
  <2>1. \/ pc' = [pc EXCEPT ![l] = "recheckQueue"]
        \/ pc' = [pc EXCEPT ![l] = "retake"]
    BY <1>3, Zenon DEF UnlockRecheckSpin
  <2>2. pc[l] = "recheckSpin" /\ UNCHANGED disowned
    BY <1>3 DEF UnlockRecheckSpin
  <2> QED
    BY <1>0, <2>1, <2>2, KeepStep DEF HavingPcs
<1>4. CASE UnlockRecheckQueue(l)
  <2>1. \/ pc' = [pc EXCEPT ![l] = "idle"]
        \/ pc' = [pc EXCEPT ![l] = "retake"]
    BY <1>4, Zenon DEF UnlockRecheckQueue
  <2>2. pc[l] = "recheckQueue" /\ UNCHANGED disowned
    BY <1>4 DEF UnlockRecheckQueue
  <2> QED
    BY <1>0, <2>1, <2>2, KeepStep DEF HavingPcs
<1>5. CASE UnlockRetake(l)
  <2>1. \/ pc' = [pc EXCEPT ![l] = "idle"]
        \/ pc' = [pc EXCEPT ![l] = "deq"]
    BY <1>5, Zenon DEF UnlockRetake
  <2>2. pc[l] = "retake" /\ UNCHANGED disowned
    BY <1>5 DEF UnlockRetake
  <2> QED
    BY <1>0, <2>1, <2>2, KeepStep DEF HavingPcs
<1>6. CASE DequeueLock(l)
  BY <1>0, <1>6, KeepStep DEF DequeueLock, HavingPcs
<1>7. CASE Dequeue(l)
  BY <1>0, <1>7, KeepStep DEF Dequeue, HavingPcs
<1>8. CASE DequeueUnlock(l)
  BY <1>0, <1>8, KeepStep DEF DequeueUnlock, HavingPcs
<1>9. CASE UnlockWake(l)
  <2>1. \/ pc' = [pc EXCEPT ![l] = "idle"]
        \/ pc' = [pc EXCEPT ![l] = "wake"]
    BY <1>9, Zenon DEF UnlockWake
  <2>2. pc[l] = "wake" /\ UNCHANGED disowned
    BY <1>9 DEF UnlockWake
  <2> QED
    BY <1>0, <2>1, <2>2, KeepStep DEF HavingPcs
<1> QED
  BY <1>1, <1>2, <1>3, <1>4, <1>5, <1>6, <1>7, <1>8, <1>9 DEF UnlockStep

(* So do the calls that start an acquisition or disown the lock.           *)
LEMMA StartRefines ==
  ASSUME TypeOK, CoreInv, CoreInv', NEW l \in LWP, Start(l)
  PROVE  [Lock!Next]_Holder
<1>0. PcType
  BY DEF PcType, TypeOK
<1> USE DEF Goto, lockVars, lwpVars, sigVars
<1>1. CASE LockStart(l)
  <2>1. \/ pc' = [pc EXCEPT ![l] = "fast"]
        \/ pc' = [pc EXCEPT ![l] = "try"]
    BY <1>1, Zenon DEF LockStart
  <2>2. pc[l] = "idle" /\ UNCHANGED disowned
    BY <1>1 DEF LockStart
  <2> QED
    BY <1>0, <2>1, <2>2, KeepStep DEF HavingPcs
<1>2. CASE TryLock(l)
  BY <1>0, <1>2, GetStep DEF TryLock, HavingPcs
<1>3. CASE PrivateLock(l)
  <2>1. ~disowned /\ disowned' /\ \A m \in LWP : ~Having(m)
    BY <1>3 DEF PrivateLock, Having, CoreInv, MutualExclusion
  <2>2. Holder = NOPID /\ Holder' = None
    BY <2>1, HolderExact, HolderExactNext DEF HolderIs
  <2> QED
    BY <2>2, SleepLockAssumption DEF Lock!Next, Lock!GiveUp
<1>4. CASE SigStart(l)
  BY <1>0, <1>4, KeepStep DEF SigStart, HavingPcs
<1>5. CASE Disown(l)
  <2>1. Holder = l /\ Holder' = None
    BY <1>0, <1>5, GiveStep DEF Disown, HavingPcs
  <2> QED
    BY <2>1, SleepLockAssumption DEF Lock!Next, Lock!GiveUp
<1> QED
  BY <1>1, <1>2, <1>3, <1>4, <1>5 DEF Start

(* Every behaviour of sleep.c is one of LockSpec: the steps that take,     *)
(* disown and release the lock are its actions, all others change nothing. *)
THEOREM Refinement == Spec => ImplementsLock
<1>1. Init => Lock!Init
  <2> SUFFICES ASSUME Init PROVE Holder = NOPID
    BY DEF Lock!Init
  <2>1. ~disowned /\ \A l \in LWP : ~Having(l)
    BY DEF Init, Having
  <2> QED
    BY <2>1, InitCore, HolderExact DEF HolderIs
<1>2. TypeOK /\ CoreInv /\ CoreInv' /\ [Next]_vars => [Lock!Next]_Holder
  <2> SUFFICES ASSUME TypeOK, CoreInv, CoreInv', [Next]_vars
               PROVE  [Lock!Next]_Holder
    OBVIOUS
  <2>1. \/ \E l \in LWP : Start(l) \/ UnlockStart(l) \/ LockStep(l) \/ UnlockStep(l) \/ SigStep(l)
        \/ UNCHANGED <<pc, disowned>>
    BY DEF Next, Deliver, PostSignal, PostStep, PostLock, PostFspin, Unsleep, vars, lwpVars
  <2> QED
    BY <2>1, StartRefines, LockRefines, UnlockRefines, SigRefines, StillStep
<1> QED
  BY <1>1, <1>2, TypeCorrect, CoreCorrect, PTL DEF Spec, ImplementsLock, Lock!Spec

(* The hand-over of ownership goes through NOPID: a new owner is recorded  *)
(* only when no owner is.                                                  *)
THEOREM OwnerHandoverHolds == Spec => OwnerHandover
<1>1. TypeOK /\ CoreInv /\ [Next]_vars
        => [owner' \in LWP /\ owner' # owner => owner = NOPID]_vars
  <2> SUFFICES ASSUME TypeOK, CoreInv, Next, owner' \in LWP, owner' # owner
               PROVE  owner = NOPID
    BY DEF vars, lockVars
  <2>1. PICK l \in LWP : RecordOwner(l) \/ SigOwner(l)
    BY SleepLockAssumption
       DEF Next, Start, LockStart, TryLock, PrivateLock, SigStart, Disown, UnlockStart, LockStep,
           LockFast, LockTry, LockLmutex, LockFspin, LockRaced, LockUnavail, LockEnqueue,
           LockSwtch, LockResume, LockSettle, LockFix, ApplyFix, UnlockStep, UnlockRelease,
           UnlockRecheckSpin, UnlockRecheckQueue, UnlockRetake, DequeueLock, Dequeue,
           DequeueUnlock, UnlockWake, SigStep, SigAgain, SigLmutex, SigIssig, SigFixpend,
           SigAcquire, SigToProc, SigPosted, SigTake, SigFix, SigUnavail, SigFspin, SigRaced,
           SigNotRaced, SigEnqueue, SigSwtch, SigResume, SigWoken, SigRelock, Deliver,
           PostSignal, PostStep, PostLock, PostFspin, Unsleep, lockVars
  <2>2. pc[l] \in {"own", "s_own"} /\ owner # SL_BUSY
    BY <2>1 DEF RecordOwner, SigOwner, Goto
  <2>3. owner \notin LWP
    <3> SUFFICES ASSUME owner \in LWP PROVE FALSE
      OBVIOUS
    <3>1. pc[owner] \in {"held", "deq", "dequeue"}
      BY DEF CoreInv, OwnerRecorded
    <3>2. owner = l
      BY <2>2, <3>1 DEF CoreInv, MutualExclusion, Taken
    <3> QED
      BY <2>2, <3>1, <3>2
  <2> QED
    BY <2>2, <2>3 DEF TypeOK
<1> QED
  BY <1>1, TypeCorrect, CoreCorrect, PTL DEF Spec, OwnerHandover

-----------------------------------------------------------------------------
(***************************************************************************)
(* Sleepers are woken.                                                     *)
(***************************************************************************)

(* The LWPs of sl_list and of a wakeup chain.                              *)
Distinct(s)    == \A i, j \in 1..Len(s) : s[i] = s[j] => i = j
Disjoint(s, t) == \A l \in InSeq(s) : l \notin InSeq(t)
Listed(l)      == l \in InSeq(queue) \/ \E u \in LWP : l \in InSeq(chain[u])

(* sl_fspin is held by the LWP inside a section it protects, or by setrun. *)
InSection(l) == pc[l] \in {"chk", "ins", "dequeue", "deqdone", "s_chk", "s_ins"}

SectionInv ==
  /\ \A l \in LWP : InSection(l) => fspin = l
  /\ post.pc = "unsleep" => fspin = Setrun

(* The LWP that a signal finds asleep stays so while its l_mutex is held.  *)
PostInv ==
  /\ post.pc # "idle" => post.lwp \in LWP
  /\ post.pc \in {"fspin", "unsleep"} =>
       /\ lmutex[post.lwp] = Setrun
       /\ stat[post.lwp] = "SSLEEP" /\ pc[post.lwp] = "s_asleep"

(* An LWP is on the queue or on one chain, once, and then it sleeps or is  *)
(* about to.                                                               *)
Dozing(l) == pc[l] \in {"sleep", "s_sleep"} \/ stat[l] = "SSLEEP"

ListInv ==
  /\ Distinct(queue)
  /\ \A u \in LWP : Distinct(chain[u]) /\ Disjoint(chain[u], queue)
  /\ \A u, v \in LWP : u # v => Disjoint(chain[u], chain[v])
  /\ \A l \in LWP : stat[l] = "SSLEEP" => pc[l] \in {"asleep", "s_asleep"}
  /\ \A l \in LWP : Listed(l) => Dozing(l)
  /\ \A u \in LWP : chain[u] # <<>> => pc[u] \in {"deqdone", "wake"}

BaseInv == TypeInv /\ CoreInv /\ SectionInv /\ PostInv /\ ListInv

(* l_mutex is held from before sl_fspin is taken until the LWP is off its  *)
(* stack, if it is held at acquire.                                        *)
Locked(l) == pc[l] \in {"fsp", "chk", "ins", "sleep", "s_take", "s_fsp", "s_chk", "s_ins", "s_sleep"}

LmutexInv == \A l \in LWP : Locked(l) => lmutex[l] = l

SleeperInv == \A l \in LWP : Dozing(l) => Listed(l)

(* An LWP that found sl_avail taken and will queue up.                     *)
Queuing(l) == pc[l] \in {"ins", "s_ins"}

(* When it queues up behind a release, somebody is bound to look; and      *)
(* nobody does behind the back of one that has looked at sl_fspin.         *)
LookoutInv ==
  /\ avail /\ (queue # <<>> \/ \E l \in LWP : Queuing(l)) => \E l \in LWP : WillLook(l)
  /\ \A l, m \in LWP : pc[l] = "recheckQueue" /\ avail => ~Queuing(m)

WakeInv == LmutexInv /\ SleeperInv /\ LookoutInv

(* SIGWAITING is not sent.                                                 *)
NoSigwaiting == \A l \in LWP : pc[l] # "s_sigtoproc"

(* The steps of an LWP.                                                    *)
Acts(l) == Start(l) \/ UnlockStart(l) \/ LockStep(l) \/ UnlockStep(l) \/ SigStep(l) \/ Deliver(l)

(* What a step of an LWP may do to the spin locks, to the signal that is   *)
(* being posted, and to a sleeper whose l_mutex somebody holds.            *)
LEMMA ActFrame ==
  ASSUME TypeInv, NEW l \in LWP, Acts(l)
  PROVE  /\ \A m \in LWP : l # m => pc'[m] = pc[m] /\ lmutex'[m] = lmutex[m]
         /\ \/ ~InSection(l)' \/ (InSection(l) /\ fspin' = fspin)
            \/ (fspin = None /\ fspin' = l)
         /\ \/ fspin' = fspin \/ (fspin = None /\ fspin' = l)
            \/ (InSection(l) /\ fspin' = None)
         /\ post' = post \/ (post'.pc = "lock" /\ post'.lwp \in LWP)
         /\ pc[l] = "s_asleep" => stat[l] = "SRUN"
         /\ \A m \in LWP : stat[m] = "SSLEEP" /\ lmutex[m] # None => stat'[m] = "SSLEEP"
         /\ Locked(l)' => \/ lmutex'[l] = l
                          \/ lmutex'[l] = lmutex[l] /\ (Locked(l) \/ pc[l] = "s_acquire")
<1>0. /\ pc \in [LWP -> PlainPcs \cup SigPcs] /\ lmutex \in [LWP -> LWP \cup {None, Setrun}]
      /\ stat \in [LWP -> {"SSLEEP", "SRUN"}]
  BY DEF TypeInv, TypeOK
<1>. USE <1>0 DEF Goto, lockVars, lwpVars, sigVars, InSection, Locked
<1>1. CASE LockStart(l) \/ TryLock(l) \/ SigStart(l) \/ Disown(l)
  BY <1>1 DEF LockStart, TryLock, SigStart, Disown
<1>2. CASE PrivateLock(l)
  BY <1>2 DEF PrivateLock
<1>3. CASE UnlockStart(l) \/ Deliver(l)
  BY <1>3 DEF UnlockStart, Deliver
<1>4. CASE LockFast(l) \/ LockTry(l) \/ LockLmutex(l) \/ LockFspin(l)
  BY <1>4 DEF LockFast, LockTry, LockLmutex, LockFspin
<1>5. CASE LockRaced(l) \/ LockUnavail(l) \/ LockResume(l)
  BY <1>5 DEF LockRaced, LockUnavail, LockResume
<1>6. CASE LockSettle(l) \/ LockFix(l) \/ RecordOwner(l)
  BY <1>6 DEF LockSettle, LockFix, RecordOwner, ApplyFix
<1>7. CASE UnlockRelease(l) \/ UnlockRecheckSpin(l) \/ UnlockRecheckQueue(l) \/ UnlockRetake(l)
  BY <1>7 DEF UnlockRelease, UnlockRecheckSpin, UnlockRecheckQueue, UnlockRetake
<1>8. CASE DequeueLock(l) \/ DequeueUnlock(l)
  BY <1>8 DEF DequeueLock, DequeueUnlock
<1>9. CASE SigAgain(l) \/ SigLmutex(l) \/ SigFixpend(l)
  BY <1>9 DEF SigAgain, SigLmutex, SigFixpend
<1>10. CASE SigIssig(l)
  BY <1>10 DEF SigIssig, Signalled, Stopped, NoSignal
<1>11. CASE SigWoken(l)
  BY <1>11 DEF SigWoken, Signalled, Stopped, NoSignal
<1>12. CASE SigAcquire(l) \/ SigToProc(l) \/ SigPosted(l)
  BY <1>12 DEF SigAcquire, SigToProc, SigPosted
<1>13. CASE SigTake(l) \/ SigFix(l) \/ SigOwner(l) \/ SigUnavail(l)
  BY <1>13 DEF SigTake, SigFix, SigOwner, SigUnavail, ApplyFix
<1>14. CASE SigFspin(l) \/ SigRaced(l) \/ SigNotRaced(l)
  BY <1>14 DEF SigFspin, SigRaced, SigNotRaced
<1>15. CASE SigResume(l) \/ SigRelock(l)
  BY <1>15 DEF SigResume, SigRelock
<1>16. CASE LockSwtch(l) \/ SigSwtch(l)
  BY <1>16 DEF LockSwtch, SigSwtch
<1>17. CASE LockEnqueue(l) \/ SigEnqueue(l)
  BY <1>17 DEF LockEnqueue, SigEnqueue
<1>18. CASE Dequeue(l)
  <2>1. /\ pc[l] = "dequeue" /\ pc' = [pc EXCEPT ![l] = "deqdone"]
        /\ UNCHANGED <<fspin, lmutex, stat, sigVars>>
    BY <1>18, Zenon DEF Dequeue
  <2>. QED
    BY <2>1
<1>19. CASE UnlockWake(l)
  <2>1. PICK x : /\ x = Head(chain[l]) /\ lmutex[x] = None
                 /\ stat' = [stat EXCEPT ![x] = "SRUN"]
    BY <1>19 DEF UnlockWake
  <2>2. /\ pc[l] = "wake" /\ pc'[l] \in {"idle", "wake"} /\ pc' = [pc EXCEPT ![l] = pc'[l]]
        /\ UNCHANGED <<fspin, lmutex, post>>
    BY <1>19 DEF UnlockWake
  <2>. QED
    BY <2>1, <2>2
<1>. QED
  BY <1>1, <1>2, <1>3, <1>4, <1>5, <1>6, <1>7, <1>8, <1>9, <1>10, <1>11, <1>12, <1>13, <1>14, <1>15, <1>16, <1>17, <1>18, <1>19
     DEF Acts, Start, LockStep, UnlockStep, SigStep

(* A step of an LWP leaves sl_fspin to whoever is in its section.          *)
LEMMA ActSection ==
  ASSUME TypeInv, SectionInv, NEW l \in LWP, Acts(l)
  PROVE  SectionInv'
<1>1. \A m \in LWP : l # m => (InSection(m)' <=> InSection(m))
  BY ActFrame DEF InSection
<1>2. None \notin LWP /\ Setrun \notin LWP /\ None # Setrun
  BY SleepLockAssumption
<1>3. ASSUME NEW m \in LWP, InSection(m)' PROVE fspin' = m
  <2>1. CASE m = l
    BY <1>3, <2>1, ActFrame DEF SectionInv
  <2>2. CASE m # l
    <3>1. fspin = m
      BY <1>1, <1>3, <2>2 DEF SectionInv
    <3>. QED
      BY <1>2, <2>2, <3>1, ActFrame DEF SectionInv
  <2>. QED
    BY <2>1, <2>2
<1>4. ASSUME post'.pc = "unsleep" PROVE fspin' = Setrun
  <2>1. post' = post
    BY <1>4, ActFrame
  <2>2. fspin = Setrun
    BY <1>4, <2>1 DEF SectionInv
  <2>. QED
    BY <1>2, <2>2, ActFrame DEF SectionInv
<1>. QED
  BY <1>3, <1>4 DEF SectionInv

(* The LWP a signal is posted to does not run, and nobody wakes it.        *)
LEMMA ActPost ==
  ASSUME TypeInv, PostInv, NEW l \in LWP, Acts(l)
  PROVE  PostInv'
<1>1. CASE post' = post
  <2>1. SUFFICES ASSUME post.pc \in {"fspin", "unsleep"}
                 PROVE  /\ lmutex'[post.lwp] = Setrun
                        /\ stat'[post.lwp] = "SSLEEP" /\ pc'[post.lwp] = "s_asleep"
    BY <1>1 DEF PostInv
  <2>2. PICK x \in LWP : x = post.lwp
    BY <2>1 DEF PostInv
  <2>3. lmutex[x] = Setrun /\ stat[x] = "SSLEEP" /\ pc[x] = "s_asleep"
    BY <2>1, <2>2 DEF PostInv
  <2>4. l # x /\ Setrun # None
    BY <2>3, ActFrame, SleepLockAssumption
  <2>5. lmutex'[x] = Setrun /\ stat'[x] = "SSLEEP" /\ pc'[x] = "s_asleep"
    BY <2>3, <2>4, ActFrame
  <2>. QED
    BY <2>2, <2>5
<1>2. CASE post'.pc = "lock" /\ post'.lwp \in LWP
  BY <1>2 DEF PostInv
<1>. QED
  BY <1>1, <1>2, ActFrame

(* The posting of a signal keeps both.                                     *)
LEMMA PostPost ==
  ASSUME TypeInv, SectionInv, PostInv,
         (\E x \in LWP, kind \in Signals : PostSignal(x, kind)) \/ PostStep
  PROVE  SectionInv' /\ PostInv'
<1>0. /\ None \notin LWP /\ Setrun \notin LWP /\ None # Setrun
      /\ lmutex \in [LWP -> LWP \cup {None, Setrun}] /\ stat \in [LWP -> {"SSLEEP", "SRUN"}]
      /\ post \in [pc : {"idle", "lock", "fspin", "unsleep"}, lwp : LWP \cup {None},
                   kind : SignalKinds \cup {"none"}]
  BY SleepLockAssumption DEF TypeInv, TypeOK
<1>1. ASSUME NEW x \in LWP, NEW kind \in Signals, PostSignal(x, kind)
      PROVE  SectionInv' /\ PostInv'
  <2>1. post' = [pc |-> "lock", lwp |-> x, kind |-> kind] /\ UNCHANGED <<fspin, pc>>
    BY <1>1 DEF PostSignal, lockVars
  <2>. QED
    BY <2>1 DEF SectionInv, PostInv, InSection
<1>2. CASE PostLock
  <2>1. PICK x : x = post.lwp
    OBVIOUS
  <2>2. /\ x \in LWP /\ UNCHANGED <<fspin, pc, stat>>
        /\ lmutex' = [lmutex EXCEPT ![x] = IF stat[x] = "SSLEEP" /\ pc[x] = "s_asleep"
                                             THEN Setrun ELSE None]
        /\ post' = IF stat[x] = "SSLEEP" /\ pc[x] = "s_asleep"
                     THEN [post EXCEPT !.pc = "fspin"] ELSE Idle
    BY <1>2, <2>1 DEF PostLock, PostInv, lockVars
  <2>3. CASE stat[x] = "SSLEEP" /\ pc[x] = "s_asleep"
    <3>1. post'.pc = "fspin" /\ post'.lwp = x /\ lmutex'[x] = Setrun
      BY <1>0, <2>1, <2>2, <2>3
    <3>. QED
      BY <2>2, <2>3, <3>1 DEF SectionInv, PostInv, InSection
  <2>4. CASE ~(stat[x] = "SSLEEP" /\ pc[x] = "s_asleep")
    <3>1. post'.pc = "idle"
      BY <2>2, <2>4 DEF Idle
    <3>. QED
      BY <2>2, <3>1 DEF SectionInv, PostInv, InSection
  <2>. QED
    BY <2>3, <2>4
<1>3. CASE PostFspin
  <2>1. /\ post.pc = "fspin" /\ fspin = None /\ fspin' = Setrun
        /\ post'.pc = "unsleep" /\ post'.lwp = post.lwp /\ UNCHANGED <<pc, stat, lmutex>>
    BY <1>0, <1>3 DEF PostFspin, lwpVars
  <2>2. \A m \in LWP : ~InSection(m)
    BY <1>0, <2>1 DEF SectionInv
  <2>. QED
    BY <2>1, <2>2 DEF SectionInv, PostInv, InSection
<1>4. CASE Unsleep
  <2>1. post.pc = "unsleep" /\ post' = Idle /\ fspin' = None /\ UNCHANGED pc
    BY <1>4 DEF Unsleep
  <2>2. \A m \in LWP : ~InSection(m)
    BY <1>0, <2>1 DEF SectionInv
  <2>. QED
    BY <2>1, <2>2 DEF SectionInv, PostInv, InSection, Idle
<1>. QED
  BY <1>1, <1>2, <1>3, <1>4 DEF PostStep

-----------------------------------------------------------------------------
(* Sequences without repetition.                                           *)

(* An empty sequence has no members, and only an empty one.                *)
LEMMA EmptyInSeq ==
  ASSUME NEW s \in Seq(LWP)
  PROVE  /\ s = <<>> <=> Len(s) = 0
         /\ s = <<>> <=> InSeq(s) = {}
         /\ InSeq(s) \subseteq LWP /\ InSeq(<<>>) = {} /\ Distinct(<<>>) /\ <<>> \in Seq(LWP)
<1>1. Len(s) \in Nat /\ (s = <<>> <=> Len(s) = 0) /\ Len(<<>>) = 0 /\ <<>> \in Seq(LWP)
  BY EmptySeq, LenProperties
<1>2. Len(s) # 0 => s[1] \in InSeq(s)
  BY <1>1 DEF InSeq
<1>3. \A i \in 1..Len(s) : s[i] \in LWP
  BY ElementOfSeq
<1>4. InSeq(<<>>) = {} /\ Distinct(<<>>)
  BY <1>1 DEF InSeq, Distinct
<1>5. InSeq(s) \subseteq LWP
  BY <1>3 DEF InSeq
<1>. QED
  BY <1>1, <1>2, <1>4, <1>5

(* A queue with an LWP inserted before its place i.                        *)
LEMMA Inserted ==
  ASSUME NEW s \in Seq(LWP), NEW l \in LWP, NEW i \in 1..(Len(s) + 1)
  PROVE  /\ InsertAt(s, i, l) \in Seq(LWP)
         /\ InSeq(InsertAt(s, i, l)) = InSeq(s) \cup {l}
         /\ Distinct(s) /\ l \notin InSeq(s) => Distinct(InsertAt(s, i, l))
<1>0. Len(s) \in Nat /\ i \in Nat /\ i =< Len(s) + 1
  BY LenProperties
<1>. DEFINE t == InsertAt(s, i, l)
<1>1. t \in Seq(LWP)
  BY InsertAtType
<1>2. /\ DOMAIN t = 1..(Len(s) + 1)
      /\ \A j \in 1..(Len(s) + 1) : t[j] = IF j < i THEN s[j] ELSE IF j = i THEN l ELSE s[j - 1]
  BY DEF InsertAt
<1>. HIDE DEF t
<1>3. Len(t) = Len(s) + 1
  BY <1>0, <1>1, <1>2, LenProperties
<1>4. \A j \in 1..Len(t) : \/ j \in 1..Len(s) /\ j < i /\ t[j] = s[j]
                           \/ j = i /\ t[j] = l
                           \/ j - 1 \in 1..Len(s) /\ j > i /\ t[j] = s[j - 1]
  BY <1>0, <1>2, <1>3
<1>5. InSeq(t) = InSeq(s) \cup {l}
  <2>1. \A x \in InSeq(t) : x \in InSeq(s) \cup {l}
    BY <1>4 DEF InSeq
  <2>2. l \in InSeq(t)
    <3>1. i \in 1..Len(t) /\ t[i] = l
      BY <1>0, <1>2, <1>3
    <3>. QED
      BY <3>1 DEF InSeq
  <2>3. ASSUME NEW j \in 1..Len(s) PROVE s[j] \in InSeq(t)
    <3>1. CASE j < i
      <4>1. j \in 1..Len(t) /\ t[j] = s[j]
        BY <1>0, <1>2, <1>3, <3>1
      <4>. QED
        BY <4>1 DEF InSeq
    <3>2. CASE ~(j < i)
      <4>1. j + 1 \in 1..Len(t) /\ ~(j + 1 < i) /\ j + 1 # i /\ (j + 1) - 1 = j
        BY <1>0, <1>3, <3>2
      <4>2. t[j + 1] = s[j]
        BY <1>2, <1>3, <4>1
      <4>. QED
        BY <4>1, <4>2 DEF InSeq
    <3>. QED
      BY <3>1, <3>2
  <2>. QED
    BY <2>1, <2>2, <2>3 DEF InSeq
<1>6. ASSUME Distinct(s), l \notin InSeq(s)
      PROVE  Distinct(t)
  <2>1. \A j \in 1..Len(s) : s[j] # l
    BY <1>6 DEF InSeq
  <2>2. \A j, k \in 1..Len(s) : s[j] = s[k] => j = k
    BY <1>6 DEF Distinct
  <2>3. ASSUME NEW j \in 1..Len(t), NEW k \in 1..Len(t), t[j] = t[k]
        PROVE  j = k
    BY <1>0, <1>3, <1>4, <2>1, <2>2, <2>3
  <2>. QED
    BY <2>3 DEF Distinct
<1>. QED
  BY <1>1, <1>5, <1>6 DEF t

(* A queue without the LWP at its place i (slpdeque).                      *)
LEMMA Removed ==
  ASSUME NEW s \in Seq(LWP), Distinct(s), NEW i \in 1..Len(s)
  PROVE  /\ RemoveAt(s, i) \in Seq(LWP) /\ Distinct(RemoveAt(s, i))
         /\ InSeq(RemoveAt(s, i)) = InSeq(s) \ {s[i]}
<1>0. /\ Len(s) \in Nat /\ Len(s) - 1 \in Nat /\ i \in Nat /\ i =< Len(s) /\ i >= 1
      /\ \A j, k \in 1..Len(s) : s[j] = s[k] => j = k
  BY LenProperties DEF Distinct
<1>. DEFINE t == RemoveAt(s, i)
<1>1. t \in Seq(LWP)
  BY RemoveAtType
<1>2. /\ DOMAIN t = 1..(Len(s) - 1)
      /\ \A j \in 1..(Len(s) - 1) : t[j] = IF j < i THEN s[j] ELSE s[j + 1]
  BY DEF RemoveAt
<1>. HIDE DEF t
<1>3. Len(t) = Len(s) - 1
  BY <1>0, <1>1, <1>2, LenProperties
<1>4. \A j \in 1..Len(t) : \/ j \in 1..Len(s) /\ j < i /\ t[j] = s[j]
                           \/ j + 1 \in 1..Len(s) /\ j + 1 > i /\ t[j] = s[j + 1]
  BY <1>0, <1>2, <1>3
<1>5. ASSUME NEW j \in 1..Len(t) PROVE t[j] \in InSeq(s) \ {s[i]}
  <2>1. PICK k \in 1..Len(s) : k # i /\ t[j] = s[k]
    BY <1>0, <1>4
  <2>. QED
    BY <1>0, <2>1 DEF InSeq
<1>6. ASSUME NEW k \in 1..Len(s), s[k] # s[i] PROVE s[k] \in InSeq(t)
  <2>1. CASE k < i
    <3>1. k \in 1..Len(t) /\ t[k] = s[k]
      BY <1>0, <1>2, <1>3, <2>1
    <3>. QED
      BY <3>1 DEF InSeq
  <2>2. CASE ~(k < i)
    <3>1. k - 1 \in 1..Len(t) /\ ~(k - 1 < i) /\ (k - 1) + 1 = k
      BY <1>0, <1>3, <1>6, <2>2
    <3>2. t[k - 1] = s[k]
      BY <1>2, <1>3, <3>1
    <3>. QED
      BY <3>1, <3>2 DEF InSeq
  <2>. QED
    BY <2>1, <2>2
<1>7. InSeq(t) = InSeq(s) \ {s[i]}
  BY <1>5, <1>6 DEF InSeq
<1>8. Distinct(t)
  <2>1. ASSUME NEW j \in 1..Len(t), NEW k \in 1..Len(t), t[j] = t[k]
        PROVE  j = k
    BY <1>0, <1>3, <1>4, <2>1
  <2>. QED
    BY <2>1 DEF Distinct
<1>. QED
  BY <1>1, <1>7, <1>8 DEF t

(* What is left of a sequence after its first n.                           *)
LEMMA Rest ==
  ASSUME NEW s \in Seq(LWP), NEW n \in 0..Len(s)
  PROVE  LET t == SubSeq(s, n + 1, Len(s))
         IN  /\ t \in Seq(LWP) /\ Len(t) = Len(s) - n
             /\ \A j \in 1..(Len(s) - n) : t[j] = s[n + j]
<1>. DEFINE t == SubSeq(s, n + 1, Len(s))
<1>0. Len(s) \in Nat /\ n \in Nat /\ n =< Len(s) /\ \A j \in 1..Len(s) : s[j] \in LWP
  BY LenProperties, ElementOfSeq
<1>2. t \in Seq(LWP) /\ Len(t) = Len(s) - n /\ \A j \in 1..(Len(s) - n) : t[j] = s[n + j]
  <2>1. \A j \in (n + 1)..Len(s) : s[j] \in LWP
    BY <1>0
  <2>2. /\ SubSeq(s, n + 1, Len(s)) \in Seq(LWP)
        /\ Len(SubSeq(s, n + 1, Len(s))) = IF n + 1 <= Len(s) THEN Len(s) - (n + 1) + 1 ELSE 0
        /\ \A j \in 1..(Len(s) - (n + 1) + 1) : SubSeq(s, n + 1, Len(s))[j] = s[n + 1 + j - 1]
    BY <1>0, <2>1, SubSeqProperties
  <2>3. ASSUME NEW j \in 1..(Len(s) - n) PROVE t[j] = s[n + j]
    <3>1. j \in 1..(Len(s) - (n + 1) + 1) /\ n + 1 + j - 1 = n + j
      BY <1>0
    <3>. QED
      BY <2>2, <3>1
  <2>. QED
    BY <1>0, <2>2, <2>3
<1>. QED
  BY <1>2

(* A sequence cut after the first n, which are pushed on a chain.          *)
CutAt(s, n, r, t) ==
  /\ s \in Seq(LWP) /\ Distinct(s) /\ n \in 0..Len(s)
  /\ r \in [1..n -> LWP] /\ \A i \in 1..n : r[i] = s[n + 1 - i]
  /\ t \in Seq(LWP) /\ Len(t) = Len(s) - n /\ \A i \in 1..(Len(s) - n) : t[i] = s[n + i]

(* They make two sequences, in which every LWP is once.                    *)
LEMMA Split ==
  ASSUME NEW s, NEW n, NEW r, NEW t, CutAt(s, n, r, t)
  PROVE  /\ r \in Seq(LWP) /\ t \in Seq(LWP) /\ Distinct(r) /\ Distinct(t)
         /\ InSeq(r) \cup InSeq(t) = InSeq(s)
         /\ \A x \in InSeq(r) : x \notin InSeq(t)
         /\ n # 0 => r # <<>>
<1>0. /\ Len(s) \in Nat /\ n \in Nat /\ n =< Len(s) /\ \A j \in 1..Len(s) : s[j] \in LWP
      /\ \A j, k \in 1..Len(s) : s[j] = s[k] => j = k
  BY LenProperties, ElementOfSeq DEF CutAt, Distinct
<1>1. r \in Seq(LWP) /\ Len(r) = n /\ \A j \in 1..n : r[j] = s[n + 1 - j]
  <2>2. r \in [1..n -> LWP] /\ \A j \in 1..n : r[j] = s[n + 1 - j]
    BY DEF CutAt
  <2>3. r \in Seq(LWP)
    BY <1>0, <2>2, SeqDef
  <2>4. DOMAIN r = 1..Len(r) /\ DOMAIN r = 1..n /\ Len(r) \in Nat
    BY <2>2, <2>3, LenProperties
  <2>. QED
    BY <1>0, <2>2, <2>3, <2>4
<1>2. t \in Seq(LWP) /\ Len(t) = Len(s) - n /\ \A j \in 1..(Len(s) - n) : t[j] = s[n + j]
  BY DEF CutAt
<1>3. Distinct(r)
  <2>1. ASSUME NEW j \in 1..n, NEW k \in 1..n, r[j] = r[k]
        PROVE  j = k
    <3>1. n + 1 - j \in 1..Len(s) /\ n + 1 - k \in 1..Len(s) /\ s[n + 1 - j] = s[n + 1 - k]
      BY <1>0, <1>1, <2>1
    <3>2. n + 1 - j = n + 1 - k
      BY <1>0, <3>1
    <3>. QED
      BY <1>0, <3>2
  <2>. QED
    BY <1>1, <2>1 DEF Distinct
<1>4. Distinct(t)
  <2>1. ASSUME NEW j \in 1..(Len(s) - n), NEW k \in 1..(Len(s) - n), t[j] = t[k]
        PROVE  j = k
    <3>1. n + j \in 1..Len(s) /\ n + k \in 1..Len(s) /\ s[n + j] = s[n + k]
      BY <1>0, <1>2, <2>1
    <3>2. n + j = n + k
      BY <1>0, <3>1
    <3>. QED
      BY <1>0, <3>2
  <2>. QED
    BY <1>2, <2>1 DEF Distinct
<1>5. InSeq(r) = {s[k] : k \in 1..n}
  <2>1. ASSUME NEW j \in 1..n PROVE r[j] \in {s[k] : k \in 1..n} /\ s[j] \in {r[k] : k \in 1..n}
    <3>1. n + 1 - j \in 1..n /\ n + 1 - (n + 1 - j) = j
      BY <1>0
    <3>2. r[j] = s[n + 1 - j] /\ r[n + 1 - j] = s[j]
      BY <1>1, <3>1
    <3>. QED
      BY <3>1, <3>2
  <2>2. \A j \in 1..n : r[j] \in {s[k] : k \in 1..n} /\ s[j] \in {r[k] : k \in 1..n}
    BY <2>1
  <2>3. {r[k] : k \in 1..n} = {s[k] : k \in 1..n}
    BY <2>2
  <2>4. InSeq(r) = {r[k] : k \in 1..n}
    BY <1>1 DEF InSeq
  <2>. QED
    BY <2>3, <2>4
<1>6. InSeq(t) = {s[k] : k \in (n + 1)..Len(s)}
  <2>1. ASSUME NEW j \in 1..(Len(s) - n) PROVE t[j] \in {s[k] : k \in (n + 1)..Len(s)}
    <3>1. n + j \in (n + 1)..Len(s)
      BY <1>0
    <3>. QED
      BY <1>2, <3>1
  <2>2. ASSUME NEW k \in (n + 1)..Len(s) PROVE s[k] \in {t[j] : j \in 1..(Len(s) - n)}
    <3>1. k - n \in 1..(Len(s) - n) /\ n + (k - n) = k
      BY <1>0
    <3>2. t[k - n] = s[k]
      BY <1>2, <3>1
    <3>. QED
      BY <3>1, <3>2
  <2>. QED
    BY <1>2, <2>1, <2>2 DEF InSeq
<1>7. InSeq(r) \cup InSeq(t) = InSeq(s)
  <2>1. 1..Len(s) = (1..n) \cup ((n + 1)..Len(s))
    BY <1>0
  <2>. QED
    BY <1>5, <1>6, <2>1 DEF InSeq
<1>8. ASSUME NEW x \in InSeq(r), x \in InSeq(t) PROVE FALSE
  <2>1. PICK j \in 1..n : x = s[j]
    BY <1>5
  <2>2. PICK k \in (n + 1)..Len(s) : x = s[k]
    BY <1>6, <1>8
  <2>3. j \in 1..Len(s) /\ k \in 1..Len(s) /\ j # k
    BY <1>0
  <2>. QED
    BY <1>0, <2>1, <2>2, <2>3
<1>9. n # 0 => r # <<>>
  BY <1>1
<1>. QED
  BY <1>1, <1>2, <1>3, <1>4, <1>7, <1>8, <1>9

(* A sequence without its head.                                            *)
LEMMA Beheaded ==
  ASSUME NEW s \in Seq(LWP), s # <<>>, Distinct(s)
  PROVE  /\ Tail(s) \in Seq(LWP) /\ Distinct(Tail(s))
         /\ Head(s) \in InSeq(s) /\ InSeq(Tail(s)) = InSeq(s) \ {Head(s)}
         /\ Len(s) = 1 <=> Tail(s) = <<>>
<1>0. /\ Len(s) \in Nat /\ Len(s) # 0 /\ Head(s) = s[1]
      /\ \A j, k \in 1..Len(s) : s[j] = s[k] => j = k
  BY LenProperties, EmptySeq DEF Distinct
<1>1. /\ Tail(s) \in Seq(LWP) /\ Len(Tail(s)) = Len(s) - 1
      /\ \A j \in 1..(Len(s) - 1) : Tail(s)[j] = s[j + 1]
  BY <1>0, HeadTailProperties
<1>2. Distinct(Tail(s))
  <2>1. ASSUME NEW j \in 1..(Len(s) - 1), NEW k \in 1..(Len(s) - 1), Tail(s)[j] = Tail(s)[k]
        PROVE  j = k
    <3>1. j + 1 \in 1..Len(s) /\ k + 1 \in 1..Len(s) /\ s[j + 1] = s[k + 1]
      BY <1>0, <1>1, <2>1
    <3>2. j + 1 = k + 1
      BY <1>0, <3>1
    <3>. QED
      BY <1>0, <3>2
  <2>. QED
    BY <1>1, <2>1 DEF Distinct
<1>3. Head(s) \in InSeq(s)
  BY <1>0 DEF InSeq
<1>4. ASSUME NEW j \in 1..(Len(s) - 1) PROVE Tail(s)[j] \in InSeq(s) \ {Head(s)}
  <2>1. j + 1 \in 1..Len(s) /\ 1 \in 1..Len(s) /\ j + 1 # 1
    BY <1>0
  <2>2. Tail(s)[j] = s[j + 1] /\ s[j + 1] # s[1]
    BY <1>0, <1>1, <2>1
  <2>. QED
    BY <1>0, <2>1, <2>2 DEF InSeq
<1>5. ASSUME NEW k \in 1..Len(s), s[k] # Head(s) PROVE s[k] \in InSeq(Tail(s))
  <2>1. k - 1 \in 1..(Len(s) - 1) /\ (k - 1) + 1 = k
    BY <1>0, <1>5
  <2>2. Tail(s)[k - 1] = s[k]
    BY <1>1, <2>1
  <2>. QED
    BY <1>1, <2>1, <2>2 DEF InSeq
<1>6. InSeq(Tail(s)) = InSeq(s) \ {Head(s)}
  BY <1>1, <1>4, <1>5 DEF InSeq
<1>7. Len(s) = 1 <=> Tail(s) = <<>>
  <2>1. Tail(s) = <<>> <=> Len(Tail(s)) = 0
    BY <1>1, EmptyInSeq
  <2>. QED
    BY <1>0, <1>1, <2>1
<1>. QED
  BY <1>1, <1>2, <1>3, <1>6, <1>7

-----------------------------------------------------------------------------
(* The queue, the wakeup chains and the LWPs on them.                      *)

(* The steps that move an LWP between the queue, a wakeup chain and its    *)
(* sleep, and what the others leave alone.                                 *)
Enqueues(l) == LockEnqueue(l) \/ SigEnqueue(l)
Swtches(l)  == LockSwtch(l) \/ SigSwtch(l)
ListActs(l) == Enqueues(l) \/ Swtches(l) \/ Dequeue(l) \/ DequeueUnlock(l) \/ UnlockWake(l)

Elsewhere(l) ==
  /\ UNCHANGED <<queue, chain, stat>>
  /\ pc[l] \notin {"sleep", "s_sleep", "deqdone", "wake"}
  /\ pc'[l] \notin {"sleep", "s_sleep", "deqdone", "wake"}
  /\ pc[l] \in {"asleep", "s_asleep"} => stat[l] = "SRUN"
  /\ \/ pc'[l] \notin {"asleep", "s_asleep"}
     \/ pc'[l] = pc[l]

(* A step that is none of those leaves these alone.                        *)
LEMMA QuietSteps ==
  ASSUME TypeInv, NEW l \in LWP, Acts(l), ~ListActs(l)
  PROVE  Elsewhere(l)
<1>0. pc \in [LWP -> PlainPcs \cup SigPcs]
  BY DEF TypeInv, TypeOK
<1>. USE <1>0 DEF Goto, lockVars, lwpVars, Elsewhere
<1>1. CASE LockStart(l) \/ TryLock(l) \/ SigStart(l) \/ Disown(l)
  BY <1>1 DEF LockStart, TryLock, SigStart, Disown
<1>2. CASE PrivateLock(l)
  BY <1>2 DEF PrivateLock
<1>3. CASE UnlockStart(l) \/ Deliver(l)
  BY <1>3 DEF UnlockStart, Deliver
<1>4. CASE LockFast(l) \/ LockTry(l) \/ LockLmutex(l) \/ LockFspin(l)
  BY <1>4 DEF LockFast, LockTry, LockLmutex, LockFspin
<1>5. CASE LockRaced(l) \/ LockUnavail(l) \/ LockResume(l)
  BY <1>5 DEF LockRaced, LockUnavail, LockResume
<1>6. CASE LockSettle(l) \/ LockFix(l) \/ RecordOwner(l)
  BY <1>6 DEF LockSettle, LockFix, RecordOwner, ApplyFix
<1>7. CASE UnlockRelease(l) \/ UnlockRecheckSpin(l) \/ UnlockRecheckQueue(l) \/ UnlockRetake(l)
  BY <1>7 DEF UnlockRelease, UnlockRecheckSpin, UnlockRecheckQueue, UnlockRetake
<1>8. CASE DequeueLock(l)
  BY <1>8 DEF DequeueLock
<1>9. CASE SigAgain(l) \/ SigLmutex(l) \/ SigFixpend(l)
  BY <1>9 DEF SigAgain, SigLmutex, SigFixpend
<1>10. CASE SigIssig(l)
  BY <1>10 DEF SigIssig, Signalled, Stopped, NoSignal
<1>11. CASE SigWoken(l)
  BY <1>11 DEF SigWoken, Signalled, Stopped, NoSignal
<1>12. CASE SigAcquire(l) \/ SigToProc(l) \/ SigPosted(l)
  BY <1>12 DEF SigAcquire, SigToProc, SigPosted
<1>13. CASE SigTake(l) \/ SigFix(l) \/ SigOwner(l) \/ SigUnavail(l)
  BY <1>13 DEF SigTake, SigFix, SigOwner, SigUnavail, ApplyFix
<1>14. CASE SigFspin(l) \/ SigRaced(l) \/ SigNotRaced(l)
  BY <1>14 DEF SigFspin, SigRaced, SigNotRaced
<1>15. CASE SigResume(l) \/ SigRelock(l)
  BY <1>15 DEF SigResume, SigRelock
<1>. QED
  BY <1>1, <1>2, <1>3, <1>4, <1>5, <1>6, <1>7, <1>8, <1>9, <1>10, <1>11, <1>12, <1>13, <1>14, <1>15 DEF Acts, ListActs, Enqueues, Swtches, Start, LockStep, UnlockStep, SigStep

(* An LWP elsewhere in the code is on no list.                             *)
LEMMA ListFacts ==
  ASSUME TypeInv, ListInv, NEW l \in LWP, pc[l] \notin {"sleep", "s_sleep", "asleep", "s_asleep"}
  PROVE  stat[l] = "SRUN" /\ ~Listed(l)
<1>1. stat[l] \in {"SSLEEP", "SRUN"}
  BY DEF TypeInv, TypeOK
<1>. QED
  BY <1>1 DEF ListInv, Dozing

(* An LWP that queues up is listed.                                        *)
LEMMA EnqueueList ==
  ASSUME TypeInv, ListInv, NEW l \in LWP, Enqueues(l), \A m \in LWP : l # m => pc'[m] = pc[m]
  PROVE  /\ ListInv' /\ queue' # <<>> /\ l \notin InSeq(queue)
         /\ InSeq(queue') = InSeq(queue) \cup {l}
         /\ UNCHANGED <<chain, stat, nsleeps, pend, fixpend, sigwoke>>
         /\ \/ pc[l] = "ins" /\ pc'[l] = "sleep"
            \/ pc[l] = "s_ins" /\ pc'[l] = "s_sleep"
         /\ \A m \in LWP : Listed(m)' <=> Listed(m) \/ m = l
<1>0. queue \in Seq(LWP) /\ chain \in [LWP -> Seq(LWP)] /\ pc \in [LWP -> PlainPcs \cup SigPcs]
  BY DEF TypeInv, TypeOK
<1>1. PICK i \in 1..(Len(queue) + 1) : queue' = InsertAt(queue, i, l)
  BY Zenon DEF Enqueues, LockEnqueue, SigEnqueue, Enqueued
<1>2. UNCHANGED <<chain, stat, nsleeps, pend, fixpend, sigwoke>>
  BY DEF Enqueues, LockEnqueue, SigEnqueue, lwpVars, sigVars
<1>3. \/ pc[l] = "ins" /\ pc'[l] = "sleep"
      \/ pc[l] = "s_ins" /\ pc'[l] = "s_sleep"
  BY <1>0 DEF Enqueues, LockEnqueue, SigEnqueue, Goto
<1>4. stat[l] = "SRUN" /\ ~Listed(l)
  BY <1>3, ListFacts
<1>5. Distinct(queue) /\ l \notin InSeq(queue)
  BY <1>4 DEF ListInv, Listed
<1>6. queue' \in Seq(LWP) /\ InSeq(queue') = InSeq(queue) \cup {l} /\ Distinct(queue')
  BY <1>0, <1>1, <1>5, Inserted
<1>7. queue' # <<>>
  BY <1>6, EmptyInSeq
<1>8. \A u \in LWP : Disjoint(chain[u], queue')
  BY <1>4, <1>6 DEF ListInv, Disjoint, Listed
<1>9. \A m \in LWP : Listed(m)' <=> Listed(m) \/ m = l
  BY <1>2, <1>6 DEF Listed
<1>10. \A m \in LWP : Listed(m)' => Dozing(m)'
  BY <1>2, <1>3, <1>9 DEF ListInv, Dozing
<1>11. \A m \in LWP : stat'[m] = "SSLEEP" => pc'[m] \in {"asleep", "s_asleep"}
  BY <1>2, <1>3, <1>4 DEF ListInv
<1>12. \A u \in LWP : chain'[u] # <<>> => pc'[u] \in {"deqdone", "wake"}
  BY <1>2, <1>3 DEF ListInv
<1>13. ListInv'
  BY <1>2, <1>6, <1>8, <1>10, <1>11, <1>12 DEF ListInv
<1>. QED
  BY <1>2, <1>3, <1>5, <1>6, <1>7, <1>9, <1>13

(* swtch puts it to sleep.                                                 *)
LEMMA SwtchList ==
  ASSUME TypeInv, ListInv, NEW l \in LWP, Swtches(l), \A m \in LWP : l # m => pc'[m] = pc[m]
  PROVE  /\ ListInv'
         /\ \A m \in LWP : (Listed(m)' <=> Listed(m)) /\ (Dozing(m)' <=> Dozing(m))
<1>0. pc \in [LWP -> PlainPcs \cup SigPcs] /\ stat \in [LWP -> {"SSLEEP", "SRUN"}]
  BY DEF TypeInv, TypeOK
<1>1. queue' = queue /\ chain' = chain
  BY DEF Swtches, LockSwtch, SigSwtch, lockVars
<1>2. /\ pc[l] \in {"sleep", "s_sleep"} /\ pc'[l] \in {"asleep", "s_asleep"}
      /\ stat' = [stat EXCEPT ![l] = "SSLEEP"]
  BY <1>0 DEF Swtches, LockSwtch, SigSwtch, Goto
<1>3. stat'[l] = "SSLEEP" /\ \A m \in LWP : l # m => stat'[m] = stat[m]
  BY <1>0, <1>2
<1>4. \A m \in LWP : Listed(m)' <=> Listed(m)
  BY <1>1 DEF Listed
<1>5. \A m \in LWP : Dozing(m)' <=> Dozing(m)
  BY <1>2, <1>3 DEF Dozing
<1>6. \A m \in LWP : stat'[m] = "SSLEEP" => pc'[m] \in {"asleep", "s_asleep"}
  BY <1>2, <1>3 DEF ListInv
<1>7. \A u \in LWP : chain'[u] # <<>> => pc'[u] \in {"deqdone", "wake"}
  BY <1>1, <1>2 DEF ListInv
<1>8. \A m \in LWP : Listed(m)' => Dozing(m)'
  BY <1>4, <1>5 DEF ListInv
<1>9. ListInv'
  BY <1>1, <1>6, <1>7, <1>8 DEF ListInv
<1>. QED
  BY <1>4, <1>5, <1>9

(* What sleep_dequeue does to the queue and to its chain.                  *)
LEMMA DequeueCut ==
  ASSUME TypeInv, ListInv, NEW l \in LWP, Dequeue(l)
  PROVE  \E n, r : /\ CutAt(queue, n, r, queue') /\ chain' = [chain EXCEPT ![l] = r]
                   /\ pend' = pend + n - fixpend /\ (queue # <<>> => n # 0)
<1>1. queue \in Seq(LWP) /\ Distinct(queue)
  BY DEF ListInv, TypeInv, TypeOK
<1>2. Len(queue) \in Nat /\ \A j \in 1..Len(queue) : queue[j] \in LWP
  BY <1>1, LenProperties, ElementOfSeq
<1>3. PICK n \in DequeueCounts :
        /\ chain' = [chain EXCEPT ![l] = [i \in 1..n |-> queue[n + 1 - i]]]
        /\ queue' = SubSeq(queue, n + 1, Len(queue))
        /\ pend' = pend + n - fixpend
  BY Zenon DEF Dequeue
<1>4. n \in 0..Len(queue) /\ (queue # <<>> => n # 0)
  BY DEF DequeueCounts
<1>5. PICK r : r = [i \in 1..n |-> queue[n + 1 - i]]
  OBVIOUS
<1>6. chain' = [chain EXCEPT ![l] = r]
  BY <1>3, <1>5, Zenon
<1>7. \A i \in 1..n : n + 1 - i \in 1..Len(queue)
  BY <1>2, <1>4
<1>8. r \in [1..n -> LWP] /\ \A i \in 1..n : r[i] = queue[n + 1 - i]
  BY <1>2, <1>5, <1>7
<1>9. PICK t : t = SubSeq(queue, n + 1, Len(queue)) /\ queue' = t
  BY <1>3
<1>10. /\ t \in Seq(LWP) /\ Len(t) = Len(queue) - n
       /\ \A j \in 1..(Len(queue) - n) : t[j] = queue[n + j]
  BY <1>1, <1>4, <1>9, Rest
<1>11. CutAt(queue, n, r, t)
  BY <1>1, <1>4, <1>8, <1>10, Zenon DEF CutAt
<1>. QED
  BY <1>3, <1>4, <1>6, <1>9, <1>11

(* sleep_dequeue moves LWPs from the queue to its chain.                   *)
LEMMA DequeueList ==
  ASSUME TypeInv, ListInv, NEW l \in LWP, Dequeue(l), \A m \in LWP : l # m => pc'[m] = pc[m]
  PROVE  /\ ListInv' /\ (queue' # <<>> => chain'[l] # <<>>)
         /\ pc[l] = "dequeue" /\ pc'[l] = "deqdone" /\ stat' = stat
         /\ \A m \in LWP : Listed(m)' <=> Listed(m)
<1>1. /\ queue \in Seq(LWP) /\ Distinct(queue) /\ chain \in [LWP -> Seq(LWP)]
      /\ pc \in [LWP -> PlainPcs \cup SigPcs]
  BY DEF ListInv, TypeInv, TypeOK
<1>2. PICK n, r : /\ CutAt(queue, n, r, queue') /\ chain' = [chain EXCEPT ![l] = r]
                  /\ (queue # <<>> => n # 0)
  BY DequeueCut
<1>3. /\ r \in Seq(LWP) /\ queue' \in Seq(LWP) /\ Distinct(r) /\ Distinct(queue')
      /\ InSeq(r) \cup InSeq(queue') = InSeq(queue)
      /\ \A x \in InSeq(r) : x \notin InSeq(queue')
      /\ n # 0 => r # <<>>
  BY <1>2, Split
<1>4. pc[l] = "dequeue" /\ pc'[l] = "deqdone" /\ stat' = stat
  <2>1. pc[l] = "dequeue" /\ pc' = [pc EXCEPT ![l] = "deqdone"] /\ stat' = stat
    BY Zenon DEF Dequeue, Goto
  <2>. QED
    BY <1>1, <2>1
<1>5. chain[l] = <<>> /\ InSeq(chain[l]) = {}
  BY <1>1, <1>4, EmptyInSeq DEF ListInv
<1>6. chain'[l] = r /\ \A u \in LWP : l # u => chain'[u] = chain[u]
  BY <1>1, <1>2
<1>7. \A m \in LWP : Listed(m)' <=> Listed(m)
  BY <1>3, <1>5, <1>6 DEF Listed
<1>8. \A u \in LWP : Distinct(chain'[u]) /\ Disjoint(chain'[u], queue')
  BY <1>3, <1>6 DEF ListInv, Disjoint
<1>9. \A u, v \in LWP : u # v => Disjoint(chain'[u], chain'[v])
  BY <1>3, <1>6 DEF ListInv, Disjoint
<1>10. queue' # <<>> => chain'[l] # <<>>
  <2>1. queue' # <<>> => queue # <<>>
    BY <1>1, <1>3, EmptyInSeq
  <2>. QED
    BY <2>1, <1>2, <1>3, <1>6
<1>11. \A m \in LWP : Listed(m)' => Dozing(m)'
  BY <1>4, <1>7 DEF ListInv, Dozing
<1>12. \A m \in LWP : stat'[m] = "SSLEEP" => pc'[m] \in {"asleep", "s_asleep"}
  BY <1>4 DEF ListInv
<1>13. \A u \in LWP : chain'[u] # <<>> => pc'[u] \in {"deqdone", "wake"}
  BY <1>4, <1>6 DEF ListInv
<1>14. ListInv'
  BY <1>3, <1>8, <1>9, <1>11, <1>12, <1>13 DEF ListInv
<1>. QED
  BY <1>4, <1>7, <1>10, <1>14

(* Its caller has somebody to wake, or goes.                               *)
LEMMA DequeueUnlockList ==
  ASSUME TypeInv, ListInv, NEW l \in LWP, DequeueUnlock(l), \A m \in LWP : l # m => pc'[m] = pc[m]
  PROVE  /\ ListInv' /\ chain' = chain
         /\ \A m \in LWP : (Listed(m)' <=> Listed(m)) /\ (Dozing(m)' <=> Dozing(m))
<1>1. UNCHANGED <<queue, chain, stat>>
  BY DEF DequeueUnlock, lwpVars
<1>2. /\ pc[l] = "deqdone" /\ pc'[l] \in {"idle", "wake"}
      /\ pc'[l] = "wake" <=> chain[l] # <<>>
  BY DEF DequeueUnlock, Goto, TypeInv, TypeOK
<1>3. \A m \in LWP : Listed(m)' <=> Listed(m)
  BY <1>1 DEF Listed
<1>4. \A m \in LWP : Dozing(m)' <=> Dozing(m)
  BY <1>1, <1>2 DEF Dozing
<1>5. \A m \in LWP : stat'[m] = "SSLEEP" => pc'[m] \in {"asleep", "s_asleep"}
  BY <1>1, <1>2 DEF ListInv
<1>6. \A u \in LWP : chain'[u] # <<>> => pc'[u] \in {"deqdone", "wake"}
  BY <1>1, <1>2 DEF ListInv
<1>7. \A m \in LWP : Listed(m)' => Dozing(m)'
  BY <1>3, <1>4 DEF ListInv
<1>8. ListInv'
  BY <1>1, <1>5, <1>6, <1>7 DEF ListInv
<1>. QED
  BY <1>1, <1>3, <1>4, <1>8

(* A wakeup takes an LWP off the chain.                                    *)
LEMMA WakeList ==
  ASSUME TypeInv, ListInv, NEW l \in LWP, UnlockWake(l), \A m \in LWP : l # m => pc'[m] = pc[m]
  PROVE  /\ ListInv' /\ queue' = queue
         /\ \E h \in LWP : /\ h # l /\ Dozing(h) /\ lmutex[h] = None /\ stat'[h] = "SRUN"
                           /\ pc'[h] = pc[h] /\ sigwoke' = [sigwoke EXCEPT ![h] = FALSE]
                           /\ \A m \in LWP : h # m => stat'[m] = stat[m]
                           /\ \A m \in LWP : Listed(m)' <=> Listed(m) /\ m # h
<1>0. /\ pc \in [LWP -> PlainPcs \cup SigPcs] /\ stat \in [LWP -> {"SSLEEP", "SRUN"}]
      /\ chain \in [LWP -> Seq(LWP)] /\ queue \in Seq(LWP)
  BY DEF TypeInv, TypeOK
<1>. DEFINE h == Head(chain[l])
<1>1. /\ queue' = queue /\ lmutex[h] = None
      /\ stat' = [stat EXCEPT ![h] = "SRUN"] /\ chain' = [chain EXCEPT ![l] = Tail(chain[l])]
      /\ sigwoke' = [sigwoke EXCEPT ![h] = FALSE]
  BY DEF UnlockWake, lockVars
<1>2. pc[l] = "wake" /\ pc'[l] = IF Len(chain[l]) = 1 THEN "idle" ELSE "wake"
  BY <1>0 DEF UnlockWake, Goto
<1>3. chain[l] # <<>> /\ Distinct(chain[l])
  BY <1>2 DEF ListInv, TypeInv, WakeHasChain
<1>4. /\ Tail(chain[l]) \in Seq(LWP) /\ Distinct(Tail(chain[l]))
      /\ h \in InSeq(chain[l]) /\ InSeq(Tail(chain[l])) = InSeq(chain[l]) \ {h}
      /\ Len(chain[l]) = 1 <=> Tail(chain[l]) = <<>>
  BY <1>0, <1>3, Beheaded
<1>5. h \in LWP
  BY <1>0, <1>4, EmptyInSeq
<1>. HIDE DEF h
<1>6. Listed(h) /\ Dozing(h)
  BY <1>4, <1>5 DEF Listed, ListInv
<1>7. h # l
  BY <1>2, <1>5, <1>6 DEF ListInv, Dozing
<1>8. chain'[l] = Tail(chain[l]) /\ \A u \in LWP : l # u => chain'[u] = chain[u]
  BY <1>0, <1>1
<1>9. stat'[h] = "SRUN" /\ \A m \in LWP : h # m => stat'[m] = stat[m]
  BY <1>0, <1>1, <1>5
<1>10. \A m \in LWP : Listed(m)' <=> Listed(m) /\ m # h
  <2>1. h \notin InSeq(queue) /\ \A u \in LWP : l # u => h \notin InSeq(chain[u])
    BY <1>4 DEF ListInv, Disjoint
  <2>. QED
    BY <1>1, <1>4, <1>8, <2>1 DEF Listed
<1>11. \A u \in LWP : Distinct(chain'[u]) /\ Disjoint(chain'[u], queue')
  BY <1>1, <1>4, <1>8 DEF ListInv, Disjoint
<1>12. \A u, v \in LWP : u # v => Disjoint(chain'[u], chain'[v])
  <2>1. \A u \in LWP : InSeq(chain'[u]) \subseteq InSeq(chain[u])
    BY <1>4, <1>8
  <2>2. \A u, v \in LWP : u # v => Disjoint(chain[u], chain[v])
    BY DEF ListInv
  <2>. QED
    BY <2>1, <2>2 DEF Disjoint
<1>13. \A m \in LWP : Listed(m)' => Dozing(m)'
  <2>1. \A m \in LWP : Dozing(m) => m # l
    BY <1>2 DEF ListInv, Dozing
  <2>. QED
    BY <1>9, <1>10, <2>1 DEF ListInv, Dozing
<1>14. \A m \in LWP : stat'[m] = "SSLEEP" => pc'[m] \in {"asleep", "s_asleep"}
  BY <1>2, <1>9 DEF ListInv
<1>15. \A u \in LWP : chain'[u] # <<>> => pc'[u] \in {"deqdone", "wake"}
  BY <1>2, <1>4, <1>8 DEF ListInv
<1>16. ListInv'
  BY <1>1, <1>4, <1>11, <1>12, <1>13, <1>14, <1>15 DEF ListInv
<1>. QED
  BY <1>1, <1>5, <1>6, <1>7, <1>9, <1>10, <1>16

(* The lists stay as they should be.                                       *)
LEMMA ActList ==
  ASSUME TypeInv, ListInv, NEW l \in LWP, Acts(l)
  PROVE  ListInv'
<1>1. \A m \in LWP : l # m => pc'[m] = pc[m]
  BY ActFrame
<1>2. CASE Enqueues(l)
  BY <1>1, <1>2, EnqueueList
<1>3. CASE Swtches(l)
  BY <1>1, <1>3, SwtchList
<1>4. CASE Dequeue(l)
  BY <1>1, <1>4, DequeueList
<1>5. CASE DequeueUnlock(l)
  BY <1>1, <1>5, DequeueUnlockList
<1>6. CASE UnlockWake(l)
  BY <1>1, <1>6, WakeList
<1>7. CASE ~ListActs(l)
  <2>1. Elsewhere(l)
    BY <1>7, QuietSteps
  <2>2. UNCHANGED <<queue, chain, stat>>
    BY <2>1 DEF Elsewhere
  <2>3. \A m \in LWP : Listed(m)' <=> Listed(m)
    BY <2>2 DEF Listed
  <2>4. \A m \in LWP : Listed(m)' => Dozing(m)'
    BY <1>1, <2>1, <2>2, <2>3 DEF ListInv, Elsewhere, Dozing
  <2>5. \A m \in LWP : stat'[m] = "SSLEEP" => pc'[m] \in {"asleep", "s_asleep"}
    BY <1>1, <2>1, <2>2 DEF ListInv, Elsewhere
  <2>6. \A u \in LWP : chain'[u] # <<>> => pc'[u] \in {"deqdone", "wake"}
    BY <1>1, <2>1, <2>2 DEF ListInv, Elsewhere
  <2>. QED
    BY <2>2, <2>4, <2>5, <2>6 DEF ListInv
<1>. QED
  BY <1>2, <1>3, <1>4, <1>5, <1>6, <1>7 DEF ListActs

(* A signal takes a sleeper off the queue, unless it is on a chain.        *)
LEMMA UnsleepList ==
  ASSUME TypeInv, PostInv, ListInv, Unsleep
  PROVE  /\ ListInv' /\ InSeq(queue') \subseteq InSeq(queue)
         /\ \E x \in LWP : /\ x = post.lwp /\ stat[x] = "SSLEEP" /\ pc[x] = "s_asleep"
                           /\ \A m \in LWP : x # m => stat'[m] = stat[m] /\ (Listed(m)' <=> Listed(m))
                           /\ \/ UNCHANGED <<queue, stat, sigwoke>>
                              \/ /\ x \in InSeq(queue) /\ InSeq(queue') = InSeq(queue) \ {x}
                                 /\ stat'[x] = "SRUN" /\ sigwoke' = [sigwoke EXCEPT ![x] = TRUE]
         /\ UNCHANGED <<pc, chain>>
<1>0. /\ stat \in [LWP -> {"SSLEEP", "SRUN"}]
      /\ chain \in [LWP -> Seq(LWP)] /\ queue \in Seq(LWP) /\ Distinct(queue)
  BY DEF TypeInv, TypeOK, ListInv
<1>1. PICK x \in LWP : /\ x = post.lwp /\ stat[x] = "SSLEEP" /\ pc[x] = "s_asleep"
  BY DEF Unsleep, PostInv
<1>2. UNCHANGED <<pc, chain>>
  BY DEF Unsleep
<1>3. CASE UNCHANGED <<queue, stat, sigwoke>>
  <2>1. ListInv' /\ \A m \in LWP : Listed(m)' <=> Listed(m)
    BY <1>2, <1>3 DEF ListInv, Listed, Dozing
  <2>. QED
    BY <1>1, <1>2, <1>3, <2>1
<1>4. CASE \E i \in 1..Len(queue) :
             /\ queue[i] = x /\ queue' = RemoveAt(queue, i)
             /\ stat' = [stat EXCEPT ![x] = "SRUN"]
             /\ sigwoke' = [sigwoke EXCEPT ![x] = TRUE]
  <2>1. PICK i \in 1..Len(queue) : queue[i] = x /\ queue' = RemoveAt(queue, i)
    BY <1>4
  <2>2. queue' \in Seq(LWP) /\ Distinct(queue') /\ InSeq(queue') = InSeq(queue) \ {x}
    BY <1>0, <2>1, Removed
  <2>3. x \in InSeq(queue)
    BY <2>1 DEF InSeq
  <2>4. /\ stat'[x] = "SRUN" /\ \A m \in LWP : x # m => stat'[m] = stat[m]
        /\ sigwoke' = [sigwoke EXCEPT ![x] = TRUE]
    BY <1>0, <1>4
  <2>5. \A u \in LWP : x \notin InSeq(chain[u])
    BY <2>3 DEF ListInv, Disjoint
  <2>6. \A m \in LWP : Listed(m)' <=> Listed(m) /\ m # x
    BY <1>2, <2>2, <2>5 DEF Listed
  <2>7. \A m \in LWP : Listed(m)' => Dozing(m)'
    BY <1>2, <2>4, <2>6 DEF ListInv, Dozing
  <2>8. \A m \in LWP : stat'[m] = "SSLEEP" => pc'[m] \in {"asleep", "s_asleep"}
    BY <1>2, <2>4 DEF ListInv
  <2>9. \A u \in LWP : Distinct(chain'[u]) /\ Disjoint(chain'[u], queue')
    BY <1>2, <2>2 DEF ListInv, Disjoint
  <2>10. ListInv'
    BY <1>2, <2>2, <2>7, <2>8, <2>9 DEF ListInv
  <2>. QED
    BY <1>1, <1>2, <2>2, <2>3, <2>4, <2>6, <2>10
<1>. QED
  BY <1>1, <1>3, <1>4, Zenon DEF Unsleep

(* The posting of a signal keeps the lists.                                *)
LEMMA PostList ==
  ASSUME TypeInv, PostInv, ListInv,
         (\E x \in LWP, kind \in Signals : PostSignal(x, kind)) \/ PostStep
  PROVE  ListInv'
<1>1. CASE Unsleep
  BY <1>1, UnsleepList
<1>2. CASE (\E x \in LWP, kind \in Signals : PostSignal(x, kind)) \/ PostLock \/ PostFspin
  <2>1. UNCHANGED <<queue, chain, stat, pc>>
    BY <1>2 DEF PostSignal, PostLock, PostFspin, lockVars, lwpVars
  <2>. QED
    BY <2>1 DEF ListInv, Listed, Dozing
<1>. QED
  BY <1>1, <1>2 DEF PostStep

(* A step of the lock keeps the types.                                     *)
LEMMA StepType == ASSUME TypeInv, [Next]_vars PROVE TypeInv'
BY StartType, LockType, UnlockType, SigType, OtherType DEF Next

(* A step of the lock is a step of an LWP or of a signal that is posted.   *)
LEMMA NextIs ==
  ASSUME [Next]_vars
  PROVE  \/ \E l \in LWP : Acts(l)
         \/ (\E x \in LWP, kind \in Signals : PostSignal(x, kind)) \/ PostStep
         \/ UNCHANGED vars
BY DEF Next, Acts

(* The spin locks and the lists are in order in every behaviour of sleep.c.*)
LEMMA BaseInvariance == Spec => []BaseInv
<1>1. Init => BaseInv
  <2>. SUFFICES ASSUME Init PROVE BaseInv
    OBVIOUS
  <2>1. TypeInv /\ CoreInv
    BY InitType, InitCore
  <2>2. /\ queue = <<>> /\ pc = [l \in LWP |-> "idle"] /\ post = Idle
        /\ chain = [l \in LWP |-> <<>>] /\ stat = [l \in LWP |-> "SRUN"]
    BY Zenon DEF Init
  <2>3. \A l \in LWP : pc[l] = "idle" /\ chain[l] = <<>> /\ stat[l] = "SRUN"
    BY <2>2
  <2>4. InSeq(<<>>) = {} /\ Distinct(<<>>)
    BY EmptySeq, EmptyInSeq
  <2>5. \A l \in LWP : ~Listed(l)
    BY <2>2, <2>3, <2>4 DEF Listed
  <2>6. \A u \in LWP : Distinct(chain[u]) /\ Disjoint(chain[u], queue) /\ \A v \in LWP : Disjoint(chain[u], chain[v])
    BY <2>2, <2>3, <2>4 DEF Disjoint
  <2>7. ListInv
    BY <2>2, <2>3, <2>4, <2>5, <2>6 DEF ListInv
  <2>8. SectionInv /\ PostInv
    BY <2>2, <2>3 DEF SectionInv, PostInv, InSection, Idle
  <2>. QED
    BY <2>1, <2>7, <2>8 DEF BaseInv
<1>2. ASSUME TypeInv, SectionInv, PostInv, ListInv, [Next]_vars
      PROVE  SectionInv' /\ PostInv' /\ ListInv'
  <2>1. ASSUME NEW l \in LWP, Acts(l) PROVE SectionInv' /\ PostInv' /\ ListInv'
    BY <1>2, <2>1, ActSection, ActPost, ActList
  <2>2. CASE (\E x \in LWP, kind \in Signals : PostSignal(x, kind)) \/ PostStep
    BY <1>2, <2>2, PostPost, PostList
  <2>3. CASE UNCHANGED vars
    <3>1. UNCHANGED <<queue, chain, stat, pc, post, fspin, lmutex>>
      BY <2>3 DEF vars, lockVars, lwpVars, sigVars
    <3>. QED
      BY <1>2, <3>1 DEF SectionInv, PostInv, ListInv, Listed, Dozing, InSection
  <2>. QED
    BY <1>2, <2>1, <2>2, <2>3, NextIs
<1>3. TypeInv /\ SectionInv /\ PostInv /\ ListInv /\ [Next]_vars
        => (TypeInv /\ SectionInv /\ PostInv /\ ListInv)'
  BY <1>2, StepType
<1>4. BaseInv <=> TypeInv /\ CoreInv /\ SectionInv /\ PostInv /\ ListInv
  BY DEF BaseInv
<1>. QED
  BY <1>1, <1>3, <1>4, CoreCorrect, PTL DEF Spec

(* l_mutex stays with the LWP that will sleep under it.                    *)
LEMMA StepLmutex ==
  ASSUME BaseInv, AcquireHoldsLmutex, LmutexInv, [Next]_vars
  PROVE  LmutexInv'
<1>0. /\ None \notin LWP /\ Setrun \notin LWP
      /\ lmutex \in [LWP -> LWP \cup {None, Setrun}]
  BY SleepLockAssumption DEF BaseInv, TypeInv, TypeOK
<1>1. ASSUME NEW l \in LWP, Acts(l) PROVE LmutexInv'
  <2>1. \A m \in LWP : l # m => lmutex'[m] = lmutex[m] /\ (Locked(m)' <=> Locked(m))
    BY <1>1, ActFrame DEF BaseInv, Locked
  <2>2. Locked(l)' => lmutex'[l] = l
    BY <1>1, ActFrame DEF BaseInv, LmutexInv, AcquireHoldsLmutex
  <2>. QED
    BY <2>1, <2>2 DEF LmutexInv
<1>2. CASE \/ \E x \in LWP, kind \in Signals : PostSignal(x, kind)
           \/ PostFspin \/ UNCHANGED vars
  <2>1. UNCHANGED <<pc, lmutex>>
    BY <1>2 DEF PostSignal, PostFspin, lwpVars, vars
  <2>. QED
    BY <2>1 DEF LmutexInv, Locked
<1>3. CASE PostLock \/ Unsleep
  <2>1. PICK x : x = post.lwp
    OBVIOUS
  <2>2. /\ x \in LWP /\ pc' = pc /\ lmutex[x] \in {None, Setrun}
        /\ \E v : lmutex' = [lmutex EXCEPT ![x] = v]
    BY <1>3, <2>1 DEF PostLock, Unsleep, BaseInv, PostInv
  <2>3. \A m \in LWP : x # m => lmutex'[m] = lmutex[m]
    BY <1>0, <2>2
  <2>4. ~Locked(x)
    BY <1>0, <2>2 DEF LmutexInv
  <2>. QED
    BY <2>2, <2>3, <2>4 DEF LmutexInv, Locked
<1>. QED
  BY <1>1, <1>2, <1>3, NextIs DEF PostStep

(* An LWP that sleeps stays on a list until it is woken.                   *)
LEMMA StepSleeper ==
  ASSUME BaseInv, LmutexInv, SleeperInv, [Next]_vars
  PROVE  SleeperInv'
<1>. USE DEF BaseInv
<1>1. ASSUME NEW l \in LWP, Acts(l) PROVE SleeperInv'
  <2>1. \A m \in LWP : l # m => pc'[m] = pc[m]
    BY <1>1, ActFrame
  <2>2. CASE Enqueues(l)
    BY <2>1, <2>2, EnqueueList DEF SleeperInv, Dozing
  <2>3. CASE Swtches(l)
    BY <2>1, <2>3, SwtchList DEF SleeperInv
  <2>4. CASE Dequeue(l)
    BY <2>1, <2>4, DequeueList DEF SleeperInv, Dozing
  <2>5. CASE DequeueUnlock(l)
    BY <2>1, <2>5, DequeueUnlockList DEF SleeperInv
  <2>6. CASE UnlockWake(l)
    <3>1. PICK h \in LWP : /\ h # l /\ Dozing(h) /\ lmutex[h] = None /\ stat'[h] = "SRUN"
                           /\ pc'[h] = pc[h]
                           /\ \A m \in LWP : h # m => stat'[m] = stat[m]
                           /\ \A m \in LWP : Listed(m)' <=> Listed(m) /\ m # h
      BY <2>1, <2>6, WakeList
    <3>2. ~Locked(h)
      BY <3>1, SleepLockAssumption DEF LmutexInv
    <3>3. ~Dozing(h)'
      BY <3>1, <3>2 DEF Dozing, Locked
    <3>4. pc'[l] \notin {"sleep", "s_sleep"}
      BY <2>6 DEF UnlockWake, Goto, TypeInv, TypeOK
    <3>. QED
      BY <2>1, <3>1, <3>3, <3>4 DEF SleeperInv, Dozing
  <2>7. CASE ~ListActs(l)
    <3>1. Elsewhere(l)
      BY <1>1, <2>7, QuietSteps
    <3>2. \A m \in LWP : (Listed(m)' <=> Listed(m)) /\ (Dozing(m)' => Dozing(m))
      BY <2>1, <3>1 DEF Elsewhere, Listed, Dozing
    <3>. QED
      BY <3>2 DEF SleeperInv
  <2>. QED
    BY <2>2, <2>3, <2>4, <2>5, <2>6, <2>7 DEF ListActs
<1>2. CASE Unsleep
  <2>1. PICK x \in LWP : /\ stat[x] = "SSLEEP" /\ pc[x] = "s_asleep"
                         /\ \A m \in LWP : x # m => stat'[m] = stat[m] /\ (Listed(m)' <=> Listed(m))
                         /\ UNCHANGED <<queue, stat>> \/ stat'[x] = "SRUN"
    BY <1>2, UnsleepList
  <2>2. pc' = pc /\ chain' = chain
    BY <1>2, UnsleepList
  <2>3. CASE UNCHANGED <<queue, stat>>
    BY <2>2, <2>3 DEF SleeperInv, Listed, Dozing
  <2>4. CASE stat'[x] = "SRUN"
    BY <2>1, <2>2, <2>4 DEF SleeperInv, Dozing
  <2>. QED
    BY <2>1, <2>3, <2>4
<1>3. CASE \/ \E x \in LWP, kind \in Signals : PostSignal(x, kind)
           \/ PostLock \/ PostFspin \/ UNCHANGED vars
  <2>1. UNCHANGED <<queue, chain, stat, pc>>
    BY <1>3 DEF PostSignal, PostLock, PostFspin, lockVars, lwpVars, vars
  <2>. QED
    BY <2>1 DEF SleeperInv, Listed, Dozing
<1>. QED
  BY <1>1, <1>2, <1>3, NextIs DEF PostStep

(* An LWP that is bound to look at sl_avail because of where it is.        *)
Bound(l) == pc[l] \in {"fast", "try", "lmx", "fsp", "chk", "s_relock", "s_acquire", "s_take",
                       "s_fsp", "s_chk", "recheckSpin", "recheckQueue", "retake"}

(* What a step does to those and to those that queue up.                   *)
LEMMA LookoutMoves ==
  ASSUME TypeInv, NEW l \in LWP, Acts(l)
  PROVE  /\ avail' /\ ~avail => pc'[l] = "recheckSpin" \/ Dequeue(l)
         /\ avail' /\ avail /\ Bound(l) =>
              \/ Bound(l)' \/ pc'[l] = "s_sigtoproc"
              \/ pc[l] = "recheckQueue" /\ pc'[l] = "idle" /\ queue = <<>>
         /\ avail /\ Queuing(l)' => Queuing(l)
         /\ Queuing(l)' /\ ~Queuing(l) => avail' = avail
         /\ pc'[l] = "recheckQueue" => pc[l] = "recheckSpin" /\ fspin = None /\ avail' = avail
         /\ pc[l] \in {"asleep", "s_asleep"} /\ ~sigwoke[l] => Bound(l)'
         /\ \A m \in LWP : l # m /\ ~sigwoke[m] => ~sigwoke'[m]
         /\ pc'[l] = "recheckSpin" => pc[l] = "release"
<1>1. /\ avail \in BOOLEAN /\ pc \in [LWP -> PlainPcs \cup SigPcs]
      /\ sigwoke \in [LWP -> BOOLEAN]
  BY DEF TypeInv, TypeOK
<1>. USE <1>1 DEF Goto, lockVars, lwpVars, sigVars, Bound, Queuing
<1>2. CASE LockStart(l) \/ TryLock(l) \/ SigStart(l) \/ Disown(l)
  BY <1>2 DEF LockStart, TryLock, SigStart, Disown
<1>3. CASE PrivateLock(l)
  BY <1>3 DEF PrivateLock
<1>4. CASE UnlockStart(l) \/ Deliver(l)
  BY <1>4 DEF UnlockStart, Deliver
<1>5. CASE LockFast(l) \/ LockTry(l) \/ LockLmutex(l) \/ LockFspin(l)
  BY <1>5 DEF LockFast, LockTry, LockLmutex, LockFspin
<1>6. CASE LockRaced(l) \/ LockUnavail(l) \/ LockResume(l)
  BY <1>6 DEF LockRaced, LockUnavail, LockResume
<1>7. CASE LockSettle(l) \/ LockFix(l) \/ RecordOwner(l)
  BY <1>7 DEF LockSettle, LockFix, RecordOwner, ApplyFix
<1>8. CASE UnlockRelease(l) \/ UnlockRecheckSpin(l) \/ UnlockRecheckQueue(l) \/ UnlockRetake(l)
  BY <1>8 DEF UnlockRelease, UnlockRecheckSpin, UnlockRecheckQueue, UnlockRetake
<1>9. CASE DequeueLock(l) \/ DequeueUnlock(l)
  BY <1>9 DEF DequeueLock, DequeueUnlock
<1>10. CASE SigAgain(l) \/ SigLmutex(l) \/ SigFixpend(l)
  BY <1>10 DEF SigAgain, SigLmutex, SigFixpend
<1>11. CASE SigIssig(l)
  BY <1>11 DEF SigIssig, Signalled, Stopped, NoSignal
<1>12. CASE SigWoken(l)
  BY <1>12 DEF SigWoken, Signalled, Stopped, NoSignal
<1>13. CASE SigAcquire(l) \/ SigToProc(l) \/ SigPosted(l)
  BY <1>13 DEF SigAcquire, SigToProc, SigPosted
<1>14. CASE SigTake(l) \/ SigFix(l) \/ SigOwner(l) \/ SigUnavail(l)
  BY <1>14 DEF SigTake, SigFix, SigOwner, SigUnavail, ApplyFix
<1>15. CASE SigFspin(l) \/ SigRaced(l) \/ SigNotRaced(l)
  BY <1>15 DEF SigFspin, SigRaced, SigNotRaced
<1>16. CASE SigResume(l) \/ SigRelock(l)
  BY <1>16 DEF SigResume, SigRelock
<1>17. CASE LockSwtch(l) \/ SigSwtch(l)
  BY <1>17 DEF LockSwtch, SigSwtch
<1>18. CASE LockEnqueue(l) \/ SigEnqueue(l)
  BY <1>18 DEF LockEnqueue, SigEnqueue
<1>19. CASE Dequeue(l)
  <2>1. /\ pc[l] = "dequeue" /\ pc' = [pc EXCEPT ![l] = "deqdone"] /\ UNCHANGED sigwoke
    BY <1>19, Zenon DEF Dequeue
  <2>. QED
    BY <1>19, <2>1
<1>20. CASE UnlockWake(l)
  <2>1. /\ pc[l] = "wake" /\ pc'[l] \in {"idle", "wake"} /\ UNCHANGED <<avail, fspin>>
    BY <1>20 DEF UnlockWake
  <2>2. PICK x : sigwoke' = [sigwoke EXCEPT ![x] = FALSE]
    BY <1>20 DEF UnlockWake
  <2>. QED
    BY <2>1, <2>2
<1>. QED
  BY <1>2, <1>3, <1>4, <1>5, <1>6, <1>7, <1>8, <1>9, <1>10, <1>11, <1>12, <1>13, <1>14, <1>15, <1>16, <1>17, <1>18, <1>19, <1>20
     DEF Acts, Start, LockStep, UnlockStep, SigStep

(* The queue is entered by an LWP that will sleep only, a chain is its     *)
(* owner's, and nobody but the LWP itself goes to sleep.                   *)
LEMMA ListFrame ==
  ASSUME TypeInv, ListInv, NEW l \in LWP, Acts(l)
  PROVE  /\ \A m \in LWP : l # m => chain'[m] = chain[m]
         /\ \A m \in LWP : l # m /\ stat[m] = "SRUN" => stat'[m] = "SRUN"
         /\ ~Enqueues(l) /\ queue' # <<>> => queue # <<>>
         /\ ~UnlockWake(l) /\ pc[l] \in {"deqdone", "wake"} => chain'[l] = chain[l]
<1>0. /\ stat \in [LWP -> {"SSLEEP", "SRUN"}] /\ queue \in Seq(LWP)
      /\ chain \in [LWP -> Seq(LWP)] /\ pc \in [LWP -> PlainPcs \cup SigPcs]
  BY DEF TypeInv, TypeOK
<1>1. CASE Enqueues(l)
  <2>1. pc[l] \in {"ins", "s_ins"} /\ chain' = chain /\ stat' = stat
    BY <1>1, ActFrame, EnqueueList
  <2>. QED
    BY <1>1, <2>1
<1>2. CASE Swtches(l)
  <2>1. /\ queue' = queue /\ chain' = chain /\ stat' = [stat EXCEPT ![l] = "SSLEEP"]
    BY <1>2 DEF Swtches, LockSwtch, SigSwtch, lockVars
  <2>. QED
    BY <1>0, <2>1
<1>3. CASE Dequeue(l)
  <2>1. pc[l] = "dequeue" /\ stat' = stat
    BY <1>3, Zenon DEF Dequeue, Goto
  <2>2. PICK n, r : CutAt(queue, n, r, queue') /\ chain' = [chain EXCEPT ![l] = r]
    BY <1>3, DequeueCut
  <2>3. queue' \in Seq(LWP) /\ InSeq(queue') \subseteq InSeq(queue)
    BY <2>2, Split
  <2>4. queue' # <<>> => queue # <<>>
    BY <1>0, <2>3, EmptyInSeq
  <2>. QED
    BY <1>0, <2>1, <2>2, <2>4
<1>4. CASE DequeueUnlock(l)
  BY <1>4 DEF DequeueUnlock, lwpVars
<1>5. CASE UnlockWake(l)
  <2>1. /\ queue' = queue /\ stat' = [stat EXCEPT ![Head(chain[l])] = "SRUN"]
        /\ chain' = [chain EXCEPT ![l] = Tail(chain[l])]
    BY <1>5 DEF UnlockWake, lockVars
  <2>. QED
    BY <1>0, <1>5, <2>1
<1>6. CASE ~ListActs(l)
  BY <1>6, QuietSteps DEF Elsewhere
<1>. QED
  BY <1>1, <1>2, <1>3, <1>4, <1>5, <1>6 DEF ListActs

(* The race of a release with an LWP that queues up stays decided: while   *)
(* sl_avail is set and there is one, somebody will look.                   *)
LEMMA ActLookout ==
  ASSUME BaseInv, BaseInv', LmutexInv, LookoutInv, NoSigwaiting', NEW l \in LWP, Acts(l)
  PROVE  LookoutInv'
<1>. USE DEF BaseInv
<1>1. \A m \in LWP : l # m => pc'[m] = pc[m]
  BY ActFrame
<1>2. \A m \in LWP : l # m => (Queuing(m)' <=> Queuing(m))
  BY <1>1 DEF Queuing
<1>3. \A m \in LWP : Queuing(m) => InSection(m)
  BY DEF Queuing, InSection
<1>4. pc[l] = "dequeue" => \A m \in LWP : ~Queuing(m)
  <2>1. SUFFICES ASSUME pc[l] = "dequeue", NEW m \in LWP, Queuing(m) PROVE FALSE
    OBVIOUS
  <2>2. InSection(l) /\ l # m
    BY <2>1 DEF InSection, Queuing
  <2>. QED
    BY <1>3, <2>1, <2>2 DEF SectionInv
<1>5. \A m \in LWP : l # m /\ chain[m] # <<>> => chain'[m] # <<>>
  BY ListFrame
<1>6. ASSUME NEW m \in LWP, l # m, WillLook(m)
      PROVE  WillLook(m)'
  <2>1. stat[m] = "SRUN" => stat'[m] = "SRUN"
    BY <1>6, ListFrame
  <2>2. ~sigwoke[m] => ~sigwoke'[m]
    BY <1>6, LookoutMoves
  <2>. QED
    BY <1>1, <1>5, <1>6, <2>1, <2>2 DEF WillLook
<1>7. ASSUME avail', queue' # <<>> \/ \E m \in LWP : Queuing(m)'
      PROVE  \E m \in LWP : WillLook(m)'
  <2>1. CASE ~avail
    <3>1. CASE pc'[l] = "recheckSpin"
      BY <3>1 DEF WillLook
    <3>2. CASE Dequeue(l)
      <4>1. /\ queue' # <<>> => chain'[l] # <<>>
            /\ pc[l] = "dequeue" /\ pc'[l] = "deqdone"
        BY <1>1, <3>2, DequeueList
      <4>2. \A m \in LWP : ~Queuing(m)'
        BY <1>2, <1>4, <4>1 DEF Queuing
      <4>3. chain'[l] # <<>>
        BY <1>7, <4>1, <4>2
      <4>. QED
        BY <4>3 DEF WillLook
    <3>. QED
      BY <1>7, <2>1, <3>1, <3>2, LookoutMoves
  <2>2. CASE avail
    <3>1. queue # <<>> \/ \E m \in LWP : Queuing(m)
      <4>1. SUFFICES ASSUME \A m \in LWP : ~Queuing(m) PROVE queue # <<>>
        OBVIOUS
      <4>2. queue' # <<>>
        BY <1>2, <1>7, <2>2, <4>1, LookoutMoves
      <4>3. CASE Enqueues(l)
        <5>1. pc[l] \in {"ins", "s_ins"}
          BY <1>1, <4>3, EnqueueList
        <5>. QED
          BY <4>1, <5>1 DEF Queuing
      <4>4. CASE ~Enqueues(l)
        BY <4>2, <4>4, ListFrame
      <4>. QED
        BY <4>3, <4>4
    <3>2. PICK m \in LWP : WillLook(m)
      BY <2>2, <3>1 DEF LookoutInv
    <3>3. CASE m # l
      BY <1>6, <3>2, <3>3
    <3>4. CASE m = l /\ Bound(l)
      <4>1. CASE pc[l] = "recheckQueue" /\ pc'[l] = "idle" /\ queue = <<>>
        <5>1. \E n \in LWP : Queuing(n)
          BY <3>1, <4>1
        <5>. QED
          BY <2>2, <4>1, <5>1 DEF LookoutInv
      <4>2. CASE Bound(l)'
        BY <4>2 DEF Bound, WillLook
      <4>3. pc'[l] # "s_sigtoproc"
        BY DEF NoSigwaiting
      <4>. QED
        BY <1>7, <2>2, <3>4, <4>1, <4>2, <4>3, LookoutMoves
    <3>5. CASE m = l /\ pc[l] \in {"asleep", "s_asleep"} /\ ~sigwoke[l]
      <4>1. Bound(l)'
        BY <3>5, LookoutMoves
      <4>. QED
        BY <4>1 DEF Bound, WillLook
    <3>6. CASE m = l /\ chain[l] # <<>>
      <4>1. pc[l] \in {"deqdone", "wake"}
        BY <3>6 DEF ListInv
      <4>2. CASE UnlockWake(l)
        <5>1. PICK h \in LWP : /\ Dozing(h) /\ lmutex[h] = None /\ stat'[h] = "SRUN"
                               /\ pc'[h] = pc[h] /\ sigwoke' = [sigwoke EXCEPT ![h] = FALSE]
          BY <1>1, <4>2, WakeList
        <5>2. ~Locked(h)
          BY <5>1, SleepLockAssumption DEF LmutexInv
        <5>3. pc'[h] \in {"asleep", "s_asleep"}
          BY <5>1, <5>2 DEF Dozing, Locked, ListInv
        <5>4. ~sigwoke'[h]
          BY <5>1 DEF TypeInv, TypeOK
        <5>. QED
          BY <5>1, <5>3, <5>4 DEF WillLook
      <4>3. CASE ~UnlockWake(l)
        <5>1. chain'[l] = chain[l]
          BY <4>1, <4>3, ListFrame
        <5>. QED
          BY <3>6, <5>1 DEF WillLook
      <4>. QED
        BY <4>2, <4>3
    <3>. QED
      BY <3>2, <3>3, <3>4, <3>5, <3>6 DEF WillLook, Bound
  <2>. QED
    BY <2>1, <2>2
<1>8. ASSUME NEW x \in LWP, NEW m \in LWP, pc'[x] = "recheckQueue", avail', Queuing(m)'
      PROVE  FALSE
  <2>1. CASE x = l
    <3>1. pc[l] = "recheckSpin" /\ fspin = None /\ m # l
      BY <1>8, <2>1, LookoutMoves DEF Queuing
    <3>2. Queuing(m)
      BY <1>2, <1>8, <3>1
    <3>. QED
      BY <1>3, <3>1, <3>2, SleepLockAssumption DEF SectionInv
  <2>2. CASE x # l
    <3>1. pc[x] = "recheckQueue"
      BY <1>1, <1>8, <2>2
    <3>2. CASE avail
      <4>1. ~Queuing(m)
        BY <1>8, <3>1, <3>2 DEF LookoutInv
      <4>. QED
        BY <1>2, <1>8, <3>2, <4>1, LookoutMoves
    <3>3. CASE ~avail
      <4>1. CASE pc'[l] = "recheckSpin"
        <5>1. Releasing(l)' /\ Releasing(x)'
          BY <1>8, <4>1 DEF Releasing
        <5>. QED
          BY <2>2, <5>1 DEF CoreInv, ReleaseInv
      <4>2. CASE Dequeue(l)
        <5>1. pc[l] = "dequeue" /\ pc'[l] = "deqdone"
          BY <1>1, <4>2, DequeueList
        <5>. QED
          BY <1>2, <1>4, <1>8, <5>1 DEF Queuing
      <4>. QED
        BY <1>8, <3>3, <4>1, <4>2, LookoutMoves
    <3>. QED
      BY <3>2, <3>3
  <2>. QED
    BY <2>1, <2>2
<1>. QED
  BY <1>7, <1>8 DEF LookoutInv

(* The posting of a signal takes nobody away who was bound to look.        *)
LEMMA PostLookout ==
  ASSUME BaseInv, LookoutInv,
         (\E x \in LWP, kind \in Signals : PostSignal(x, kind)) \/ PostStep
  PROVE  LookoutInv'
<1>1. CASE (\E x \in LWP, kind \in Signals : PostSignal(x, kind)) \/ PostLock \/ PostFspin
  <2>1. UNCHANGED <<avail, queue, chain, stat, pc, sigwoke>>
    BY <1>1 DEF PostSignal, PostLock, PostFspin, lockVars, lwpVars
  <2>. QED
    BY <2>1 DEF LookoutInv, Queuing, WillLook
<1>2. CASE Unsleep
  <2>1. PICK x \in LWP : /\ stat[x] = "SSLEEP" /\ pc[x] = "s_asleep"
                         /\ \A m \in LWP : x # m => stat'[m] = stat[m]
                         /\ UNCHANGED <<queue, stat, sigwoke>> \/ sigwoke' = [sigwoke EXCEPT ![x] = TRUE]
    BY <1>2, UnsleepList DEF BaseInv
  <2>2. UNCHANGED <<avail, pc, chain>> /\ InSeq(queue') \subseteq InSeq(queue)
    BY <1>2, UnsleepList DEF BaseInv, Unsleep
  <2>3. queue \in Seq(LWP) /\ queue' \in Seq(LWP) /\ sigwoke \in [LWP -> BOOLEAN]
    BY <1>2, OtherType DEF BaseInv, TypeInv, TypeOK, PostStep
  <2>4. queue' # <<>> => queue # <<>>
    BY <2>2, <2>3, EmptyInSeq
  <2>5. chain[x] = <<>>
    BY <2>1 DEF BaseInv, ListInv
  <2>6. ~WillLook(x)
    BY <2>1, <2>5 DEF WillLook
  <2>7. \A m \in LWP : x # m => (sigwoke'[m] = sigwoke[m])
    BY <2>1, <2>3
  <2>8. ASSUME NEW m \in LWP, WillLook(m) PROVE WillLook(m)'
    BY <2>1, <2>2, <2>6, <2>7, <2>8 DEF WillLook
  <2>9. \A m \in LWP : Queuing(m)' <=> Queuing(m)
    BY <2>2 DEF Queuing
  <2>. QED
    BY <2>2, <2>4, <2>8, <2>9 DEF LookoutInv
<1>. QED
  BY <1>1, <1>2 DEF PostStep

(* The three together are kept, as long as the assertion at acquire holds. *)
LEMMA StepWake ==
  ASSUME BaseInv, BaseInv', AcquireHoldsLmutex, NoSigwaiting', WakeInv, [Next]_vars
  PROVE  WakeInv'
<1>0. LookoutInv
  BY DEF WakeInv
<1>1. LmutexInv' /\ SleeperInv'
  BY StepLmutex, StepSleeper DEF WakeInv
<1>2. ASSUME NEW l \in LWP, Acts(l) PROVE LookoutInv'
  BY <1>2, ActLookout DEF WakeInv
<1>3. ASSUME (\E x \in LWP, kind \in Signals : PostSignal(x, kind)) \/ PostStep
      PROVE  LookoutInv'
  BY <1>0, <1>3, PostLookout, Zenon
<1>4. ASSUME UNCHANGED vars PROVE LookoutInv'
  <2>1. UNCHANGED <<avail, queue, chain, stat, pc, sigwoke>>
    BY <1>4 DEF vars, lockVars, lwpVars, sigVars
  <2>. QED
    BY <1>0, <2>1 DEF LookoutInv, Queuing, WillLook
<1>5. LookoutInv'
  BY <1>2, <1>3, <1>4, NextIs
<1>. QED
  BY <1>1, <1>5 DEF WakeInv

(* Nobody sleeps at first.                                                 *)
LEMMA InitWake == Init => WakeInv
<1>. SUFFICES ASSUME Init PROVE WakeInv
  OBVIOUS
<1>1. queue = <<>> /\ pc = [l \in LWP |-> "idle"] /\ stat = [l \in LWP |-> "SRUN"]
  BY Zenon DEF Init
<1>2. \A l \in LWP : pc[l] = "idle" /\ stat[l] = "SRUN"
  BY <1>1
<1>. QED
  BY <1>1, <1>2 DEF WakeInv, LmutexInv, SleeperInv, LookoutInv, Locked, Dozing, Queuing

(* What the invariant is for.                                              *)
LEMMA WakeInvMeans == WakeInv => SleepersWoken
<1>1. WakeInv => SleeperReachable
  BY DEF WakeInv, SleeperInv, SleeperReachable, Listed, Dozing
<1>2. WakeInv => NoLostWakeup
  BY DEF WakeInv, LookoutInv, NoLostWakeup
<1>. QED
  BY <1>1, <1>2 DEF SleepersWoken

(* An LWP that sleeps is on the queue or on the wakeup chain of an LWP in  *)
(* sleep_unlock, and no release misses one that queues up, whatever        *)
(* signals are posted, as long as the assertion at acquire in              *)
(* sleep_lock_sig holds and no SIGWAITING is sent: those are the only two  *)
(* ways in which sleep.c can lose a wakeup.                                *)
THEOREM SleepersAreWoken ==
  Spec /\ [](AcquireHoldsLmutex /\ NoSigwaiting) => []SleepersWoken
<1>1. BaseInv /\ BaseInv' /\ AcquireHoldsLmutex /\ NoSigwaiting' /\ WakeInv /\ [Next]_vars => WakeInv'
  BY StepWake
<1>. QED
  BY <1>1, InitWake, WakeInvMeans, BaseInvariance, PTL DEF Spec

(* On a lock that nobody acquires with sleep_lock_sig every sleeper is     *)
(* woken, whatever signals are posted to its LWPs.                         *)
THEOREM PlainSleepersAreWoken ==
  ASSUME Interruptible = {}
  PROVE  Spec => []SleepersWoken
<1>. DEFINE AllPlain == \A l \in LWP : pc[l] \in PlainPcs
<1>1. Init => AllPlain
  <2>. SUFFICES ASSUME Init PROVE AllPlain
    OBVIOUS
  <2>1. pc = [l \in LWP |-> "idle"]
    BY Zenon DEF Init
  <2>. QED
    BY <2>1 DEF PlainPcs
<1>2. ASSUME TypeInv, AllPlain, [Next]_vars PROVE AllPlain'
  <2>1. ASSUME NEW l \in LWP, Acts(l) PROVE pc'[l] \in PlainPcs
    <3>0. pc[l] \in PlainPcs /\ l \notin Interruptible /\ pc \in [LWP -> PlainPcs \cup SigPcs]
      BY <1>2 DEF TypeInv, TypeOK
    <3>. USE <3>0 DEF PlainPcs, Goto
    <3>1. CASE Start(l) \/ Deliver(l)
      BY <3>1 DEF Start, LockStart, TryLock, PrivateLock, SigStart, Disown, Deliver
    <3>2. CASE UnlockStart(l)
      BY <3>2 DEF UnlockStart
    <3>3. CASE LockStep(l)
      <4>1. CASE LockEnqueue(l)
        BY <4>1 DEF LockEnqueue
      <4>2. CASE LockFast(l) \/ LockTry(l) \/ LockLmutex(l) \/ LockFspin(l) \/ LockRaced(l)
        BY <4>2 DEF LockFast, LockTry, LockLmutex, LockFspin, LockRaced
      <4>3. CASE LockUnavail(l) \/ LockSwtch(l) \/ LockResume(l) \/ LockSettle(l)
        BY <4>3 DEF LockUnavail, LockSwtch, LockResume, LockSettle
      <4>4. CASE LockFix(l) \/ RecordOwner(l)
        BY <4>4 DEF LockFix, RecordOwner, ApplyFix
      <4>. QED
        BY <3>3, <4>1, <4>2, <4>3, <4>4 DEF LockStep
    <3>4. CASE UnlockStep(l)
      <4>1. CASE Dequeue(l)
        BY <4>1, Zenon DEF Dequeue
      <4>2. CASE UnlockRelease(l) \/ UnlockRecheckSpin(l) \/ UnlockRecheckQueue(l) \/ UnlockRetake(l)
        BY <4>2 DEF UnlockRelease, UnlockRecheckSpin, UnlockRecheckQueue, UnlockRetake
      <4>3. CASE DequeueLock(l) \/ DequeueUnlock(l)
        BY <4>3 DEF DequeueLock, DequeueUnlock
      <4>4. CASE UnlockWake(l)
        BY <4>4 DEF UnlockWake
      <4>. QED
        BY <3>4, <4>1, <4>2, <4>3, <4>4 DEF UnlockStep
    <3>5. CASE SigStep(l)
      BY <3>5 DEF SigStep, SigAgain, SigLmutex, SigIssig, SigFixpend, SigAcquire, SigToProc,
           SigPosted, SigTake, SigFix, SigOwner, SigUnavail, SigFspin, SigRaced, SigNotRaced,
           SigEnqueue, SigSwtch, SigResume, SigWoken, SigRelock, ApplyFix, Signalled, Stopped,
           NoSignal
    <3>. QED
      BY <2>1, <3>1, <3>2, <3>3, <3>4, <3>5 DEF Acts
  <2>2. ASSUME NEW l \in LWP, Acts(l) PROVE AllPlain'
    BY <1>2, <2>1, <2>2, ActFrame
  <2>3. CASE \/ \E x \in LWP, kind \in Signals : PostSignal(x, kind)
             \/ PostStep \/ UNCHANGED vars
    <3>1. pc' = pc
      BY <2>3 DEF PostStep, PostSignal, PostLock, PostFspin, Unsleep, vars
    <3>. QED
      BY <1>2, <3>1
  <2>. QED
    BY <1>2, <2>2, <2>3, NextIs
<1>3. AllPlain => AcquireHoldsLmutex /\ NoSigwaiting
  BY DEF AcquireHoldsLmutex, NoSigwaiting, PlainPcs
<1>4. TypeInv /\ AllPlain /\ [Next]_vars => AllPlain'
  BY <1>2
<1>5. BaseInv => TypeInv
  BY DEF BaseInv
<1>. HIDE DEF AllPlain
<1>. QED
  BY <1>1, <1>3, <1>4, <1>5, BaseInvariance, SleepersAreWoken, PTL DEF Spec

-----------------------------------------------------------------------------
(***************************************************************************)
(* Sums over the LWPs, as the number of pairs of an LWP and a number up to *)
(* its share.                                                              *)

Pairs(f) == UNION {{l} \X (1..f[l]) : l \in LWP}

(* What is in it.                                                          *)
LEMMA PairsAre ==
  ASSUME NEW f \in [LWP -> Nat]
  PROVE  /\ \A l \in LWP : \A n \in 1..f[l] : <<l, n>> \in Pairs(f)
         /\ \A x \in Pairs(f) : \E l \in LWP : \E n \in 1..f[l] : x = <<l, n>>
BY DEF Pairs

(* The sum of finitely many numbers is a number.                           *)
LEMMA PairsFinite ==
  ASSUME NEW f \in [LWP -> Nat]
  PROVE  IsFiniteSet(Pairs(f)) /\ Cardinality(Pairs(f)) \in Nat
<1>. DEFINE g == [l \in LWP |-> {l} \X (1..f[l])]
            T == {{l} \X (1..f[l]) : l \in LWP}
<1>1. g \in Surjection(LWP, T)
  BY DEF Surjection
<1>2. IsFiniteSet(LWP)
  BY SleepLockAssumption
<1>3. IsFiniteSet(T)
  <2>. HIDE DEF g, T
  <2>. QED
    BY <1>1, <1>2, FS_Surjection
<1>4. ASSUME NEW l \in LWP PROVE IsFiniteSet({l} \X (1..f[l]))
  <2>0. f[l] \in Int /\ 1 \in Int
    OBVIOUS
  <2>1. IsFiniteSet({l}) /\ IsFiniteSet(1..f[l])
    BY <2>0, FS_Singleton, FS_Interval, Zenon
  <2>. QED
    BY <2>1, FS_Product
<1>5. \A t \in T : IsFiniteSet(t)
  BY <1>4
<1>. HIDE DEF T
<1>6. IsFiniteSet(UNION T)
  BY <1>3, <1>5, FS_UNION
<1>. QED
  BY <1>6, FS_CardinalityType DEF Pairs, T

(* Two parts without a pair in common add up.                              *)
LEMMA PairsAddUp ==
  ASSUME NEW f \in [LWP -> Nat], NEW g \in [LWP -> Nat], NEW D, IsFiniteSet(D),
         Pairs(g) = Pairs(f) \cup D, Pairs(f) \cap D = {}
  PROVE  Cardinality(Pairs(g)) = Cardinality(Pairs(f)) + Cardinality(D)
<1>1. Cardinality(D) \in Nat /\ Cardinality({}) = 0
  BY FS_CardinalityType, FS_EmptySet
<1>2. IsFiniteSet(Pairs(f)) /\ Cardinality(Pairs(f)) \in Nat
  BY PairsFinite
<1>3. Cardinality(Pairs(f) \cup D)
        = Cardinality(Pairs(f)) + Cardinality(D) - Cardinality(Pairs(f) \cap D)
  BY <1>2, FS_Union
<1>4. Cardinality(Pairs(f) \cap D) = 0
  BY <1>1
<1>5. Cardinality(Pairs(g)) = Cardinality(Pairs(f)) + Cardinality(D) - 0
  BY <1>3, <1>4, Zenon
<1>. QED
  BY <1>1, <1>2, <1>5

(* When the share of one LWP grows, the sum does.                          *)
LEMMA PairsGrow ==
  ASSUME NEW f \in [LWP -> Nat], NEW g \in [LWP -> Nat], NEW l \in LWP,
         \A m \in LWP : l # m => g[m] = f[m], f[l] =< g[l]
  PROVE  Cardinality(Pairs(g)) = Cardinality(Pairs(f)) + (g[l] - f[l])
<1>. DEFINE D == {l} \X ((f[l] + 1)..g[l])
<1>0. f[l] \in Nat /\ g[l] \in Nat
  OBVIOUS
<1>1. IsFiniteSet(D) /\ Cardinality(D) = g[l] - f[l]
  <2>1. IsFiniteSet({l}) /\ Cardinality({l}) = 1
    BY FS_Singleton
  <2>2. /\ IsFiniteSet((f[l] + 1)..g[l])
        /\ Cardinality((f[l] + 1)..g[l]) = IF f[l] + 1 > g[l] THEN 0 ELSE g[l] - (f[l] + 1) + 1
    <3>1. f[l] + 1 \in Int /\ g[l] \in Int
      BY <1>0
    <3>. QED
      BY <3>1, FS_Interval
  <2>3. IsFiniteSet(D) /\ Cardinality(D) = Cardinality({l}) * Cardinality((f[l] + 1)..g[l])
    BY <2>1, <2>2, FS_Product
  <2>. HIDE DEF D
  <2>. QED
    BY <1>0, <2>1, <2>2, <2>3
<1>2. ASSUME NEW x \in Pairs(g) PROVE x \in Pairs(f) \cup D
  <2>1. PICK m \in LWP : \E n \in 1..g[m] : x = <<m, n>>
    BY PairsAre
  <2>2. PICK n \in 1..g[m] : x = <<m, n>>
    BY <2>1
  <2>3. CASE n \in 1..f[m]
    BY <2>2, <2>3, PairsAre
  <2>4. CASE n \notin 1..f[m]
    <3>1. m = l /\ n \in (f[l] + 1)..g[l]
      BY <1>0, <2>4
    <3>. QED
      BY <2>2, <3>1
  <2>. QED
    BY <2>3, <2>4
<1>3. ASSUME NEW x \in Pairs(f) PROVE x \in Pairs(g) /\ x \notin D
  <2>1. PICK m \in LWP : \E n \in 1..f[m] : x = <<m, n>>
    BY PairsAre
  <2>2. PICK n \in 1..f[m] : x = <<m, n>>
    BY <2>1
  <2>3. n \in 1..g[m]
    BY <1>0
  <2>4. x \in Pairs(g)
    BY <2>2, <2>3, PairsAre
  <2>5. m = l => n \notin (f[l] + 1)..g[l]
    BY <1>0
  <2>. QED
    BY <2>2, <2>4, <2>5
<1>4. ASSUME NEW x \in D PROVE x \in Pairs(g)
  <2>1. PICK n \in (f[l] + 1)..g[l] : x = <<l, n>>
    OBVIOUS
  <2>2. n \in 1..g[l]
    BY <1>0
  <2>. QED
    BY <2>1, <2>2, PairsAre
<1>. HIDE DEF D
<1>5. Pairs(g) = Pairs(f) \cup D /\ Pairs(f) \cap D = {}
  BY <1>2, <1>3, <1>4
<1>6. Cardinality(Pairs(g)) = Cardinality(Pairs(f)) + Cardinality(D)
  BY <1>1, <1>5, PairsAddUp
<1>. QED
  BY <1>1, <1>6

(* When the share of one LWP changes, the sum changes as much.             *)
LEMMA PairsChange ==
  ASSUME NEW f \in [LWP -> Nat], NEW g \in [LWP -> Nat], NEW l \in LWP,
         \A m \in LWP : l # m => g[m] = f[m]
  PROVE  Cardinality(Pairs(g)) = Cardinality(Pairs(f)) + (g[l] - f[l])
<1>0. /\ f[l] \in Nat /\ g[l] \in Nat
      /\ Cardinality(Pairs(f)) \in Nat /\ Cardinality(Pairs(g)) \in Nat
  BY PairsFinite
<1>1. CASE f[l] =< g[l]
  BY <1>1, PairsGrow
<1>2. CASE g[l] =< f[l]
  <2>1. \A m \in LWP : l # m => f[m] = g[m]
    OBVIOUS
  <2>2. Cardinality(Pairs(f)) = Cardinality(Pairs(g)) + (f[l] - g[l])
    BY <1>2, <2>1, PairsGrow
  <2>. QED
    BY <1>0, <2>2
<1>. QED
  BY <1>0, <1>1, <1>2

(* When nobody owes anything, the sum is zero.                             *)
LEMMA PairsZero ==
  ASSUME NEW f \in [LWP -> Nat], \A l \in LWP : f[l] = 0
  PROVE  Cardinality(Pairs(f)) = 0
<1>1. Pairs(f) = {}
  <2>1. SUFFICES ASSUME NEW x \in Pairs(f) PROVE FALSE
    OBVIOUS
  <2>2. PICK l \in LWP : \E n \in 1..f[l] : x = <<l, n>>
    BY PairsAre
  <2>. QED
    BY <2>2
<1>. QED
  BY <1>1, FS_EmptySet

(* The LWPs of r, which are n, get one more each.                          *)
OneMore(f, g, n, r) ==
  /\ f \in [LWP -> Nat] /\ g \in [LWP -> Nat]
  /\ n \in Nat /\ r \in [1..n -> LWP] /\ \A i, j \in 1..n : r[i] = r[j] => i = j
  /\ \A m \in LWP : g[m] = IF \E i \in 1..n : r[i] = m THEN f[m] + 1 ELSE f[m]

(* Then the sum grows by n.                                                *)
LEMMA PairsOneMore ==
  ASSUME NEW f, NEW g, NEW n, NEW r, OneMore(f, g, n, r)
  PROVE  Cardinality(Pairs(g)) = Cardinality(Pairs(f)) + n
<1>. USE DEF OneMore
<1>. DEFINE D == {<<r[i], f[r[i]] + 1>> : i \in 1..n}
            b == [i \in 1..n |-> <<r[i], f[r[i]] + 1>>]
<1>0. \A m \in LWP : f[m] \in Nat /\ g[m] \in Nat
  OBVIOUS
<1>1. b \in Bijection(1..n, D)
  <2>1. b \in [1..n -> D]
    OBVIOUS
  <2>2. \A i, j \in 1..n : b[i] = b[j] => i = j
    OBVIOUS
  <2>3. \A x \in D : \E i \in 1..n : b[i] = x
    OBVIOUS
  <2>. QED
    BY <2>1, <2>2, <2>3 DEF Bijection, Injection, Surjection, IsInjective
<1>2. IsFiniteSet(1..n) /\ Cardinality(1..n) = n
  BY FS_Interval
<1>3. IsFiniteSet(D) /\ Cardinality(D) = n
  <2>. HIDE DEF D, b
  <2>. QED
    BY <1>1, <1>2, FS_Bijection DEF ExistsBijection
<1>4. ASSUME NEW x \in Pairs(g) PROVE x \in Pairs(f) \cup D
  <2>1. PICK m \in LWP : \E k \in 1..g[m] : x = <<m, k>>
    BY PairsAre
  <2>2. PICK k \in 1..g[m] : x = <<m, k>>
    BY <2>1
  <2>3. CASE k \in 1..f[m]
    BY <2>2, <2>3, PairsAre
  <2>4. CASE k \notin 1..f[m]
    <3>1. PICK i \in 1..n : r[i] = m
      BY <1>0, <2>4
    <3>2. g[m] = f[m] + 1
      BY <3>1
    <3>3. k = f[m] + 1
      BY <1>0, <2>4, <3>2
    <3>. QED
      BY <2>2, <3>1, <3>3
  <2>. QED
    BY <2>3, <2>4
<1>5. ASSUME NEW x \in Pairs(f) PROVE x \in Pairs(g) /\ x \notin D
  <2>1. PICK m \in LWP : \E k \in 1..f[m] : x = <<m, k>>
    BY PairsAre
  <2>2. PICK k \in 1..f[m] : x = <<m, k>>
    BY <2>1
  <2>3. g[m] = f[m] \/ g[m] = f[m] + 1
    OBVIOUS
  <2>4. k \in 1..g[m]
    BY <1>0, <2>3
  <2>5. x \in Pairs(g)
    BY <2>2, <2>4, PairsAre
  <2>6. k # f[m] + 1
    BY <1>0
  <2>. QED
    BY <2>2, <2>5, <2>6
<1>6. ASSUME NEW x \in D PROVE x \in Pairs(g)
  <2>1. PICK i \in 1..n : x = <<r[i], f[r[i]] + 1>>
    OBVIOUS
  <2>2. r[i] \in LWP /\ g[r[i]] = f[r[i]] + 1
    OBVIOUS
  <2>3. f[r[i]] + 1 \in 1..g[r[i]]
    BY <1>0, <2>2
  <2>. QED
    BY <2>1, <2>2, <2>3, PairsAre
<1>. HIDE DEF D
<1>7. Pairs(g) = Pairs(f) \cup D /\ Pairs(f) \cap D = {}
  BY <1>4, <1>5, <1>6
<1>. QED
  BY <1>3, <1>7, PairsAddUp

-----------------------------------------------------------------------------
(***************************************************************************)
(* The accounting of sl_pend, as long as the signals are caught and        *)
(* SIGWAITING is not sent.                                                 *)

(* Where an LWP has not slept, or has settled its sleeps.                  *)
Fresh == {"idle", "fast", "own", "fix", "held", "release", "recheckSpin", "recheckQueue", "retake",
          "deq", "dequeue", "deqdone", "wake", "s_again", "s_lmx", "s_issig", "s_fix", "s_own"}

(* L_SIGWOKE is set from the dequeueing by a signal until issig finds the  *)
(* signal, and an LWP that sleeps has counted this sleep.                  *)
CaughtOk(l) ==
  /\ sig[l] \in {"none", "caught"}
  /\ sigwoke[l] => sig[l] = "caught" /\ pc[l] \in {"s_asleep", "s_woken"} /\ stat[l] = "SRUN"
  /\ pc[l] = "s_woken" => sigwoke[l]
  /\ pc[l] \in Fresh => nsleeps[l] = 0
  /\ pc[l] \in {"asleep", "s_asleep", "s_woken", "s_fixpend"} => nsleeps[l] # 0
  /\ pc[l] \notin {"s_sigtoproc", "s_posted"}

PostCaught ==
  /\ post.pc # "idle" => post.kind = "caught"
  /\ post.pc \in {"fspin", "unsleep"} => sig[post.lwp] = "caught"

CaughtInv == (\A l \in LWP : CaughtOk(l)) /\ PostCaught

PendInv == CaughtInv /\ PendExact

(* A wakeup by sleep_unlock finds nobody whom a signal has woken.          *)
LEMMA WakeKeepsSigwoke ==
  ASSUME BaseInv, CaughtInv, NEW l \in LWP, UnlockWake(l)
  PROVE  /\ sigwoke' = sigwoke /\ UNCHANGED <<queue, nsleeps, sig, pend, fixpend, post>>
         /\ pc[l] = "wake" /\ pc'[l] \in {"idle", "wake"}
         /\ \A m \in LWP : stat[m] = "SRUN" => stat'[m] = "SRUN"
<1>. USE DEF BaseInv
<1>0. sigwoke \in [LWP -> BOOLEAN] /\ pc \in [LWP -> PlainPcs \cup SigPcs]
  BY DEF TypeInv, TypeOK
<1>1. UnlockWake(l) => Acts(l)
  BY DEF Acts, UnlockStep
<1>2. \A m \in LWP : l # m => pc'[m] = pc[m]
  BY <1>1, ActFrame
<1>3. PICK h \in LWP : /\ Dozing(h) /\ sigwoke' = [sigwoke EXCEPT ![h] = FALSE]
                       /\ stat'[h] = "SRUN" /\ \A m \in LWP : h # m => stat'[m] = stat[m]
  BY <1>2, WakeList
<1>4. ~sigwoke[h]
  BY <1>3 DEF Dozing, CaughtInv, CaughtOk
<1>5. sigwoke' = sigwoke
  BY <1>0, <1>3, <1>4
<1>6. UNCHANGED <<queue, nsleeps, sig, pend, fixpend, post>>
  BY DEF UnlockWake, lockVars
<1>7. pc[l] = "wake" /\ pc'[l] \in {"idle", "wake"}
  BY <1>0 DEF UnlockWake, Goto
<1>. QED
  BY <1>3, <1>5, <1>6, <1>7

(* What a step of an LWP leaves alone in the others.                       *)
LEMMA CaughtFrame ==
  ASSUME BaseInv, CaughtInv, NEW l \in LWP, Acts(l)
  PROVE  \A m \in LWP : l # m =>
           /\ nsleeps'[m] = nsleeps[m] /\ sig'[m] = sig[m] /\ (sigwoke'[m] <=> sigwoke[m])
           /\ stat[m] = "SRUN" => stat'[m] = "SRUN"
<1>0. /\ nsleeps \in [LWP -> Nat] /\ sigwoke \in [LWP -> BOOLEAN]
      /\ sig \in [LWP -> SignalKinds \cup {"none"}] /\ stat \in [LWP -> {"SSLEEP", "SRUN"}]
  BY DEF BaseInv, TypeInv, TypeOK
<1>. USE <1>0 DEF Goto, lockVars, lwpVars, sigVars
<1>1. CASE LockStart(l) \/ TryLock(l) \/ SigStart(l) \/ Disown(l)
  BY <1>1 DEF LockStart, TryLock, SigStart, Disown
<1>2. CASE PrivateLock(l) \/ UnlockStart(l) \/ Deliver(l)
  BY <1>2 DEF PrivateLock, UnlockStart, Deliver
<1>3. CASE LockFast(l) \/ LockTry(l) \/ LockLmutex(l) \/ LockFspin(l)
  BY <1>3 DEF LockFast, LockTry, LockLmutex, LockFspin
<1>4. CASE LockRaced(l) \/ LockUnavail(l) \/ LockResume(l)
  BY <1>4 DEF LockRaced, LockUnavail, LockResume
<1>5. CASE LockSettle(l) \/ LockFix(l) \/ RecordOwner(l)
  BY <1>5 DEF LockSettle, LockFix, RecordOwner, ApplyFix
<1>6. CASE UnlockRelease(l) \/ UnlockRecheckSpin(l) \/ UnlockRecheckQueue(l) \/ UnlockRetake(l)
  BY <1>6 DEF UnlockRelease, UnlockRecheckSpin, UnlockRecheckQueue, UnlockRetake
<1>7. CASE DequeueLock(l) \/ DequeueUnlock(l)
  BY <1>7 DEF DequeueLock, DequeueUnlock
<1>8. CASE SigAgain(l) \/ SigLmutex(l) \/ SigFixpend(l)
  BY <1>8 DEF SigAgain, SigLmutex, SigFixpend
<1>9. CASE SigIssig(l)
  BY <1>9 DEF SigIssig, Signalled, Stopped, NoSignal
<1>10. CASE SigWoken(l)
  BY <1>10 DEF SigWoken, Signalled, Stopped, NoSignal
<1>11. CASE SigAcquire(l) \/ SigToProc(l) \/ SigPosted(l)
  BY <1>11 DEF SigAcquire, SigToProc, SigPosted
<1>12. CASE SigTake(l) \/ SigFix(l) \/ SigOwner(l) \/ SigUnavail(l)
  BY <1>12 DEF SigTake, SigFix, SigOwner, SigUnavail, ApplyFix
<1>13. CASE SigFspin(l) \/ SigRaced(l) \/ SigNotRaced(l)
  BY <1>13 DEF SigFspin, SigRaced, SigNotRaced
<1>14. CASE SigResume(l) \/ SigRelock(l)
  BY <1>14 DEF SigResume, SigRelock
<1>15. CASE LockSwtch(l) \/ SigSwtch(l)
  BY <1>15 DEF LockSwtch, SigSwtch
<1>16. CASE LockEnqueue(l) \/ SigEnqueue(l)
  BY <1>16 DEF LockEnqueue, SigEnqueue
<1>17. CASE Dequeue(l)
  BY <1>17, Zenon DEF Dequeue
<1>18. CASE UnlockWake(l)
  BY <1>18, WakeKeepsSigwoke
<1>. QED
  BY <1>1, <1>2, <1>3, <1>4, <1>5, <1>6, <1>7, <1>8, <1>9, <1>10, <1>11, <1>12, <1>13, <1>14, <1>15, <1>16, <1>17, <1>18
     DEF Acts, Start, LockStep, UnlockStep, SigStep

(* And in itself.                                                          *)
LEMMA CaughtSelf ==
  ASSUME OnlyCaught', BaseInv, CaughtInv, NEW l \in LWP, Acts(l)
  PROVE  CaughtOk(l)' /\ post' = post
<1>0. /\ nsleeps \in [LWP -> Nat] /\ sigwoke \in [LWP -> BOOLEAN]
      /\ sig \in [LWP -> SignalKinds \cup {"none"}] /\ stat \in [LWP -> {"SSLEEP", "SRUN"}]
      /\ pc \in [LWP -> PlainPcs \cup SigPcs]
      /\ CaughtOk(l) /\ pc'[l] \notin {"s_sigtoproc", "s_posted"}
  BY DEF OnlyCaught, CaughtInv, BaseInv, TypeInv, TypeOK
<1>. USE <1>0 DEF Goto, lockVars, lwpVars, sigVars, CaughtOk, Fresh
<1>1. CASE LockStart(l) \/ TryLock(l) \/ SigStart(l) \/ Disown(l)
  BY <1>1 DEF LockStart, TryLock, SigStart, Disown
<1>2. CASE PrivateLock(l) \/ UnlockStart(l) \/ Deliver(l)
  BY <1>2 DEF PrivateLock, UnlockStart, Deliver
<1>3. CASE LockFast(l) \/ LockTry(l) \/ LockLmutex(l) \/ LockFspin(l)
  BY <1>3 DEF LockFast, LockTry, LockLmutex, LockFspin
<1>4. CASE LockRaced(l) \/ LockUnavail(l) \/ LockResume(l)
  BY <1>4 DEF LockRaced, LockUnavail, LockResume
<1>5. CASE LockSettle(l) \/ LockFix(l) \/ RecordOwner(l)
  BY <1>5 DEF LockSettle, LockFix, RecordOwner, ApplyFix
<1>6. CASE UnlockRelease(l) \/ UnlockRecheckSpin(l) \/ UnlockRecheckQueue(l) \/ UnlockRetake(l)
  BY <1>6 DEF UnlockRelease, UnlockRecheckSpin, UnlockRecheckQueue, UnlockRetake
<1>7. CASE DequeueLock(l) \/ DequeueUnlock(l)
  BY <1>7 DEF DequeueLock, DequeueUnlock
<1>8. CASE SigAgain(l) \/ SigLmutex(l) \/ SigFixpend(l)
  BY <1>8 DEF SigAgain, SigLmutex, SigFixpend
<1>9. CASE SigIssig(l)
  BY <1>9 DEF SigIssig, Signalled, Stopped, NoSignal
<1>10. CASE SigWoken(l)
  BY <1>10 DEF SigWoken, Signalled, Stopped, NoSignal
<1>11. CASE SigAcquire(l) \/ SigToProc(l) \/ SigPosted(l)
  BY <1>11 DEF SigAcquire, SigToProc, SigPosted
<1>12. CASE SigTake(l) \/ SigFix(l) \/ SigOwner(l) \/ SigUnavail(l)
  BY <1>12 DEF SigTake, SigFix, SigOwner, SigUnavail, ApplyFix
<1>13. CASE SigFspin(l) \/ SigRaced(l) \/ SigNotRaced(l)
  BY <1>13 DEF SigFspin, SigRaced, SigNotRaced
<1>14. CASE SigResume(l) \/ SigRelock(l)
  BY <1>14 DEF SigResume, SigRelock
<1>15. CASE LockSwtch(l) \/ SigSwtch(l)
  BY <1>15 DEF LockSwtch, SigSwtch
<1>16. CASE LockEnqueue(l) \/ SigEnqueue(l)
  BY <1>16 DEF LockEnqueue, SigEnqueue
<1>17. CASE Dequeue(l)
  <2>1. /\ UNCHANGED <<nsleeps, stat, sigVars>> /\ pc[l] = "dequeue" /\ pc'[l] = "deqdone"
    <3>1. UNCHANGED <<nsleeps, stat, sigVars>> /\ pc' = [pc EXCEPT ![l] = "deqdone"]
      BY <1>17, Zenon DEF Dequeue
    <3>2. pc[l] = "dequeue"
      BY <1>17, Zenon DEF Dequeue
    <3>. QED
      BY <3>1, <3>2
  <2>. QED
    BY <2>1
<1>18. CASE UnlockWake(l)
  BY <1>18, WakeKeepsSigwoke
<1>. QED
  BY <1>1, <1>2, <1>3, <1>4, <1>5, <1>6, <1>7, <1>8, <1>9, <1>10, <1>11, <1>12, <1>13, <1>14, <1>15, <1>16, <1>17, <1>18
     DEF Acts, Start, LockStep, UnlockStep, SigStep

(* So this part of the invariant is kept.                                  *)
LEMMA StepCaught ==
  ASSUME OnlyCaught', BaseInv, CaughtInv, [Next]_vars
  PROVE  CaughtInv'
<1>0. /\ pc \in [LWP -> PlainPcs \cup SigPcs] /\ stat \in [LWP -> {"SSLEEP", "SRUN"}]
      /\ sigwoke \in [LWP -> BOOLEAN] /\ sig \in [LWP -> SignalKinds \cup {"none"}]
      /\ post \in [pc : {"idle", "lock", "fspin", "unsleep"}, lwp : LWP \cup {None},
                   kind : SignalKinds \cup {"none"}]
      /\ TypeInv /\ PostInv /\ ListInv
  BY DEF BaseInv, TypeInv, TypeOK
<1>1. ASSUME NEW l \in LWP, Acts(l) PROVE CaughtInv'
  <2>1. CaughtOk(l)' /\ post' = post
    BY <1>1, CaughtSelf
  <2>2. ASSUME NEW m \in LWP, l # m PROVE CaughtOk(m)'
    BY <1>0, <1>1, <2>2, ActFrame, CaughtFrame DEF CaughtInv, CaughtOk
  <2>3. post.pc \in {"fspin", "unsleep"} => sig'[post.lwp] = sig[post.lwp]
    <3>1. SUFFICES ASSUME post.pc \in {"fspin", "unsleep"} PROVE sig'[post.lwp] = sig[post.lwp]
      OBVIOUS
    <3>2. PICK x \in LWP : x = post.lwp
      BY <1>0, <3>1 DEF PostInv
    <3>3. pc[x] = "s_asleep" /\ stat[x] = "SSLEEP"
      BY <1>0, <3>1, <3>2 DEF PostInv
    <3>4. l # x
      BY <1>0, <1>1, <3>3, ActFrame
    <3>. QED
      BY <1>1, <3>2, <3>4, CaughtFrame
  <2>4. PostCaught'
    BY <2>1, <2>3 DEF CaughtInv, PostCaught
  <2>. QED
    BY <2>1, <2>2, <2>4 DEF CaughtInv
<1>2. ASSUME NEW x \in LWP, NEW kind \in Signals, PostSignal(x, kind) PROVE CaughtInv'
  <2>1. /\ post' = [pc |-> "lock", lwp |-> x, kind |-> kind] /\ kind = "caught"
        /\ UNCHANGED <<sig, sigwoke, pc, stat, nsleeps>>
    BY <1>2 DEF PostSignal, OnlyCaught, lwpVars
  <2>. QED
    BY <2>1 DEF CaughtInv, CaughtOk, PostCaught
<1>3. ASSUME PostLock PROVE CaughtInv'
  <2>1. PICK x \in LWP : x = post.lwp
    BY <1>0, <1>3 DEF PostLock, PostInv
  <2>2. post.kind = "caught"
    BY <1>3 DEF PostLock, CaughtInv, PostCaught
  <2>3. /\ sig' = [sig EXCEPT ![x] = IF sig[x] = "none" THEN "caught" ELSE sig[x]]
        /\ UNCHANGED <<sigwoke, pc, stat, nsleeps>>
        /\ post' = [post EXCEPT !.pc = "fspin"] \/ post' = Idle
    BY <1>3, <2>1, <2>2 DEF PostLock
  <2>4. sig'[x] = "caught" /\ \A m \in LWP : x # m => sig'[m] = sig[m]
    BY <1>0, <2>3 DEF CaughtInv, CaughtOk
  <2>5. \A m \in LWP : CaughtOk(m)'
    BY <2>3, <2>4 DEF CaughtInv, CaughtOk
  <2>6. PostCaught'
    BY <1>0, <2>1, <2>2, <2>3, <2>4 DEF PostCaught, Idle
  <2>. QED
    BY <2>5, <2>6 DEF CaughtInv
<1>4. ASSUME PostFspin PROVE CaughtInv'
  <2>1. /\ post.pc = "fspin" /\ post' = [post EXCEPT !.pc = "unsleep"]
        /\ UNCHANGED <<sig, sigwoke, pc, stat, nsleeps>>
    BY <1>4 DEF PostFspin, lwpVars
  <2>2. post'.lwp = post.lwp /\ post'.kind = post.kind
    BY <1>0, <2>1
  <2>. QED
    BY <2>1, <2>2 DEF CaughtInv, CaughtOk, PostCaught
<1>5. ASSUME Unsleep PROVE CaughtInv'
  <2>1. PICK x \in LWP : /\ x = post.lwp /\ stat[x] = "SSLEEP" /\ pc[x] = "s_asleep"
                         /\ \A m \in LWP : x # m => stat'[m] = stat[m]
                         /\ \/ UNCHANGED <<queue, stat, sigwoke>>
                            \/ stat'[x] = "SRUN" /\ sigwoke' = [sigwoke EXCEPT ![x] = TRUE]
    BY <1>0, <1>5, UnsleepList
  <2>2. /\ post.pc = "unsleep" /\ post' = Idle /\ UNCHANGED <<sig, pc, nsleeps>>
    BY <1>5 DEF Unsleep
  <2>3. sig[x] = "caught"
    BY <2>1, <2>2 DEF CaughtInv, PostCaught
  <2>4. \A m \in LWP : x # m => (sigwoke'[m] <=> sigwoke[m])
    BY <1>0, <2>1
  <2>5. \A m \in LWP : CaughtOk(m)'
    BY <2>1, <2>2, <2>3, <2>4 DEF CaughtInv, CaughtOk
  <2>6. PostCaught'
    BY <2>2 DEF PostCaught, Idle
  <2>. QED
    BY <2>5, <2>6 DEF CaughtInv
<1>6. ASSUME UNCHANGED vars PROVE CaughtInv'
  <2>1. UNCHANGED <<sig, sigwoke, pc, stat, nsleeps, post>>
    BY <1>6 DEF vars, lwpVars, sigVars
  <2>. QED
    BY <2>1 DEF CaughtInv, CaughtOk, PostCaught
<1>. QED
  BY <1>1, <1>2, <1>3, <1>4, <1>5, <1>6, NextIs DEF PostStep

(* What each LWP owes.                                                     *)
Debts == [l \in LWP |-> Owed(l)]

(* No LWP owes less than nothing: on the queue it sleeps or is about to,   *)
(* and then L_SIGWOKE is not set.                                          *)
LEMMA DebtsAreNat ==
  ASSUME TypeInv, ListInv, CaughtInv
  PROVE  Debts \in [LWP -> Nat]
<1>1. SUFFICES ASSUME NEW l \in LWP PROVE Owed(l) \in Nat
  BY DEF Debts
<1>2. nsleeps[l] \in Nat /\ stat[l] \in {"SSLEEP", "SRUN"} /\ CaughtOk(l)
  BY DEF TypeInv, TypeOK, CaughtInv
<1>3. l \in InSeq(queue) =>
        pc[l] \in {"sleep", "s_sleep"} \/ (pc[l] \in {"asleep", "s_asleep"} /\ ~sigwoke[l])
  BY <1>2 DEF ListInv, Listed, Dozing, CaughtOk
<1>. QED
  BY <1>2, <1>3 DEF Owed, CaughtOk

(* The same after a step.                                                  *)
LEMMA DebtsAreNatNext ==
  ASSUME TypeInv', ListInv', CaughtInv'
  PROVE  Debts' \in [LWP -> Nat]
<1>1. SUFFICES ASSUME NEW l \in LWP PROVE Owed(l)' \in Nat
  BY DEF Debts
<1>2. nsleeps'[l] \in Nat /\ stat'[l] \in {"SSLEEP", "SRUN"} /\ CaughtOk(l)'
  BY DEF TypeInv, TypeOK, CaughtInv
<1>3. l \in InSeq(queue') =>
        pc'[l] \in {"sleep", "s_sleep"} \/ (pc'[l] \in {"asleep", "s_asleep"} /\ ~sigwoke'[l])
  BY <1>2 DEF ListInv, Listed, Dozing, CaughtOk
<1>. QED
  BY <1>2, <1>3 DEF Owed, CaughtOk

(* The property as a sum.                                                  *)
LEMMA PendInTerms ==
  ASSUME Debts \in [LWP -> Nat]
  PROVE  PendExact <=> pend - fixpend = Cardinality(Pairs(Debts))
<1>1. \A l \in LWP : Debts[l] = Owed(l) /\ Owed(l) \in Nat
  BY DEF Debts
<1>2. Pairs(Debts) = UNION {{l} \X (1..Owed(l)) : l \in LWP}
  BY <1>1 DEF Pairs
<1>. QED
  BY <1>1, <1>2 DEF PendExact

(* And after a step.                                                       *)
LEMMA PendInTermsNext ==
  ASSUME Debts' \in [LWP -> Nat]
  PROVE  PendExact' <=> pend' - fixpend' = Cardinality(Pairs(Debts'))
<1>1. \A l \in LWP : Debts'[l] = Owed(l)' /\ Owed(l)' \in Nat
  BY DEF Debts
<1>2. Pairs(Debts') = UNION {{l} \X (1..Owed(l)') : l \in LWP}
  BY <1>1 DEF Pairs
<1>. QED
  BY <1>1, <1>2 DEF PendExact

(* What an LWP changes in its own debt is counted in sl_pend or sl_fixpend.*)
Accounts(l) ==
  /\ \A m \in LWP : l # m => (m \in InSeq(queue') <=> m \in InSeq(queue))
  /\ pend' - fixpend' = (pend - fixpend) + (Owed(l)' - Owed(l))

(* So every step of an LWP does but sleep_dequeue.                         *)
LEMMA ActAccounts ==
  ASSUME OnlyCaught', BaseInv, CaughtInv, NEW l \in LWP, Acts(l), ~Dequeue(l)
  PROVE  Accounts(l)
<1>0. /\ nsleeps \in [LWP -> Nat] /\ sigwoke \in [LWP -> BOOLEAN]
      /\ pc \in [LWP -> PlainPcs \cup SigPcs] /\ pend \in Int /\ fixpend \in Int
      /\ CaughtOk(l) /\ pc'[l] \notin {"s_sigtoproc", "s_posted"} /\ TypeInv /\ ListInv
      /\ pc[l] \notin {"sleep", "s_sleep", "asleep", "s_asleep"} => l \notin InSeq(queue)
  BY ListFacts DEF OnlyCaught, CaughtInv, BaseInv, TypeInv, TypeOK, Listed
<1>. USE <1>0 DEF Goto, lockVars, lwpVars, sigVars, CaughtOk, Fresh, Owed, Accounts
<1>1. CASE LockStart(l) \/ TryLock(l) \/ SigStart(l) \/ Disown(l)
  BY <1>1 DEF LockStart, TryLock, SigStart, Disown
<1>2. CASE PrivateLock(l) \/ UnlockStart(l) \/ Deliver(l)
  <2>1. CASE PrivateLock(l)
    BY <2>1 DEF PrivateLock
  <2>2. CASE UnlockStart(l)
    BY <2>2 DEF UnlockStart
  <2>3. CASE Deliver(l)
    BY <2>3 DEF Deliver
  <2>. QED
    BY <1>2, <2>1, <2>2, <2>3
<1>3. CASE LockFast(l) \/ LockTry(l) \/ LockLmutex(l) \/ LockFspin(l)
  BY <1>3 DEF LockFast, LockTry, LockLmutex, LockFspin
<1>4. CASE LockRaced(l) \/ LockUnavail(l) \/ LockResume(l)
  BY <1>4 DEF LockRaced, LockUnavail, LockResume
<1>5. CASE LockSettle(l) \/ LockFix(l) \/ RecordOwner(l)
  BY <1>5 DEF LockSettle, LockFix, RecordOwner, ApplyFix
<1>6. CASE UnlockRelease(l) \/ UnlockRecheckSpin(l) \/ UnlockRecheckQueue(l) \/ UnlockRetake(l)
  BY <1>6 DEF UnlockRelease, UnlockRecheckSpin, UnlockRecheckQueue, UnlockRetake
<1>7. CASE DequeueLock(l) \/ DequeueUnlock(l)
  <2>1. /\ UNCHANGED <<nsleeps, pend, fixpend, queue, sigwoke>>
        /\ pc[l] \in {"deq", "deqdone"} /\ pc'[l] \in {"dequeue", "idle", "wake"}
    BY <1>7 DEF DequeueLock, DequeueUnlock
  <2>. QED
    BY <2>1
<1>8. CASE SigAgain(l) \/ SigLmutex(l) \/ SigFixpend(l)
  BY <1>8 DEF SigAgain, SigLmutex, SigFixpend
<1>9. CASE SigIssig(l)
  BY <1>9 DEF SigIssig, Signalled, Stopped, NoSignal
<1>10. CASE SigWoken(l)
  BY <1>10 DEF SigWoken, Signalled, Stopped, NoSignal
<1>11. CASE SigAcquire(l) \/ SigToProc(l) \/ SigPosted(l)
  BY <1>11 DEF SigAcquire, SigToProc, SigPosted
<1>12. CASE SigTake(l) \/ SigFix(l) \/ SigOwner(l) \/ SigUnavail(l)
  BY <1>12 DEF SigTake, SigFix, SigOwner, SigUnavail, ApplyFix
<1>13. CASE SigFspin(l) \/ SigRaced(l) \/ SigNotRaced(l)
  BY <1>13 DEF SigFspin, SigRaced, SigNotRaced
<1>14. CASE SigResume(l) \/ SigRelock(l)
  BY <1>14 DEF SigResume, SigRelock
<1>15. CASE LockSwtch(l) \/ SigSwtch(l)
  BY <1>15 DEF LockSwtch, SigSwtch
<1>16. CASE LockEnqueue(l) \/ SigEnqueue(l)
  <2>1. \A m \in LWP : l # m => pc'[m] = pc[m]
    BY ActFrame
  <2>2. /\ l \notin InSeq(queue) /\ InSeq(queue') = InSeq(queue) \cup {l}
        /\ UNCHANGED <<nsleeps, pend, fixpend, sigwoke>>
        /\ \/ pc[l] = "ins" /\ pc'[l] = "sleep"
           \/ pc[l] = "s_ins" /\ pc'[l] = "s_sleep"
    BY <1>16, <2>1, EnqueueList DEF Enqueues
  <2>. QED
    BY <2>2
<1>17. CASE UnlockWake(l)
  <2>1. /\ sigwoke' = sigwoke /\ UNCHANGED <<queue, nsleeps, pend, fixpend>>
        /\ pc[l] = "wake" /\ pc'[l] \in {"idle", "wake"}
    BY <1>17, WakeKeepsSigwoke
  <2>. QED
    BY <2>1
<1>. QED
  BY <1>1, <1>2, <1>3, <1>4, <1>5, <1>6, <1>7, <1>8, <1>9, <1>10, <1>11, <1>12, <1>13, <1>14, <1>15, <1>16, <1>17
     DEF Acts, Start, LockStep, UnlockStep, SigStep

(* Together with what they leave alone in the others.                      *)
LEMMA ActDebts ==
  ASSUME OnlyCaught', BaseInv, CaughtInv, NEW l \in LWP, Acts(l), ~Dequeue(l)
  PROVE  /\ pend' - fixpend' = (pend - fixpend) + (Debts'[l] - Debts[l])
         /\ \A m \in LWP : l # m => Debts'[m] = Debts[m]
<1>1. TypeInv
  BY DEF BaseInv
<1>2. ASSUME NEW m \in LWP, l # m PROVE Owed(m)' = Owed(m)
  BY <1>1, <1>2, ActFrame, CaughtFrame, ActAccounts DEF Accounts, Owed
<1>3. pend' - fixpend' = (pend - fixpend) + (Owed(l)' - Owed(l))
  BY ActAccounts DEF Accounts
<1>. QED
  BY <1>2, <1>3 DEF Debts

(* sleep_dequeue adds one for each LWP that it takes from the queue.       *)
LEMMA DequeueDebts ==
  ASSUME BaseInv, CaughtInv, NEW l \in LWP, Dequeue(l),
         Debts \in [LWP -> Nat], Debts' \in [LWP -> Nat]
  PROVE  pend' - fixpend' - (pend - fixpend) = Cardinality(Pairs(Debts')) - Cardinality(Pairs(Debts))
<1>0. /\ TypeInv /\ ListInv /\ nsleeps \in [LWP -> Nat] /\ sigwoke \in [LWP -> BOOLEAN]
      /\ pc \in [LWP -> PlainPcs \cup SigPcs] /\ pend \in Int /\ fixpend \in Int
      /\ queue \in Seq(LWP)
  BY DEF BaseInv, TypeInv, TypeOK
<1>1. PICK n, r : CutAt(queue, n, r, queue') /\ pend' = pend + n - fixpend
  BY <1>0, DequeueCut
<1>2. /\ UNCHANGED <<nsleeps, sigwoke>> /\ fixpend' = 0
      /\ pc[l] = "dequeue" /\ pc' = [pc EXCEPT ![l] = "deqdone"]
  BY Zenon DEF Dequeue, Goto, sigVars
<1>3. /\ r \in Seq(LWP) /\ Distinct(r) /\ InSeq(r) \cup InSeq(queue') = InSeq(queue)
      /\ \A x \in InSeq(r) : x \notin InSeq(queue')
  BY <1>1, Split
<1>4. n \in Nat /\ r \in [1..n -> LWP] /\ Len(r) = n
  <2>1. Len(queue) \in Nat
    BY <1>0, LenProperties
  <2>2. n \in Nat /\ r \in [1..n -> LWP]
    BY <1>1, <2>1 DEF CutAt
  <2>. QED
    BY <1>3, <2>2, LenProperties
<1>5. \A i, j \in 1..n : r[i] = r[j] => i = j
  BY <1>3, <1>4 DEF Distinct
<1>6. \A m \in LWP : Debts'[m] = IF \E i \in 1..n : r[i] = m THEN Debts[m] + 1 ELSE Debts[m]
  <2>1. SUFFICES ASSUME NEW m \in LWP
                 PROVE  Owed(m)' = IF m \in InSeq(r) THEN Owed(m) + 1 ELSE Owed(m)
    BY <1>4 DEF Debts, InSeq
  <2>2. /\ pc'[m] \in {"sleep", "s_sleep"} <=> pc[m] \in {"sleep", "s_sleep"}
        /\ \/ pc'[m] \in {"s_woken", "s_fixpend"} \/ (pc'[m] = "s_asleep" /\ sigwoke'[m])
           <=> \/ pc[m] \in {"s_woken", "s_fixpend"} \/ (pc[m] = "s_asleep" /\ sigwoke[m])
    BY <1>0, <1>2
  <2>. QED
    BY <1>0, <1>2, <1>3, <2>2 DEF Owed
<1>7. Cardinality(Pairs(Debts')) = Cardinality(Pairs(Debts)) + n
  <2>1. OneMore(Debts, Debts', n, r)
    BY <1>4, <1>5, <1>6, Zenon DEF OneMore
  <2>. QED
    BY <2>1, PairsOneMore, Zenon
<1>8. Cardinality(Pairs(Debts)) \in Nat
  BY PairsFinite
<1>. QED
  BY <1>0, <1>1, <1>2, <1>4, <1>7, <1>8

(* sleep_unsleep takes a sleeper off the queue and sets L_SIGWOKE, which   *)
(* leaves its debt as it is.                                               *)
LEMMA PostDebts ==
  ASSUME OnlyCaught', BaseInv, CaughtInv,
         (\E x \in LWP, kind \in Signals : PostSignal(x, kind)) \/ PostStep
  PROVE  UNCHANGED <<pend, fixpend>> /\ \A m \in LWP : Owed(m)' = Owed(m)
<1>0. /\ TypeInv /\ PostInv /\ ListInv /\ nsleeps \in [LWP -> Nat] /\ sigwoke \in [LWP -> BOOLEAN]
  BY DEF BaseInv, TypeInv, TypeOK
<1>1. CASE (\E x \in LWP, kind \in Signals : PostSignal(x, kind)) \/ PostLock \/ PostFspin
  <2>1. UNCHANGED <<pend, fixpend, nsleeps, queue, pc, sigwoke>>
    BY <1>1 DEF PostSignal, PostLock, PostFspin, lockVars, lwpVars
  <2>. QED
    BY <2>1 DEF Owed
<1>2. CASE Unsleep
  <2>1. UNCHANGED <<pend, fixpend, nsleeps, pc>>
    BY <1>2 DEF Unsleep
  <2>2. PICK x \in LWP : /\ stat[x] = "SSLEEP" /\ pc[x] = "s_asleep"
                         /\ \/ UNCHANGED <<queue, stat, sigwoke>>
                            \/ /\ x \in InSeq(queue) /\ InSeq(queue') = InSeq(queue) \ {x}
                               /\ sigwoke' = [sigwoke EXCEPT ![x] = TRUE]
    BY <1>0, <1>2, UnsleepList
  <2>3. ~sigwoke[x]
    BY <2>2 DEF CaughtInv, CaughtOk
  <2>4. CASE UNCHANGED <<queue, stat, sigwoke>>
    BY <2>1, <2>4 DEF Owed
  <2>5. CASE /\ x \in InSeq(queue) /\ InSeq(queue') = InSeq(queue) \ {x}
             /\ sigwoke' = [sigwoke EXCEPT ![x] = TRUE]
    <3>1. Owed(x)' = Owed(x)
      BY <1>0, <2>1, <2>2, <2>3, <2>5 DEF Owed
    <3>2. ASSUME NEW m \in LWP, m # x PROVE Owed(m)' = Owed(m)
      BY <1>0, <2>1, <2>5, <3>2 DEF Owed
    <3>. QED
      BY <2>1, <3>1, <3>2
  <2>. QED
    BY <2>2, <2>4, <2>5
<1>. QED
  BY <1>1, <1>2 DEF PostStep

(* sl_pend stays exact.                                                    *)
LEMMA StepPend ==
  ASSUME OnlyCaught', BaseInv, BaseInv', PendInv, [Next]_vars
  PROVE  PendInv'
<1>1. CaughtInv /\ CaughtInv'
  BY StepCaught DEF PendInv
<1>2. Debts \in [LWP -> Nat] /\ Debts' \in [LWP -> Nat]
  BY <1>1, DebtsAreNat, DebtsAreNatNext DEF BaseInv
<1>3. pend - fixpend = Cardinality(Pairs(Debts))
  BY <1>2, PendInTerms DEF PendInv
<1>4. /\ pend \in Int /\ fixpend \in Int /\ pend' \in Int /\ fixpend' \in Int
      /\ Cardinality(Pairs(Debts)) \in Nat /\ Cardinality(Pairs(Debts')) \in Nat
  BY <1>2, PairsFinite DEF BaseInv, TypeInv, TypeOK
<1>5. SUFFICES pend' - fixpend' = Cardinality(Pairs(Debts'))
  BY <1>1, <1>2, PendInTermsNext DEF PendInv
<1>6. ASSUME NEW l \in LWP, Acts(l), ~Dequeue(l)
      PROVE  pend' - fixpend' = Cardinality(Pairs(Debts'))
  <2>1. /\ pend' - fixpend' = (pend - fixpend) + (Debts'[l] - Debts[l])
        /\ \A m \in LWP : l # m => Debts'[m] = Debts[m]
    BY <1>1, <1>6, ActDebts
  <2>2. Cardinality(Pairs(Debts')) = Cardinality(Pairs(Debts)) + (Debts'[l] - Debts[l])
    BY <1>2, <2>1, PairsChange
  <2>. QED
    BY <1>3, <2>1, <2>2
<1>7. ASSUME NEW l \in LWP, Dequeue(l)
      PROVE  pend' - fixpend' = Cardinality(Pairs(Debts'))
  <2>1. pend' - fixpend' - (pend - fixpend) = Cardinality(Pairs(Debts')) - Cardinality(Pairs(Debts))
    BY <1>1, <1>2, <1>7, DequeueDebts
  <2>. QED
    BY <1>3, <1>4, <2>1
<1>8. ASSUME UNCHANGED <<pend, fixpend>>, \A m \in LWP : Owed(m)' = Owed(m)
      PROVE  pend' - fixpend' = Cardinality(Pairs(Debts'))
  BY <1>3, <1>8 DEF Debts
<1>9. CASE UNCHANGED vars
  <2>1. UNCHANGED <<pend, fixpend, nsleeps, queue, pc, sigwoke>>
    BY <1>9 DEF vars, lockVars, lwpVars, sigVars
  <2>2. \A m \in LWP : Owed(m)' = Owed(m)
    BY <2>1 DEF Owed
  <2>. QED
    BY <1>8, <2>1, <2>2
<1>10. CASE (\E x \in LWP, kind \in Signals : PostSignal(x, kind)) \/ PostStep
  BY <1>1, <1>8, <1>10, PostDebts
<1>. QED
  BY <1>6, <1>7, <1>9, <1>10, NextIs

(* Nobody has slept at first.                                              *)
LEMMA InitPend == Init => PendInv
<1>. SUFFICES ASSUME Init PROVE PendInv
  OBVIOUS
<1>1. /\ queue = <<>> /\ pc = [l \in LWP |-> "idle"] /\ nsleeps = [l \in LWP |-> 0]
      /\ sigwoke = [l \in LWP |-> FALSE] /\ sig = [l \in LWP |-> "none"]
      /\ pend = 0 /\ fixpend = 0 /\ post = Idle
  BY Zenon DEF Init
<1>2. InSeq(queue) = {}
  BY <1>1, EmptySeq, EmptyInSeq
<1>3. CaughtInv
  BY <1>1 DEF CaughtInv, CaughtOk, PostCaught, Idle
<1>4. \A l \in LWP : Debts[l] = 0
  BY <1>1, <1>2 DEF Debts, Owed
<1>5. Debts \in [LWP -> Nat]
  BY <1>4 DEF Debts
<1>6. PendExact
  BY <1>1, <1>4, <1>5, PairsZero, PendInTerms
<1>. QED
  BY <1>3, <1>6 DEF PendInv

(* sl_pend, less the correction that is due, is exactly the number of      *)
(* sleeps that sleep_dequeue has ended and whose LWPs have not subtracted  *)
(* them yet, whoever of them leaves with a signal: in every behaviour in   *)
(* which the signals posted are caught and SIGWAITING is not sent.  (A job *)
(* control stop and SIGWAITING make the two part.)                         *)
THEOREM PendIsExact == Spec => PendKept
<1>1. Init => PendInv
  BY InitPend
<1>2. OnlyCaught' /\ BaseInv /\ BaseInv' /\ PendInv /\ [Next]_vars => PendInv'
  BY StepPend
<1>3. PendInv => PendExact
  BY DEF PendInv
<1>4. Spec => []BaseInv
  BY BaseInvariance
<1>. QED
  BY <1>1, <1>2, <1>3, <1>4, PTL DEF Spec, PendKept

=============================================================================
