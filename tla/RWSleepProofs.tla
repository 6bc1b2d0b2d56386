---------------------------- MODULE RWSleepProofs ----------------------------
(***************************************************************************)
(* Proofs about RWSleep for every finite set of LWPs: rw_read and rw_pend  *)
(* are exact, rw_mode tells a holder how it has the lock, an LWP that      *)
(* sleeps for the lock is due to be woken, and the lock is a reader-writer *)
(* lock.                                                                   *)
(***************************************************************************)
EXTENDS RWSleep, FiniteSetTheorems, SequenceTheorems, WellFoundedInduction, TLAPS

-----------------------------------------------------------------------------
(***************************************************************************)
(* The inductive invariant.                                                *)

(* Where only a reader goes, where the LWP has no call, and the others.    *)
ReaderPcs == {"peek", "join", "joinAvail", "joinMode", "joinUndo", "joined", "chkBusy", "chkMode",
              "lateAvail", "lateMode", "lateUndo", "lastSpin", "lastRead", "unset", "againSpin",
              "againRead", "againMode", "shared", "sharedTest", "leave"}
QuietPcs  == {"idle", "recheckSpin", "recheckQueue", "retake", "deqdone", "wake"}
CallPcs   == {"try", "mode", "settle", "held", "fsp", "chk", "ins", "sleep", "asleep", "free", "busy",
              "release"}
Pcs       == ReaderPcs \cup QuietPcs \cup CallPcs \cup {"deq", "dequeue"}

TypeInv ==
  /\ avail \in BOOLEAN /\ mode \in {"UNLOCKED", "READ", "WRITE", "BUSY"}
  /\ read \in Int /\ fspin \in LWP \cup {None}
  /\ pc \in [LWP -> Pcs]
  /\ call \in [LWP -> {"none", "rdlock", "tryrdlock", "wrlock", "trywrlock"}]
  /\ \A l \in LWP : /\ pc[l] \in QuietPcs => call[l] = "none"
                    /\ pc[l] \in ReaderPcs \cup CallPcs => call[l] # "none"
                    /\ pc[l] \in ReaderPcs => Reading(l)

(* rw_fspin is held over its sections, so one LWP at a time is in one.     *)
InSection(l) == pc[l] \in {"joinAvail", "joinMode", "joinUndo", "joined", "chk", "chkBusy", "chkMode",
                           "lateAvail", "lateMode", "lateUndo", "ins", "sharedTest", "leave",
                           "dequeue", "deqdone"}

SectionInv == \A l \in LWP : InSection(l) => fspin = l

(* Who has the lock to itself: a writer, the LWP that has just taken       *)
(* rw_avail, and one that will set it.                                     *)
Alone(l) == Has(l) /\ (Writing(l) \/ pc[l] \in {"chkBusy", "mode", "free", "busy", "release", "deq",
                                                "dequeue"})

AloneInv == \A l, m \in LWP : Alone(l) /\ Has(m) => l = m

(* One reader at a time has seen rw_read zero and looks again, and once it *)
(* has seen it zero twice another reader can only be there with rw_mode    *)
(* RWS_READ.                                                               *)
Looking(l) == pc[l] \in {"unset", "againSpin", "againRead", "againMode"}

LookInv ==
  /\ \A l, m \in LWP : Looking(l) /\ Looking(m) => l = m
  /\ \A l, m \in LWP : pc[l] = "againMode" /\ Has(m) /\ l # m => mode = "READ"

(* The LWP that has stored RWS_BUSY, until it stores RWS_UNLOCKED.  New    *)
(* holders wait for that before they set the mode.                         *)
Giving(l) == \/ pc[l] \in {"release", "recheckSpin", "recheckQueue", "retake"}
             \/ pc[l] \in {"deq", "dequeue"} /\ call[l] = "none"

GiveInv ==
  /\ mode = "BUSY" <=> \E l \in LWP : Giving(l)
  /\ \A l, m \in LWP : Giving(l) /\ Giving(m) => l = m
  /\ \A l \in LWP : Has(l) /\ pc[l] \notin {"chkBusy", "mode"} /\ ~Giving(l) => mode # "BUSY"

(* What rw_mode says besides.                                              *)
WritesMode(l) == Writing(l) /\ pc[l] \in {"settle", "held", "free", "busy", "deq", "dequeue"}

ModeInv ==
  /\ mode = "WRITE" <=> \E l \in LWP : WritesMode(l)
  /\ mode = "READ" => \E l \in LWP : Has(l) /\ Reading(l)
  /\ \A l \in LWP : pc[l] \in {"chkBusy", "mode", "free", "busy", "deq", "dequeue"} => mode # "READ"

(* What a reader that leaves the lock to others has found in rw_read.      *)
FoundInv == \A l \in LWP : pc[l] = "leave" => read # 0

HoldInv == TypeInv /\ SectionInv /\ AloneInv /\ LookInv /\ GiveInv /\ ModeInv /\ FoundInv /\ ReadExact

(* The LWPs of rw_list and of a wakeup chain.                              *)
Distinct(s)    == \A i, j \in 1..Len(s) : s[i] = s[j] => i = j
Disjoint(s, t) == \A l \in InSeq(s) : l \notin InSeq(t)
Listed(l)      == l \in InSeq(queue) \/ \E u \in LWP : l \in InSeq(chain[u])

(* An LWP is in one of them, once, from rw_fspin to its wakeup.            *)
ListInv ==
  /\ queue \in Seq(LWP) /\ chain \in [LWP -> Seq(LWP)] /\ stat \in [LWP -> {"SSLEEP", "SRUN"}]
  /\ Distinct(queue)
  /\ \A u \in LWP : Distinct(chain[u]) /\ Disjoint(chain[u], queue)
  /\ \A u, v \in LWP : u # v => Disjoint(chain[u], chain[v])
  /\ \A l \in LWP : stat[l] = "SSLEEP" => pc[l] = "asleep"
  /\ \A l \in LWP : Listed(l) <=> pc[l] = "sleep" \/ stat[l] = "SSLEEP"
  /\ \A u \in LWP : /\ chain[u] # <<>> => pc[u] \in {"deqdone", "wake"}
                    /\ pc[u] = "wake" => chain[u] # <<>>

(* An LWP that found rw_avail taken and will queue up.                     *)
Queuing(l) == pc[l] \in {"chkMode", "lateAvail", "lateMode", "lateUndo", "ins"}

(* When it queues up behind a release, somebody is bound to look; and      *)
(* nobody does behind the back of one that has looked at rw_fspin.         *)
LookoutInv ==
  /\ avail /\ (queue # <<>> \/ \E l \in LWP : Queuing(l)) => \E l \in LWP : WillLook(l)
  /\ \A l, m \in LWP : pc[l] = "recheckQueue" /\ avail => ~Queuing(m)

IInv == HoldInv /\ ListInv /\ LookoutInv

-----------------------------------------------------------------------------
(***************************************************************************)
(* The steps, as far as the words of the lock go.                          *)

(* rwsleep_dequeue and its neighbours without rw_list, the chain and       *)
(* l_stat.                                                                 *)
EnqueueWords(l) ==
  /\ pc[l] = "ins" /\ pc' = [pc EXCEPT ![l] = "sleep"] /\ fspin' = None
  /\ UNCHANGED <<avail, mode, read, call>>

DequeueWords(l) ==
  /\ pc[l] = "dequeue" /\ pc' = [pc EXCEPT ![l] = "deqdone"]
  /\ call' = [call EXCEPT ![l] = "none"] /\ mode' = "UNLOCKED" /\ avail' = TRUE
  /\ UNCHANGED <<read, fspin>>

WakeWords(l) ==
  /\ pc[l] = "wake" /\ pc'[l] \in {"idle", "wake"} /\ pc' = [pc EXCEPT ![l] = pc'[l]]
  /\ UNCHANGED <<avail, mode, read, fspin, call>>

Steps(l) ==
  \/ Start(l) \/ Take(l) \/ TakeFails(l) \/ Peek(l) \/ Join(l) \/ JoinAvail(l) \/ JoinMode(l)
  \/ Joined(l) \/ JoinUndo(l) \/ LockFspin(l) \/ Raced(l) \/ NotRaced(l) \/ RacedBusy(l)
  \/ LateJoin(l) \/ EnqueueWords(l) \/ Swtch(l) \/ Resume(l) \/ SetMode(l) \/ Settle(l)
  \/ Unlock(l) \/ LastSpin(l) \/ LastRead(l) \/ Unset(l) \/ AgainSpin(l) \/ AgainRead(l)
  \/ AgainMode(l) \/ SharedLock(l) \/ SharedTest(l) \/ Leave(l) \/ Free(l) \/ SetBusy(l)
  \/ Release(l) \/ RecheckSpin(l) \/ RecheckQueue(l) \/ Retake(l)
  \/ DequeueLock(l) \/ DequeueWords(l) \/ DequeueUnlock(l) \/ WakeWords(l)

Acts(l) == Start(l) \/ Unlock(l) \/ LockStep(l) \/ UnlockStep(l)

(* Every step of the specification is one of them.                         *)
LEMMA StepIs ==
  ASSUME TypeInv, NEW l \in LWP, Acts(l)
  PROVE  Steps(l)
<1>1. Start(l) \/ Unlock(l) \/ LockStep(l) \/ UnlockStep(l)
  BY DEF Acts
<1>2. Enqueue(l) => EnqueueWords(l)
  BY Zenon DEF Enqueue, EnqueueWords, Goto, lwpVars
<1>3. Dequeue(l) => DequeueWords(l)
  <2>1. Dequeue(l) => /\ mode' = "UNLOCKED" /\ avail' = TRUE /\ call' = [call EXCEPT ![l] = "none"]
                      /\ Goto(l, "dequeue", "deqdone") /\ UNCHANGED <<read, fspin, nsleeps, stat>>
    BY Zenon DEF Dequeue
  <2>. QED
    BY <2>1, Zenon DEF DequeueWords, Goto
<1>4. Wake(l) => WakeWords(l)
  BY DEF Wake, WakeWords, Goto, TypeInv, lockVars
<1>. QED
  BY <1>1, <1>2, <1>3, <1>4, Zenon DEF LockStep, UnlockStep, Steps

(* A step of an LWP moves nobody else.                                     *)
LEMMA Others ==
  ASSUME TypeInv, NEW l \in LWP, Steps(l), NEW m \in LWP, l # m
  PROVE  pc'[m] = pc[m] /\ call'[m] = call[m]
<1>. USE DEF TypeInv, Goto, Denied, lockVars, lwpVars
<1>1. CASE Start(l) \/ Take(l) \/ TakeFails(l)
  BY <1>1 DEF Start, Take, TakeFails
<1>2. CASE Peek(l) \/ Join(l) \/ JoinAvail(l)
  BY <1>2 DEF Peek, Join, JoinAvail
<1>3. CASE JoinMode(l) \/ Joined(l) \/ JoinUndo(l)
  BY <1>3 DEF JoinMode, Joined, JoinUndo
<1>4. CASE LockFspin(l) \/ Raced(l) \/ NotRaced(l)
  BY <1>4 DEF LockFspin, Raced, NotRaced
<1>5. CASE RacedBusy(l) \/ LateJoin(l) \/ EnqueueWords(l)
  BY <1>5 DEF RacedBusy, LateJoin, EnqueueWords
<1>6. CASE Swtch(l) \/ Resume(l) \/ SetMode(l) \/ Settle(l)
  BY <1>6 DEF Swtch, Resume, SetMode, Settle
<1>7. CASE Unlock(l) \/ LastSpin(l) \/ LastRead(l)
  BY <1>7 DEF Unlock, LastSpin, LastRead
<1>8. CASE Unset(l) \/ AgainSpin(l) \/ AgainRead(l) \/ AgainMode(l)
  BY <1>8 DEF Unset, AgainSpin, AgainRead, AgainMode
<1>9. CASE SharedLock(l) \/ SharedTest(l) \/ Leave(l)
  BY <1>9 DEF SharedLock, SharedTest, Leave
<1>10. CASE Free(l) \/ SetBusy(l) \/ Release(l)
  BY <1>10 DEF Free, SetBusy, Release
<1>11. CASE RecheckSpin(l) \/ RecheckQueue(l) \/ Retake(l)
  BY <1>11 DEF RecheckSpin, RecheckQueue, Retake
<1>12. CASE DequeueLock(l) \/ DequeueWords(l) \/ DequeueUnlock(l) \/ WakeWords(l)
  BY <1>12 DEF DequeueLock, DequeueWords, DequeueUnlock, WakeWords
<1>. QED
  BY <1>1, <1>2, <1>3, <1>4, <1>5, <1>6, <1>7, <1>8, <1>9, <1>10, <1>11, <1>12 DEF Steps

(* Every step keeps the types.                                             *)
LEMMA StepType ==
  ASSUME TypeInv, ModeInv, NEW l \in LWP, Steps(l)
  PROVE  TypeInv'
<1>0. /\ avail' \in BOOLEAN /\ mode' \in {"UNLOCKED", "READ", "WRITE", "BUSY"}
      /\ read' \in Int /\ fspin' \in LWP \cup {None}
  <2>. USE DEF TypeInv, lockVars, lwpVars
  <2>1. CASE Start(l) \/ Take(l) \/ TakeFails(l)
    BY <2>1 DEF Start, Take, TakeFails
  <2>2. CASE Peek(l) \/ Join(l) \/ JoinAvail(l)
    BY <2>2 DEF Peek, Join, JoinAvail
  <2>3. CASE JoinMode(l) \/ Joined(l) \/ JoinUndo(l)
    BY <2>3 DEF JoinMode, Joined, JoinUndo
  <2>4. CASE LockFspin(l) \/ Raced(l) \/ NotRaced(l)
    BY <2>4 DEF LockFspin, Raced, NotRaced
  <2>5. CASE RacedBusy(l) \/ LateJoin(l) \/ EnqueueWords(l)
    BY <2>5 DEF RacedBusy, LateJoin, EnqueueWords
  <2>6. CASE Swtch(l) \/ Resume(l) \/ SetMode(l) \/ Settle(l)
    BY <2>6 DEF Swtch, Resume, SetMode, Settle
  <2>7. CASE Unlock(l) \/ LastSpin(l) \/ LastRead(l)
    BY <2>7 DEF Unlock, LastSpin, LastRead
  <2>8. CASE Unset(l) \/ AgainSpin(l) \/ AgainRead(l) \/ AgainMode(l)
    BY <2>8 DEF Unset, AgainSpin, AgainRead, AgainMode
  <2>9. CASE SharedLock(l) \/ SharedTest(l) \/ Leave(l)
    BY <2>9 DEF SharedLock, SharedTest, Leave
  <2>10. CASE Free(l) \/ SetBusy(l) \/ Release(l)
    BY <2>10 DEF Free, SetBusy, Release
  <2>11. CASE RecheckSpin(l) \/ RecheckQueue(l) \/ Retake(l)
    BY <2>11 DEF RecheckSpin, RecheckQueue, Retake
  <2>12. CASE DequeueLock(l) \/ DequeueWords(l) \/ DequeueUnlock(l) \/ WakeWords(l)
    BY <2>12 DEF DequeueLock, DequeueWords, DequeueUnlock, WakeWords
  <2>. QED
    BY <2>1, <2>2, <2>3, <2>4, <2>5, <2>6, <2>7, <2>8, <2>9, <2>10, <2>11, <2>12 DEF Steps
<1>w. pc[l] = "held" => (Writing(l) <=> mode = "WRITE") \/ ~Writing(l)
  BY DEF ModeInv, WritesMode
<1>8. /\ pc' \in [LWP -> Pcs]
      /\ call' \in [LWP -> {"none", "rdlock", "tryrdlock", "wrlock", "trywrlock"}]
      /\ pc'[l] \in QuietPcs => call'[l] = "none"
      /\ pc'[l] \in ReaderPcs \cup CallPcs => call'[l] # "none"
      /\ pc'[l] \in ReaderPcs => Reading(l)'
  <2>. USE DEF TypeInv, Goto, Denied, lockVars, lwpVars, Pcs, ReaderPcs, QuietPcs, CallPcs, Reading,
               Writing, Blocking
  <2>1. CASE Start(l) \/ Take(l) \/ TakeFails(l)
    BY <2>1, <1>w DEF Start, Take, TakeFails
  <2>2. CASE Peek(l) \/ Join(l) \/ JoinAvail(l)
    BY <2>2, <1>w DEF Peek, Join, JoinAvail
  <2>3. CASE JoinMode(l) \/ Joined(l) \/ JoinUndo(l)
    BY <2>3, <1>w DEF JoinMode, Joined, JoinUndo
  <2>4. CASE LockFspin(l) \/ Raced(l) \/ NotRaced(l)
    BY <2>4, <1>w DEF LockFspin, Raced, NotRaced
  <2>5. CASE RacedBusy(l) \/ LateJoin(l) \/ EnqueueWords(l)
    BY <2>5, <1>w DEF RacedBusy, LateJoin, EnqueueWords
  <2>6. CASE Swtch(l) \/ Resume(l) \/ SetMode(l) \/ Settle(l)
    BY <2>6, <1>w DEF Swtch, Resume, SetMode, Settle
  <2>7. CASE Unlock(l) \/ LastSpin(l) \/ LastRead(l)
    BY <2>7, <1>w DEF Unlock, LastSpin, LastRead
  <2>8. CASE Unset(l) \/ AgainSpin(l) \/ AgainRead(l) \/ AgainMode(l)
    BY <2>8, <1>w DEF Unset, AgainSpin, AgainRead, AgainMode
  <2>9. CASE SharedLock(l) \/ SharedTest(l) \/ Leave(l)
    BY <2>9, <1>w DEF SharedLock, SharedTest, Leave
  <2>10. CASE Free(l) \/ SetBusy(l) \/ Release(l)
    BY <2>10, <1>w DEF Free, SetBusy, Release
  <2>11. CASE RecheckSpin(l) \/ RecheckQueue(l) \/ Retake(l)
    BY <2>11, <1>w DEF RecheckSpin, RecheckQueue, Retake
  <2>12. CASE DequeueLock(l) \/ DequeueWords(l) \/ DequeueUnlock(l) \/ WakeWords(l)
    BY <2>12, <1>w DEF DequeueLock, DequeueWords, DequeueUnlock, WakeWords
  <2>. QED
    BY <2>1, <2>2, <2>3, <2>4, <2>5, <2>6, <2>7, <2>8, <2>9, <2>10, <2>11, <2>12 DEF Steps
<1>9. \A m \in LWP : m # l => pc'[m] = pc[m] /\ call'[m] = call[m]
  BY Others
<1>. QED
  BY <1>0, <1>8, <1>9 DEF TypeInv, Reading

(* rw_fspin is free before a section and from its end.                     *)
LEMMA StepSection ==
  ASSUME TypeInv, TypeInv', SectionInv, NEW l \in LWP, Steps(l)
  PROVE  SectionInv'
<1>1. /\ InSection(l)' => fspin' = l
      /\ fspin' # fspin => (fspin = None \/ fspin = l)
  <2>0. InSection(l) => fspin = l
    BY DEF SectionInv
  <2>. USE DEF TypeInv, Goto, Denied, lockVars, lwpVars, InSection
  <2>1. CASE Start(l) \/ Take(l) \/ TakeFails(l)
    BY <2>1, <2>0 DEF Start, Take, TakeFails
  <2>2. CASE Peek(l) \/ Join(l) \/ JoinAvail(l)
    BY <2>2, <2>0 DEF Peek, Join, JoinAvail
  <2>3. CASE JoinMode(l) \/ Joined(l) \/ JoinUndo(l)
    BY <2>3, <2>0 DEF JoinMode, Joined, JoinUndo
  <2>4. CASE LockFspin(l) \/ Raced(l) \/ NotRaced(l)
    BY <2>4, <2>0 DEF LockFspin, Raced, NotRaced
  <2>5. CASE RacedBusy(l) \/ LateJoin(l) \/ EnqueueWords(l)
    BY <2>5, <2>0 DEF RacedBusy, LateJoin, EnqueueWords
  <2>6. CASE Swtch(l) \/ Resume(l) \/ SetMode(l) \/ Settle(l)
    BY <2>6, <2>0 DEF Swtch, Resume, SetMode, Settle
  <2>7. CASE Unlock(l) \/ LastSpin(l) \/ LastRead(l)
    BY <2>7, <2>0 DEF Unlock, LastSpin, LastRead
  <2>8. CASE Unset(l) \/ AgainSpin(l) \/ AgainRead(l) \/ AgainMode(l)
    BY <2>8, <2>0 DEF Unset, AgainSpin, AgainRead, AgainMode
  <2>9. CASE SharedLock(l) \/ SharedTest(l) \/ Leave(l)
    BY <2>9, <2>0 DEF SharedLock, SharedTest, Leave
  <2>10. CASE Free(l) \/ SetBusy(l) \/ Release(l)
    BY <2>10, <2>0 DEF Free, SetBusy, Release
  <2>11. CASE RecheckSpin(l) \/ RecheckQueue(l) \/ Retake(l)
    BY <2>11, <2>0 DEF RecheckSpin, RecheckQueue, Retake
  <2>12. CASE DequeueLock(l) \/ DequeueWords(l) \/ DequeueUnlock(l) \/ WakeWords(l)
    BY <2>12, <2>0 DEF DequeueLock, DequeueWords, DequeueUnlock, WakeWords
  <2>. QED
    BY <2>1, <2>2, <2>3, <2>4, <2>5, <2>6, <2>7, <2>8, <2>9, <2>10, <2>11, <2>12 DEF Steps
<1>2. \A m \in LWP : l # m => (InSection(m)' <=> InSection(m))
  BY Others DEF InSection
<1>. QED
  BY <1>1, <1>2, RWSleepAssumption DEF SectionInv

-----------------------------------------------------------------------------
(***************************************************************************)
(* The count of readers.                                                   *)

Sharers == {l \in LWP : Has(l) /\ Reading(l)}
Counted == {l \in LWP : (Has(l) /\ Reading(l)) \/ pc[l] \in JoinPcs}

(* ReadExact in these terms.                                               *)
LEMMA ExactInTerms ==
  ReadExact <=> /\ avail <=> \A l \in LWP : ~Has(l)
                /\ read + (IF Sharers # {} THEN 1 ELSE 0) = Cardinality(Counted)
<1>1. (\E l \in LWP : Has(l) /\ Reading(l)) <=> Sharers # {}
  BY DEF Sharers
<1>. QED
  BY <1>1 DEF ReadExact, Sharers, Counted

(* And after a step.                                                       *)
LEMMA ExactInTermsNext ==
  ReadExact' <=> /\ avail' <=> \A l \in LWP : ~Has(l)'
                 /\ read' + (IF Sharers' # {} THEN 1 ELSE 0) = Cardinality(Counted')
<1>1. (\E l \in LWP : Has(l)' /\ Reading(l)') <=> Sharers' # {}
  BY DEF Sharers
<1>. QED
  BY <1>1 DEF ReadExact, Sharers, Counted

(* Those that are counted are finitely many.                               *)
LEMMA FiniteCounted == IsFiniteSet(Counted) /\ Cardinality(Counted) \in Nat
<1>1. IsFiniteSet(Counted)
  BY RWSleepAssumption, FS_Subset DEF Counted
<1>. QED
  BY <1>1, FS_CardinalityType

(* A set that gains a member, and one that loses a member.                 *)
LEMMA GainLose ==
  /\ \A x : x \notin Counted => Cardinality(Counted \cup {x}) = Cardinality(Counted) + 1
  /\ \A x \in Counted : Cardinality(Counted \ {x}) = Cardinality(Counted) - 1
BY FiniteCounted, FS_AddElement, FS_RemoveElement

(* rw_read is not negative.                                                *)
LEMMA ReadNat ==
  ASSUME TypeInv, ReadExact
  PROVE  read \in Nat
<1>1. Sharers # {} => Cardinality(Counted) >= 1
  <2>1. SUFFICES ASSUME NEW l \in Sharers PROVE Cardinality(Counted) >= 1
    OBVIOUS
  <2>2. l \in Counted
    BY <2>1 DEF Sharers, Counted
  <2>3. IsFiniteSet(Counted \ {l}) /\ Cardinality(Counted \ {l}) = Cardinality(Counted) - 1
    BY <2>2, FiniteCounted, FS_RemoveElement
  <2>4. Cardinality(Counted \ {l}) \in Nat
    BY <2>3, FS_CardinalityType
  <2>. QED
    BY <2>3, <2>4, FiniteCounted
<1>. QED
  BY <1>1, FiniteCounted, ExactInTerms DEF TypeInv

(* Who has the lock and is not alone in that is a reader.                  *)
LEMMA NotAloneReads ==
  ASSUME TypeInv, NEW l \in LWP, Has(l), ~Alone(l)
  PROVE  Reading(l) /\ ~Writing(l)
BY DEF TypeInv, Has, HeldPcs, Alone, Reading, Writing, Pcs, ReaderPcs, QuietPcs, CallPcs

(* A reader that finds rw_read zero is the only one.                       *)
LEMMA ZeroAlone ==
  ASSUME TypeInv, AloneInv, ReadExact, read = 0,
         NEW l \in LWP, Has(l), Reading(l), NEW m \in LWP, Has(m)
  PROVE  l = m
<1>. SUFFICES ASSUME l # m PROVE FALSE
  OBVIOUS
<1>1. Reading(m)
  BY NotAloneReads DEF AloneInv
<1>2. l \in Counted /\ m \in Counted /\ Sharers # {}
  BY <1>1 DEF Counted, Sharers
<1>3. IsFiniteSet(Counted \ {l}) /\ Cardinality(Counted \ {l}) = Cardinality(Counted) - 1
  BY <1>2, FiniteCounted, FS_RemoveElement
<1>4. Cardinality(Counted \ {l}) = 0
  BY <1>2, <1>3, ExactInTerms, FiniteCounted DEF TypeInv
<1>. QED
  BY <1>2, <1>3, <1>4, FS_EmptySet

-----------------------------------------------------------------------------
(***************************************************************************)
(* The invariant of the holders is inductive, part by part.                *)

(* What the others have, they keep.                                        *)
LEMMA OthersKeep ==
  ASSUME TypeInv, NEW l \in LWP, Steps(l), NEW m \in LWP, l # m
  PROVE  /\ pc'[m] = pc[m] /\ call'[m] = call[m]
         /\ (Has(m)' <=> Has(m)) /\ (Reading(m)' <=> Reading(m)) /\ (Writing(m)' <=> Writing(m))
         /\ (Alone(m)' <=> Alone(m)) /\ (Looking(m)' <=> Looking(m)) /\ (Giving(m)' <=> Giving(m))
         /\ (WritesMode(m)' <=> WritesMode(m)) /\ (InSection(m)' <=> InSection(m))
BY Others DEF Has, Reading, Writing, Alone, Looking, Giving, WritesMode, InSection

(* Who gets the lock by rw_avail finds nobody there; who joins finds       *)
(* RWS_READ; nobody else gets it.                                          *)
LEMMA NewHolder ==
  ASSUME HoldInv, NEW l \in LWP, Steps(l), Has(l)', ~Has(l)
  PROVE  \/ avail /\ (pc'[l] \in {"mode", "chkBusy"} \/ (pc'[l] = "deq" /\ Giving(l)))
         \/ /\ mode = "READ" /\ mode' = mode /\ pc[l] \in {"joinMode", "lateMode"} /\ pc'[l] = "joined"
            /\ call' = call /\ avail' = avail
<1>. USE DEF HoldInv, TypeInv, Goto, Denied, lockVars, lwpVars, Has, HeldPcs, Giving
<1>1. CASE Start(l) \/ Take(l) \/ TakeFails(l)
  BY <1>1 DEF Start, Take, TakeFails
<1>2. CASE Peek(l) \/ Join(l) \/ JoinAvail(l)
  BY <1>2 DEF Peek, Join, JoinAvail
<1>3. CASE JoinMode(l) \/ Joined(l) \/ JoinUndo(l)
  BY <1>3 DEF JoinMode, Joined, JoinUndo
<1>4. CASE LockFspin(l) \/ Raced(l) \/ NotRaced(l)
  BY <1>4 DEF LockFspin, Raced, NotRaced
<1>5. CASE RacedBusy(l) \/ LateJoin(l) \/ EnqueueWords(l)
  BY <1>5 DEF RacedBusy, LateJoin, EnqueueWords
<1>6. CASE Swtch(l) \/ Resume(l) \/ SetMode(l) \/ Settle(l)
  BY <1>6 DEF Swtch, Resume, SetMode, Settle
<1>7. CASE Unlock(l) \/ LastSpin(l) \/ LastRead(l)
  BY <1>7 DEF Unlock, LastSpin, LastRead
<1>8. CASE Unset(l) \/ AgainSpin(l) \/ AgainRead(l) \/ AgainMode(l)
  BY <1>8 DEF Unset, AgainSpin, AgainRead, AgainMode
<1>9. CASE SharedLock(l) \/ SharedTest(l) \/ Leave(l)
  BY <1>9 DEF SharedLock, SharedTest, Leave
<1>10. CASE Free(l) \/ SetBusy(l) \/ Release(l)
  BY <1>10 DEF Free, SetBusy, Release
<1>11. CASE RecheckSpin(l) \/ RecheckQueue(l) \/ Retake(l)
  BY <1>11 DEF RecheckSpin, RecheckQueue, Retake
<1>12. CASE DequeueLock(l) \/ DequeueWords(l) \/ DequeueUnlock(l) \/ WakeWords(l)
  BY <1>12 DEF DequeueLock, DequeueWords, DequeueUnlock, WakeWords
<1>. QED
  BY <1>1, <1>2, <1>3, <1>4, <1>5, <1>6, <1>7, <1>8, <1>9, <1>10, <1>11, <1>12 DEF Steps

(* With RWS_READ nobody has the lock to itself.                            *)
LEMMA ReadNotAlone ==
  ASSUME HoldInv, mode = "READ", NEW l \in LWP
  PROVE  ~Alone(l)
<1>1. ~WritesMode(l) /\ pc[l] \notin {"chkBusy", "mode", "free", "busy", "deq", "dequeue"} /\ ~Giving(l)
  BY DEF HoldInv, ModeInv, GiveInv
<1>2. pc[l] \in ReaderPcs => ~Writing(l)
  BY DEF HoldInv, TypeInv, Reading, Writing
<1>. QED
  BY <1>1, <1>2 DEF Alone, Has, HeldPcs, ReaderPcs, WritesMode, Giving

(* Who has the lock to itself keeps it to itself, and who gets it so, gets *)
(* it from nobody.                                                         *)
LEMMA StepAlone ==
  ASSUME HoldInv, TypeInv', NEW l \in LWP, Steps(l)
  PROVE  AloneInv'
<1>. USE DEF HoldInv
<1>1. ASSUME NEW m \in LWP, l # m, Has(l)', ~Has(l)
      PROVE  ~Alone(m) /\ (Alone(l)' => ~Has(m))
  <2>1. CASE avail
    BY <2>1 DEF ReadExact, Alone
  <2>2. CASE ~avail
    <3>1. mode = "READ" /\ pc'[l] = "joined"
      BY <1>1, <2>2, NewHolder
    <3>2. ~Alone(l)'
      BY <3>1 DEF Alone, TypeInv, ReaderPcs, Reading, Writing
    <3>. QED
      BY <3>1, <3>2, ReadNotAlone
  <2>. QED
    BY <2>1, <2>2
<1>2. ASSUME NEW m \in LWP, l # m, Alone(l)', ~Alone(l), Has(l)
      PROVE  ~Has(m)
  <2>0. Reading(l) /\ ~Writing(l) /\ read \in Nat
    BY <1>2, NotAloneReads, ReadNat
  <2>1. CASE SharedTest(l)
    <3>1. read = 0
      BY <1>2, <2>0, <2>1 DEF SharedTest, Goto, TypeInv, Alone, Writing, lwpVars
    <3>. QED
      BY <1>2, <2>0, <3>1, ZeroAlone
  <2>2. CASE AgainMode(l)
    <3>1. mode = "UNLOCKED" /\ pc[l] = "againMode"
      BY <1>2, <2>0, <2>2 DEF AgainMode, Goto, TypeInv, Alone, Writing, lockVars, lwpVars
    <3>. QED
      BY <1>2, <3>1 DEF LookInv
  <2>3. CASE Unlock(l)
    <3>1. mode = "WRITE"
      BY <1>2, <2>0, <2>3 DEF Unlock, Goto, TypeInv, Alone, Writing, lockVars, lwpVars
    <3>2. PICK n \in LWP : WritesMode(n)
      BY <3>1 DEF ModeInv
    <3>3. Alone(n) /\ n # l
      BY <3>2, <2>0 DEF WritesMode, Alone, Has, HeldPcs
    <3>. QED
      BY <1>2, <3>3 DEF AloneInv
  <2>4. CASE ~(SharedTest(l) \/ AgainMode(l) \/ Unlock(l))
    <3>. USE DEF TypeInv, Goto, Denied, lockVars, lwpVars, Alone, Has, HeldPcs, Writing
    <3>1. CASE Start(l) \/ Take(l) \/ TakeFails(l)
      BY <3>1, <1>2, <2>0, <2>4 DEF Start, Take, TakeFails
    <3>2. CASE Peek(l) \/ Join(l) \/ JoinAvail(l)
      BY <3>2, <1>2, <2>0, <2>4 DEF Peek, Join, JoinAvail
    <3>3. CASE JoinMode(l) \/ Joined(l) \/ JoinUndo(l)
      BY <3>3, <1>2, <2>0, <2>4 DEF JoinMode, Joined, JoinUndo
    <3>4. CASE LockFspin(l) \/ Raced(l) \/ NotRaced(l)
      BY <3>4, <1>2, <2>0, <2>4 DEF LockFspin, Raced, NotRaced
    <3>5. CASE RacedBusy(l) \/ LateJoin(l) \/ EnqueueWords(l)
      BY <3>5, <1>2, <2>0, <2>4 DEF RacedBusy, LateJoin, EnqueueWords
    <3>6. CASE Swtch(l) \/ Resume(l) \/ SetMode(l) \/ Settle(l)
      BY <3>6, <1>2, <2>0, <2>4 DEF Swtch, Resume, SetMode, Settle
    <3>7. CASE LastSpin(l) \/ LastRead(l)
      BY <3>7, <1>2, <2>0, <2>4 DEF LastSpin, LastRead
    <3>8. CASE Unset(l) \/ AgainSpin(l) \/ AgainRead(l)
      BY <3>8, <1>2, <2>0, <2>4 DEF Unset, AgainSpin, AgainRead
    <3>9. CASE SharedLock(l) \/ Leave(l)
      BY <3>9, <1>2, <2>0, <2>4 DEF SharedLock, Leave
    <3>10. CASE Free(l) \/ SetBusy(l) \/ Release(l)
      BY <3>10, <1>2, <2>0, <2>4 DEF Free, SetBusy, Release
    <3>11. CASE RecheckSpin(l) \/ RecheckQueue(l) \/ Retake(l)
      BY <3>11, <1>2, <2>0, <2>4 DEF RecheckSpin, RecheckQueue, Retake
    <3>12. CASE DequeueLock(l) \/ DequeueWords(l) \/ DequeueUnlock(l) \/ WakeWords(l)
      BY <3>12, <1>2, <2>0, <2>4 DEF DequeueLock, DequeueWords, DequeueUnlock, WakeWords
    <3>. QED
      BY <2>4, <3>1, <3>2, <3>3, <3>4, <3>5, <3>6, <3>7, <3>8, <3>9, <3>10, <3>11, <3>12 DEF Steps
  <2>. QED
    BY <2>1, <2>2, <2>3, <2>4
<1>3. \A m \in LWP : l # m => (Alone(m)' <=> Alone(m)) /\ (Has(m)' <=> Has(m))
  BY OthersKeep
<1>4. \A m \in LWP : Alone(m) => Has(m)
  BY DEF Alone
<1>. QED
  BY <1>1, <1>2, <1>3, <1>4 DEF AloneInv, Alone

(* A reader that leaves the lock to the others leaves one there.           *)
LEMMA LeaveLeavesOne ==
  ASSUME HoldInv, NEW l \in LWP, pc[l] = "leave"
  PROVE  \E m \in LWP : m # l /\ Has(m) /\ Reading(m)
<1>. USE DEF HoldInv
<1>1. Has(l) /\ Reading(l) /\ l \in Counted /\ l \in Sharers /\ read # 0
  BY DEF Has, HeldPcs, TypeInv, ReaderPcs, FoundInv, Counted, Sharers
<1>2. Cardinality(Counted) = read + 1
  BY <1>1, ExactInTerms, FiniteCounted DEF TypeInv
<1>3. Cardinality(Counted \ {l}) = read
  BY <1>1, <1>2, GainLose DEF TypeInv
<1>4. PICK m \in Counted : m # l
  BY <1>1, <1>3, FS_EmptySet
<1>5. pc[m] \notin JoinPcs
  BY <1>4 DEF JoinPcs, Counted, SectionInv, InSection
<1>. QED
  BY <1>4, <1>5 DEF Counted

(* What a reader has found in rw_read stays so: the others change it under *)
(* rw_fspin.                                                               *)
LEMMA StepFound ==
  ASSUME HoldInv, TypeInv', NEW l \in LWP, Steps(l)
  PROVE  FoundInv'
<1>. USE DEF HoldInv
<1>1. pc'[l] = "leave" => read' # 0
  <2>. USE ReadNat DEF TypeInv, Goto, Denied, lockVars, lwpVars
  <2>1. CASE Start(l) \/ Take(l) \/ TakeFails(l)
    BY <2>1 DEF Start, Take, TakeFails
  <2>2. CASE Peek(l) \/ Join(l) \/ JoinAvail(l)
    BY <2>2 DEF Peek, Join, JoinAvail
  <2>3. CASE JoinMode(l) \/ Joined(l) \/ JoinUndo(l)
    BY <2>3 DEF JoinMode, Joined, JoinUndo
  <2>4. CASE LockFspin(l) \/ Raced(l) \/ NotRaced(l)
    BY <2>4 DEF LockFspin, Raced, NotRaced
  <2>5. CASE RacedBusy(l) \/ LateJoin(l) \/ EnqueueWords(l)
    BY <2>5 DEF RacedBusy, LateJoin, EnqueueWords
  <2>6. CASE Swtch(l) \/ Resume(l) \/ SetMode(l) \/ Settle(l)
    BY <2>6 DEF Swtch, Resume, SetMode, Settle
  <2>7. CASE Unlock(l) \/ LastSpin(l) \/ LastRead(l)
    BY <2>7 DEF Unlock, LastSpin, LastRead
  <2>8. CASE Unset(l) \/ AgainSpin(l) \/ AgainRead(l) \/ AgainMode(l)
    BY <2>8 DEF Unset, AgainSpin, AgainRead, AgainMode
  <2>9. CASE SharedLock(l) \/ SharedTest(l) \/ Leave(l)
    BY <2>9 DEF SharedLock, SharedTest, Leave
  <2>10. CASE Free(l) \/ SetBusy(l) \/ Release(l)
    BY <2>10 DEF Free, SetBusy, Release
  <2>11. CASE RecheckSpin(l) \/ RecheckQueue(l) \/ Retake(l)
    BY <2>11 DEF RecheckSpin, RecheckQueue, Retake
  <2>12. CASE DequeueLock(l) \/ DequeueWords(l) \/ DequeueUnlock(l) \/ WakeWords(l)
    BY <2>12 DEF DequeueLock, DequeueWords, DequeueUnlock, WakeWords
  <2>. QED
    BY <2>1, <2>2, <2>3, <2>4, <2>5, <2>6, <2>7, <2>8, <2>9, <2>10, <2>11, <2>12 DEF Steps
<1>2. read' # read => InSection(l) \/ (pc[l] = "join" /\ fspin = None)
  <2>. USE DEF TypeInv, Goto, Denied, lockVars, lwpVars, InSection
  <2>1. CASE Start(l) \/ Take(l) \/ TakeFails(l)
    BY <2>1 DEF Start, Take, TakeFails
  <2>2. CASE Peek(l) \/ Join(l) \/ JoinAvail(l)
    BY <2>2 DEF Peek, Join, JoinAvail
  <2>3. CASE JoinMode(l) \/ Joined(l) \/ JoinUndo(l)
    BY <2>3 DEF JoinMode, Joined, JoinUndo
  <2>4. CASE LockFspin(l) \/ Raced(l) \/ NotRaced(l)
    BY <2>4 DEF LockFspin, Raced, NotRaced
  <2>5. CASE RacedBusy(l) \/ LateJoin(l) \/ EnqueueWords(l)
    BY <2>5 DEF RacedBusy, LateJoin, EnqueueWords
  <2>6. CASE Swtch(l) \/ Resume(l) \/ SetMode(l) \/ Settle(l)
    BY <2>6 DEF Swtch, Resume, SetMode, Settle
  <2>7. CASE Unlock(l) \/ LastSpin(l) \/ LastRead(l)
    BY <2>7 DEF Unlock, LastSpin, LastRead
  <2>8. CASE Unset(l) \/ AgainSpin(l) \/ AgainRead(l) \/ AgainMode(l)
    BY <2>8 DEF Unset, AgainSpin, AgainRead, AgainMode
  <2>9. CASE SharedLock(l) \/ SharedTest(l) \/ Leave(l)
    BY <2>9 DEF SharedLock, SharedTest, Leave
  <2>10. CASE Free(l) \/ SetBusy(l) \/ Release(l)
    BY <2>10 DEF Free, SetBusy, Release
  <2>11. CASE RecheckSpin(l) \/ RecheckQueue(l) \/ Retake(l)
    BY <2>11 DEF RecheckSpin, RecheckQueue, Retake
  <2>12. CASE DequeueLock(l) \/ DequeueWords(l) \/ DequeueUnlock(l) \/ WakeWords(l)
    BY <2>12 DEF DequeueLock, DequeueWords, DequeueUnlock, WakeWords
  <2>. QED
    BY <2>1, <2>2, <2>3, <2>4, <2>5, <2>6, <2>7, <2>8, <2>9, <2>10, <2>11, <2>12 DEF Steps
<1>3. \A m \in LWP : m # l /\ pc[m] = "leave" => InSection(m) /\ fspin = m
  BY DEF InSection, SectionInv
<1>4. \A m \in LWP : m # l /\ pc'[m] = "leave" => read' # 0
  BY <1>2, <1>3, Others, RWSleepAssumption DEF FoundInv, SectionInv
<1>. QED
  BY <1>1, <1>4 DEF FoundInv

(* The second look is one reader's, and what it finds in rw_read still     *)
(* counts when it looks at rw_mode.                                        *)
LEMMA StepLook ==
  ASSUME HoldInv, TypeInv', NEW l \in LWP, Steps(l)
  PROVE  LookInv'
<1>. USE DEF HoldInv
<1>1. ASSUME NEW m \in LWP, l # m, Looking(l)', Looking(m)
      PROVE  FALSE
  <2>1. CASE LastRead(l)
    <3>1. pc[l] = "lastRead" /\ read = 0
      BY <1>1, <2>1 DEF LastRead, Goto, TypeInv, Looking
    <3>2. Has(l) /\ Reading(l) /\ Has(m)
      BY <1>1, <3>1 DEF Has, HeldPcs, TypeInv, ReaderPcs, Looking
    <3>. QED
      BY <1>1, <3>1, <3>2, ZeroAlone
  <2>2. CASE ~LastRead(l)
    <3>. USE DEF TypeInv, Goto, Denied, lockVars, lwpVars, Looking, LookInv
    <3>1. CASE Start(l) \/ Take(l) \/ TakeFails(l)
      BY <3>1, <1>1, <2>2 DEF Start, Take, TakeFails
    <3>2. CASE Peek(l) \/ Join(l) \/ JoinAvail(l)
      BY <3>2, <1>1, <2>2 DEF Peek, Join, JoinAvail
    <3>3. CASE JoinMode(l) \/ Joined(l) \/ JoinUndo(l)
      BY <3>3, <1>1, <2>2 DEF JoinMode, Joined, JoinUndo
    <3>4. CASE LockFspin(l) \/ Raced(l) \/ NotRaced(l)
      BY <3>4, <1>1, <2>2 DEF LockFspin, Raced, NotRaced
    <3>5. CASE RacedBusy(l) \/ LateJoin(l) \/ EnqueueWords(l)
      BY <3>5, <1>1, <2>2 DEF RacedBusy, LateJoin, EnqueueWords
    <3>6. CASE Swtch(l) \/ Resume(l) \/ SetMode(l) \/ Settle(l)
      BY <3>6, <1>1, <2>2 DEF Swtch, Resume, SetMode, Settle
    <3>7. CASE Unlock(l) \/ LastSpin(l)
      BY <3>7, <1>1, <2>2 DEF Unlock, LastSpin
    <3>8. CASE Unset(l) \/ AgainSpin(l) \/ AgainRead(l) \/ AgainMode(l)
      BY <3>8, <1>1, <2>2 DEF Unset, AgainSpin, AgainRead, AgainMode
    <3>9. CASE SharedLock(l) \/ SharedTest(l) \/ Leave(l)
      BY <3>9, <1>1, <2>2 DEF SharedLock, SharedTest, Leave
    <3>10. CASE Free(l) \/ SetBusy(l) \/ Release(l)
      BY <3>10, <1>1, <2>2 DEF Free, SetBusy, Release
    <3>11. CASE RecheckSpin(l) \/ RecheckQueue(l) \/ Retake(l)
      BY <3>11, <1>1, <2>2 DEF RecheckSpin, RecheckQueue, Retake
    <3>12. CASE DequeueLock(l) \/ DequeueWords(l) \/ DequeueUnlock(l) \/ WakeWords(l)
      BY <3>12, <1>1, <2>2 DEF DequeueLock, DequeueWords, DequeueUnlock, WakeWords
    <3>. QED
      BY <2>2, <3>1, <3>2, <3>3, <3>4, <3>5, <3>6, <3>7, <3>8, <3>9, <3>10, <3>11, <3>12 DEF Steps
  <2>. QED
    BY <2>1, <2>2
<1>2. ASSUME NEW m \in LWP, l # m, pc'[l] = "againMode", Has(m)
      PROVE  FALSE
  <2>1. pc[l] = "againRead" /\ read = 0
    <3>. USE DEF TypeInv, Goto, Denied, lockVars, lwpVars
    <3>1. CASE Start(l) \/ Take(l) \/ TakeFails(l)
      BY <3>1, <1>2 DEF Start, Take, TakeFails
    <3>2. CASE Peek(l) \/ Join(l) \/ JoinAvail(l)
      BY <3>2, <1>2 DEF Peek, Join, JoinAvail
    <3>3. CASE JoinMode(l) \/ Joined(l) \/ JoinUndo(l)
      BY <3>3, <1>2 DEF JoinMode, Joined, JoinUndo
    <3>4. CASE LockFspin(l) \/ Raced(l) \/ NotRaced(l)
      BY <3>4, <1>2 DEF LockFspin, Raced, NotRaced
    <3>5. CASE RacedBusy(l) \/ LateJoin(l) \/ EnqueueWords(l)
      BY <3>5, <1>2 DEF RacedBusy, LateJoin, EnqueueWords
    <3>6. CASE Swtch(l) \/ Resume(l) \/ SetMode(l) \/ Settle(l)
      BY <3>6, <1>2 DEF Swtch, Resume, SetMode, Settle
    <3>7. CASE Unlock(l) \/ LastSpin(l) \/ LastRead(l)
      BY <3>7, <1>2 DEF Unlock, LastSpin, LastRead
    <3>8. CASE Unset(l) \/ AgainSpin(l) \/ AgainRead(l) \/ AgainMode(l)
      BY <3>8, <1>2 DEF Unset, AgainSpin, AgainRead, AgainMode
    <3>9. CASE SharedLock(l) \/ SharedTest(l) \/ Leave(l)
      BY <3>9, <1>2 DEF SharedLock, SharedTest, Leave
    <3>10. CASE Free(l) \/ SetBusy(l) \/ Release(l)
      BY <3>10, <1>2 DEF Free, SetBusy, Release
    <3>11. CASE RecheckSpin(l) \/ RecheckQueue(l) \/ Retake(l)
      BY <3>11, <1>2 DEF RecheckSpin, RecheckQueue, Retake
    <3>12. CASE DequeueLock(l) \/ DequeueWords(l) \/ DequeueUnlock(l) \/ WakeWords(l)
      BY <3>12, <1>2 DEF DequeueLock, DequeueWords, DequeueUnlock, WakeWords
    <3>. QED
      BY <3>1, <3>2, <3>3, <3>4, <3>5, <3>6, <3>7, <3>8, <3>9, <3>10, <3>11, <3>12 DEF Steps
  <2>2. Has(l) /\ Reading(l)
    BY <2>1 DEF Has, HeldPcs, TypeInv, ReaderPcs
  <2>. QED
    BY <1>2, <2>1, <2>2, ZeroAlone
<1>3. ASSUME NEW m \in LWP, pc[m] = "againMode", NEW n \in LWP, m # n, m # l, Has(n)'
      PROVE  mode' = "READ"
  <2>1. Has(m) /\ Looking(m)
    BY <1>3 DEF Has, HeldPcs, Looking
  <2>2. mode = "READ"
    <3>1. CASE Has(n)
      BY <1>3, <3>1 DEF LookInv
    <3>2. CASE ~Has(n)
      <4>1. n = l
        BY <1>3, <3>2, OthersKeep
      <4>. QED
        BY <1>3, <2>1, <3>2, <4>1, NewHolder DEF ReadExact
    <3>. QED
      BY <3>1, <3>2
  <2>3. ~Alone(l) /\ ~Looking(l) /\ ~Giving(l)
    BY <1>3, <2>1, <2>2, ReadNotAlone DEF LookInv, GiveInv
  <2>4. pc[l] = "sharedTest" => read > 0
    <3>. SUFFICES ASSUME pc[l] = "sharedTest", read = 0 PROVE FALSE
      BY ReadNat
    <3>1. Has(l) /\ Reading(l)
      BY DEF Has, HeldPcs, TypeInv, ReaderPcs
    <3>. QED
      BY <1>3, <2>1, <3>1, ZeroAlone
  <2>. USE DEF TypeInv, Goto, Denied, lockVars, lwpVars, Alone, Looking, Giving, Has, HeldPcs
  <2>5. CASE Start(l) \/ Take(l) \/ TakeFails(l)
    BY <2>5, <2>2, <2>3, <2>4 DEF Start, Take, TakeFails
  <2>6. CASE Peek(l) \/ Join(l) \/ JoinAvail(l)
    BY <2>6, <2>2, <2>3, <2>4 DEF Peek, Join, JoinAvail
  <2>7. CASE JoinMode(l) \/ Joined(l) \/ JoinUndo(l)
    BY <2>7, <2>2, <2>3, <2>4 DEF JoinMode, Joined, JoinUndo
  <2>8. CASE LockFspin(l) \/ Raced(l) \/ NotRaced(l)
    BY <2>8, <2>2, <2>3, <2>4 DEF LockFspin, Raced, NotRaced
  <2>9. CASE RacedBusy(l) \/ LateJoin(l) \/ EnqueueWords(l)
    BY <2>9, <2>2, <2>3, <2>4 DEF RacedBusy, LateJoin, EnqueueWords
  <2>10. CASE Swtch(l) \/ Resume(l) \/ SetMode(l) \/ Settle(l)
    BY <2>10, <2>2, <2>3, <2>4 DEF Swtch, Resume, SetMode, Settle
  <2>11. CASE Unlock(l) \/ LastSpin(l) \/ LastRead(l)
    BY <2>11, <2>2, <2>3, <2>4 DEF Unlock, LastSpin, LastRead
  <2>12. CASE Unset(l) \/ AgainSpin(l) \/ AgainRead(l) \/ AgainMode(l)
    BY <2>12, <2>2, <2>3, <2>4 DEF Unset, AgainSpin, AgainRead, AgainMode
  <2>13. CASE SharedLock(l) \/ SharedTest(l) \/ Leave(l)
    BY <2>13, <2>2, <2>3, <2>4 DEF SharedLock, SharedTest, Leave
  <2>14. CASE Free(l) \/ SetBusy(l) \/ Release(l)
    BY <2>14, <2>2, <2>3, <2>4 DEF Free, SetBusy, Release
  <2>15. CASE RecheckSpin(l) \/ RecheckQueue(l) \/ Retake(l)
    BY <2>15, <2>2, <2>3, <2>4 DEF RecheckSpin, RecheckQueue, Retake
  <2>16. CASE DequeueLock(l) \/ DequeueWords(l) \/ DequeueUnlock(l) \/ WakeWords(l)
    BY <2>16, <2>2, <2>3, <2>4 DEF DequeueLock, DequeueWords, DequeueUnlock, WakeWords
  <2>. QED
    BY <2>5, <2>6, <2>7, <2>8, <2>9, <2>10, <2>11, <2>12, <2>13, <2>14, <2>15, <2>16 DEF Steps
<1>4. \A m \in LWP : l # m => pc'[m] = pc[m] /\ (Has(m)' <=> Has(m)) /\ (Looking(m)' <=> Looking(m))
  BY OthersKeep
<1>5. \A m, n \in LWP : Looking(m)' /\ Looking(n)' => m = n
  BY <1>1, <1>4 DEF LookInv
<1>6. \A m, n \in LWP : pc'[m] = "againMode" /\ Has(n)' /\ m # n => mode' = "READ"
  BY <1>2, <1>3, <1>4
<1>. QED
  BY <1>5, <1>6 DEF LookInv

(* How a step deals with rw_mode and RWS_BUSY.                             *)
LEMMA BusyMoves ==
  ASSUME HoldInv, NEW l \in LWP, Steps(l)
  PROVE  /\ Giving(l)' /\ ~Giving(l) => pc[l] = "busy" /\ mode # "BUSY" /\ mode' = "BUSY"
         /\ Giving(l)' /\ Giving(l) => mode' = mode
         /\ ~Giving(l)' /\ Giving(l) => mode' = "UNLOCKED"
         /\ ~Giving(l)' /\ ~Giving(l) => mode' = mode \/ (mode # "BUSY" /\ mode' # "BUSY")
         /\ pc[l] \in {"chkBusy", "mode"} => mode # "BUSY" /\ mode' # "BUSY"
<1>1. /\ pc[l] = "busy" => mode # "BUSY"
      /\ pc[l] \in {"unset", "sharedTest"} => mode # "BUSY"
      /\ pc[l] = "dequeue" /\ ~Giving(l) => mode # "BUSY"
  BY DEF HoldInv, GiveInv, Giving, Has, HeldPcs
<1>. USE DEF HoldInv, TypeInv, Goto, Denied, lockVars, lwpVars, Giving, QuietPcs, CallPcs
<1>2. CASE Start(l) \/ Take(l) \/ TakeFails(l)
  BY <1>2, <1>1 DEF Start, Take, TakeFails
<1>3. CASE Peek(l) \/ Join(l) \/ JoinAvail(l)
  BY <1>3, <1>1 DEF Peek, Join, JoinAvail
<1>4. CASE JoinMode(l) \/ Joined(l) \/ JoinUndo(l)
  BY <1>4, <1>1 DEF JoinMode, Joined, JoinUndo
<1>5. CASE LockFspin(l) \/ Raced(l) \/ NotRaced(l)
  BY <1>5, <1>1 DEF LockFspin, Raced, NotRaced
<1>6. CASE RacedBusy(l) \/ LateJoin(l) \/ EnqueueWords(l)
  BY <1>6, <1>1 DEF RacedBusy, LateJoin, EnqueueWords
<1>7. CASE Swtch(l) \/ Resume(l) \/ SetMode(l) \/ Settle(l)
  BY <1>7, <1>1 DEF Swtch, Resume, SetMode, Settle
<1>8. CASE Unlock(l) \/ LastSpin(l) \/ LastRead(l)
  BY <1>8, <1>1 DEF Unlock, LastSpin, LastRead
<1>9. CASE Unset(l) \/ AgainSpin(l) \/ AgainRead(l) \/ AgainMode(l)
  BY <1>9, <1>1 DEF Unset, AgainSpin, AgainRead, AgainMode
<1>10. CASE SharedLock(l) \/ SharedTest(l) \/ Leave(l)
  BY <1>10, <1>1 DEF SharedLock, SharedTest, Leave
<1>11. CASE Free(l) \/ SetBusy(l) \/ Release(l)
  BY <1>11, <1>1 DEF Free, SetBusy, Release
<1>12. CASE RecheckSpin(l) \/ RecheckQueue(l) \/ Retake(l)
  BY <1>12, <1>1 DEF RecheckSpin, RecheckQueue, Retake
<1>13. CASE DequeueLock(l) \/ DequeueWords(l) \/ DequeueUnlock(l) \/ WakeWords(l)
  BY <1>13, <1>1 DEF DequeueLock, DequeueWords, DequeueUnlock, WakeWords
<1>. QED
  BY <1>2, <1>3, <1>4, <1>5, <1>6, <1>7, <1>8, <1>9, <1>10, <1>11, <1>12, <1>13 DEF Steps

(* RWS_BUSY belongs to one LWP, and new holders wait for it to go.         *)
LEMMA StepGive ==
  ASSUME HoldInv, TypeInv', NEW l \in LWP, Steps(l)
  PROVE  GiveInv'
<1>. USE DEF HoldInv
<1>1. \A m \in LWP : m # l => /\ pc'[m] = pc[m] /\ (Has(m)' <=> Has(m)) /\ (Giving(m)' <=> Giving(m))
  BY OthersKeep
<1>2. \A m, n \in LWP : Giving(m)' /\ Giving(n)' => m = n
  BY <1>1, BusyMoves DEF GiveInv
<1>3. mode' = "BUSY" => \E m \in LWP : Giving(m)'
  BY <1>1, BusyMoves DEF GiveInv
<1>4. ASSUME NEW m \in LWP, Giving(m)'
      PROVE  mode' = "BUSY"
  <2>1. CASE m = l
    BY <1>4, <2>1, BusyMoves DEF GiveInv
  <2>2. CASE m # l
    <3>1. Giving(m) /\ mode = "BUSY" /\ ~Giving(l)
      BY <1>1, <1>4, <2>2 DEF GiveInv
    <3>. QED
      BY <3>1, BusyMoves
  <2>. QED
    BY <2>1, <2>2
<1>5. ASSUME NEW m \in LWP, Has(m)', pc'[m] \notin {"chkBusy", "mode"}, ~Giving(m)', mode' = "BUSY"
      PROVE  FALSE
  <2>1. CASE m = l
    <3>1. ~Giving(l) /\ mode = "BUSY" /\ pc[l] \notin {"chkBusy", "mode"}
      BY <1>5, <2>1, BusyMoves
    <3>2. ~Has(l)
      BY <3>1 DEF GiveInv
    <3>. QED
      BY <1>5, <2>1, <3>1, <3>2, NewHolder
  <2>2. CASE m # l
    <3>1. Has(m) /\ pc[m] \notin {"chkBusy", "mode"} /\ ~Giving(m) /\ mode # "BUSY"
      BY <1>1, <1>5, <2>2 DEF GiveInv
    <3>2. pc[l] = "busy"
      BY <1>5, <3>1, BusyMoves DEF GiveInv
    <3>3. Alone(l)
      BY <3>2 DEF Alone, Has, HeldPcs
    <3>. QED
      BY <2>2, <3>1, <3>3 DEF AloneInv
  <2>. QED
    BY <2>1, <2>2
<1>. QED
  BY <1>2, <1>3, <1>4, <1>5 DEF GiveInv

(* How a step deals with the other modes.                                  *)
LEMMA ModeMoves ==
  ASSUME HoldInv, NEW l \in LWP, Steps(l)
  PROVE  /\ ~Has(l) => mode' = mode \/ Giving(l)
         /\ WritesMode(l)' /\ ~WritesMode(l) => mode' = "WRITE"
         /\ WritesMode(l)' /\ WritesMode(l) => mode' = mode
         /\ ~WritesMode(l)' /\ WritesMode(l) => mode' # "WRITE"
         /\ ~WritesMode(l)' /\ ~WritesMode(l) => mode' = mode \/ mode' # "WRITE"
         /\ mode' = "READ" /\ mode # "READ" => Has(l) /\ Has(l)' /\ Reading(l)'
         /\ Has(l) /\ Reading(l) /\ ~(Has(l)' /\ Reading(l)') => pc[l] \in {"leave", "release", "dequeue"}
<1>1. /\ WritesMode(l) => mode = "WRITE"
      /\ pc[l] \in ReaderPcs => Reading(l) /\ ~Writing(l)
      /\ pc[l] = "mode" => Reading(l) \/ Writing(l)
      /\ pc[l] = "sharedTest" => read \in Nat
  BY ReadNat DEF HoldInv, TypeInv, ModeInv, CallPcs, Reading, Writing
<1>. USE DEF HoldInv, TypeInv, Goto, Denied, lockVars, lwpVars, Has, HeldPcs, WritesMode, Reading, Writing,
             Giving, ReaderPcs, QuietPcs
<1>2. CASE Start(l) \/ Take(l) \/ TakeFails(l)
  BY <1>2, <1>1 DEF Start, Take, TakeFails
<1>3. CASE Peek(l) \/ Join(l) \/ JoinAvail(l)
  BY <1>3, <1>1 DEF Peek, Join, JoinAvail
<1>4. CASE JoinMode(l) \/ Joined(l) \/ JoinUndo(l)
  BY <1>4, <1>1 DEF JoinMode, Joined, JoinUndo
<1>5. CASE LockFspin(l) \/ Raced(l) \/ NotRaced(l)
  BY <1>5, <1>1 DEF LockFspin, Raced, NotRaced
<1>6. CASE RacedBusy(l) \/ LateJoin(l) \/ EnqueueWords(l)
  BY <1>6, <1>1 DEF RacedBusy, LateJoin, EnqueueWords
<1>7. CASE Swtch(l) \/ Resume(l) \/ SetMode(l) \/ Settle(l)
  BY <1>7, <1>1 DEF Swtch, Resume, SetMode, Settle
<1>8. CASE Unlock(l) \/ LastSpin(l) \/ LastRead(l)
  BY <1>8, <1>1 DEF Unlock, LastSpin, LastRead
<1>9. CASE Unset(l) \/ AgainSpin(l) \/ AgainRead(l) \/ AgainMode(l)
  BY <1>9, <1>1 DEF Unset, AgainSpin, AgainRead, AgainMode
<1>10. CASE SharedLock(l) \/ SharedTest(l) \/ Leave(l)
  BY <1>10, <1>1 DEF SharedLock, SharedTest, Leave
<1>11. CASE Free(l) \/ SetBusy(l) \/ Release(l)
  BY <1>11, <1>1 DEF Free, SetBusy, Release
<1>12. CASE RecheckSpin(l) \/ RecheckQueue(l) \/ Retake(l)
  BY <1>12, <1>1 DEF RecheckSpin, RecheckQueue, Retake
<1>13. CASE DequeueLock(l) \/ DequeueWords(l) \/ DequeueUnlock(l) \/ WakeWords(l)
  BY <1>13, <1>1 DEF DequeueLock, DequeueWords, DequeueUnlock, WakeWords
<1>. QED
  BY <1>2, <1>3, <1>4, <1>5, <1>6, <1>7, <1>8, <1>9, <1>10, <1>11, <1>12, <1>13 DEF Steps

(* An LWP that has the lock to itself, or is about to, sees no RWS_READ.   *)
LEMMA NoReadAlone ==
  ASSUME HoldInv, NEW l \in LWP, Steps(l), pc'[l] \in {"chkBusy", "mode", "free", "busy", "deq", "dequeue"}
  PROVE  mode' # "READ"
<1>1. /\ avail => mode # "READ"
      /\ pc[l] \in {"free", "busy", "deq"} => mode # "READ"
      /\ read \in Nat
  BY ReadNat DEF HoldInv, ModeInv, ReadExact
<1>. USE DEF HoldInv, TypeInv, Goto, Denied, lockVars, lwpVars
<1>2. CASE Start(l) \/ Take(l) \/ TakeFails(l)
  BY <1>2, <1>1 DEF Start, Take, TakeFails
<1>3. CASE Peek(l) \/ Join(l) \/ JoinAvail(l)
  BY <1>3, <1>1 DEF Peek, Join, JoinAvail
<1>4. CASE JoinMode(l) \/ Joined(l) \/ JoinUndo(l)
  BY <1>4, <1>1 DEF JoinMode, Joined, JoinUndo
<1>5. CASE LockFspin(l) \/ Raced(l) \/ NotRaced(l)
  BY <1>5, <1>1 DEF LockFspin, Raced, NotRaced
<1>6. CASE RacedBusy(l) \/ LateJoin(l) \/ EnqueueWords(l)
  BY <1>6, <1>1 DEF RacedBusy, LateJoin, EnqueueWords
<1>7. CASE Swtch(l) \/ Resume(l) \/ SetMode(l) \/ Settle(l)
  BY <1>7, <1>1 DEF Swtch, Resume, SetMode, Settle
<1>8. CASE Unlock(l) \/ LastSpin(l) \/ LastRead(l)
  BY <1>8, <1>1 DEF Unlock, LastSpin, LastRead
<1>9. CASE Unset(l) \/ AgainSpin(l) \/ AgainRead(l) \/ AgainMode(l)
  BY <1>9, <1>1 DEF Unset, AgainSpin, AgainRead, AgainMode
<1>10. CASE SharedLock(l) \/ SharedTest(l) \/ Leave(l)
  BY <1>10, <1>1 DEF SharedLock, SharedTest, Leave
<1>11. CASE Free(l) \/ SetBusy(l) \/ Release(l)
  BY <1>11, <1>1 DEF Free, SetBusy, Release
<1>12. CASE RecheckSpin(l) \/ RecheckQueue(l) \/ Retake(l)
  BY <1>12, <1>1 DEF RecheckSpin, RecheckQueue, Retake
<1>13. CASE DequeueLock(l) \/ DequeueWords(l) \/ DequeueUnlock(l) \/ WakeWords(l)
  BY <1>13, <1>1 DEF DequeueLock, DequeueWords, DequeueUnlock, WakeWords
<1>. QED
  BY <1>2, <1>3, <1>4, <1>5, <1>6, <1>7, <1>8, <1>9, <1>10, <1>11, <1>12, <1>13 DEF Steps

(* rw_mode goes with the LWPs that have the lock.                          *)
LEMMA StepMode ==
  ASSUME HoldInv, TypeInv', NEW l \in LWP, Steps(l)
  PROVE  ModeInv'
<1>. USE DEF HoldInv
<1>1. \A m \in LWP : m # l => /\ pc'[m] = pc[m] /\ (Has(m)' <=> Has(m)) /\ (Reading(m)' <=> Reading(m))
                              /\ (WritesMode(m)' <=> WritesMode(m))
  BY OthersKeep
<1>2. mode' = "WRITE" => \E m \in LWP : WritesMode(m)'
  BY <1>1, ModeMoves DEF ModeInv
<1>3. ASSUME NEW m \in LWP, WritesMode(m)'
      PROVE  mode' = "WRITE"
  <2>1. CASE m = l
    BY <1>3, <2>1, ModeMoves DEF ModeInv
  <2>2. CASE m # l
    <3>1. WritesMode(m) /\ mode = "WRITE"
      BY <1>1, <1>3, <2>2 DEF ModeInv
    <3>2. Alone(m)
      BY <3>1 DEF WritesMode, Alone, Has, HeldPcs
    <3>3. ~Has(l) /\ ~Giving(l)
      BY <2>2, <3>1, <3>2 DEF AloneInv, GiveInv
    <3>. QED
      BY <3>1, <3>3, ModeMoves
  <2>. QED
    BY <2>1, <2>2
<1>4. ASSUME mode' = "READ"
      PROVE  \E m \in LWP : Has(m)' /\ Reading(m)'
  <2>1. CASE mode # "READ"
    BY <1>4, <2>1, ModeMoves
  <2>2. CASE mode = "READ"
    <3>1. PICK m \in LWP : Has(m) /\ Reading(m)
      BY <2>2 DEF ModeInv
    <3>2. CASE pc[l] = "leave"
      BY <1>1, <3>2, LeaveLeavesOne
    <3>3. CASE pc[l] # "leave"
      <4>1. pc[l] \notin {"release", "dequeue"}
        BY <2>2, ReadNotAlone DEF Alone, Has, HeldPcs
      <4>. QED
        BY <1>1, <3>1, <3>3, <4>1, ModeMoves
    <3>. QED
      BY <3>2, <3>3
  <2>. QED
    BY <2>1, <2>2
<1>5. ASSUME NEW m \in LWP, pc'[m] \in {"chkBusy", "mode", "free", "busy", "deq", "dequeue"}, mode' = "READ"
      PROVE  FALSE
  <2>1. m # l
    BY <1>5, NoReadAlone
  <2>2. Alone(m) /\ mode # "READ"
    BY <1>1, <1>5, <2>1 DEF Alone, Has, HeldPcs, ModeInv
  <2>3. Has(l)
    BY <1>5, <2>2, ModeMoves
  <2>. QED
    BY <2>1, <2>2, <2>3 DEF AloneInv
<1>. QED
  BY <1>2, <1>3, <1>4, <1>5 DEF ModeInv

(* What a step does to the count: it takes rw_avail, counts the LWP or     *)
(* takes that back, makes it a reader, lets it go, sets rw_avail, or none. *)
Joins(l) == pc[l] \in JoinPcs
Takes(l) == avail /\ ~avail' /\ read' = read /\ Has(l)' /\ ~Joins(l) /\ ~Joins(l)'
Counts(l) == ~Has(l) /\ ~Has(l)' /\ ~Joins(l) /\ Joins(l)' /\ read' = read + 1 /\ avail' = avail
Uncounts(l) == ~Has(l) /\ ~Has(l)' /\ Joins(l) /\ ~Joins(l)' /\ read' = read - 1 /\ avail' = avail
IsReader(l) == /\ ~Has(l) /\ Has(l)' /\ Reading(l)' /\ Joins(l) /\ ~Joins(l)' /\ mode = "READ"
               /\ read' = read /\ avail' = avail
Leaves(l) == /\ Has(l) /\ Reading(l) /\ ~Has(l)' /\ ~Joins(l)' /\ ~Joins(l) /\ pc[l] = "leave"
             /\ read' = read - 1 /\ avail' = avail
GivesUp(l) == Alone(l) /\ ~Has(l)' /\ ~Joins(l) /\ ~Joins(l)' /\ read' = read /\ avail' = TRUE
Stays(l) == /\ (Has(l)' <=> Has(l)) /\ (Joins(l)' <=> Joins(l)) /\ (Has(l) => (Reading(l)' <=> Reading(l)))
            /\ read' = read /\ avail' = avail

(* Every step is of one of these kinds.                                    *)
LEMMA CountMoves ==
  ASSUME HoldInv, NEW l \in LWP, Steps(l)
  PROVE  \/ Takes(l) \/ Counts(l) \/ Uncounts(l) \/ IsReader(l) \/ Leaves(l) \/ GivesUp(l) \/ Stays(l)
<1>1. /\ pc[l] \in ReaderPcs => Reading(l)
      /\ avail => ~Has(l)
  BY DEF HoldInv, TypeInv, ReadExact
<1>. USE DEF HoldInv, TypeInv, Goto, Denied, lockVars, lwpVars, Has, HeldPcs, Joins, JoinPcs, Alone, ReaderPcs,
             Reading, Takes, Counts, Uncounts, IsReader, Leaves, GivesUp, Stays
<1>2. CASE Start(l) \/ Take(l) \/ TakeFails(l)
  BY <1>2, <1>1 DEF Start, Take, TakeFails
<1>3. CASE Peek(l) \/ Join(l) \/ JoinAvail(l)
  BY <1>3, <1>1 DEF Peek, Join, JoinAvail
<1>4. CASE JoinMode(l) \/ Joined(l) \/ JoinUndo(l)
  BY <1>4, <1>1 DEF JoinMode, Joined, JoinUndo
<1>5. CASE LockFspin(l) \/ Raced(l) \/ NotRaced(l)
  BY <1>5, <1>1 DEF LockFspin, Raced, NotRaced
<1>6. CASE RacedBusy(l) \/ LateJoin(l) \/ EnqueueWords(l)
  BY <1>6, <1>1 DEF RacedBusy, LateJoin, EnqueueWords
<1>7. CASE Swtch(l) \/ Resume(l) \/ SetMode(l) \/ Settle(l)
  BY <1>7, <1>1 DEF Swtch, Resume, SetMode, Settle
<1>8. CASE Unlock(l) \/ LastSpin(l) \/ LastRead(l)
  BY <1>8, <1>1 DEF Unlock, LastSpin, LastRead
<1>9. CASE Unset(l) \/ AgainSpin(l) \/ AgainRead(l) \/ AgainMode(l)
  BY <1>9, <1>1 DEF Unset, AgainSpin, AgainRead, AgainMode
<1>10. CASE SharedLock(l) \/ SharedTest(l) \/ Leave(l)
  BY <1>10, <1>1 DEF SharedLock, SharedTest, Leave
<1>11. CASE Free(l) \/ SetBusy(l) \/ Release(l)
  BY <1>11, <1>1 DEF Free, SetBusy, Release
<1>12. CASE RecheckSpin(l) \/ RecheckQueue(l)
  BY <1>12, <1>1 DEF RecheckSpin, RecheckQueue
<1>13. CASE Retake(l)
  <2>1. /\ pc[l] = "retake" /\ read' = read /\ ~avail'
        /\ pc'[l] = IF avail THEN "deq" ELSE "idle"
    BY <1>13 DEF Retake
  <2>2. CASE avail
    BY <2>1, <2>2
  <2>3. CASE ~avail
    <3>1. avail' = avail
      BY <1>13, <2>3 DEF Retake
    <3>. QED
      BY <2>1, <2>3, <3>1
  <2>. QED
    BY <2>2, <2>3
<1>14. CASE DequeueLock(l) \/ DequeueWords(l) \/ DequeueUnlock(l) \/ WakeWords(l)
  BY <1>14, <1>1 DEF DequeueLock, DequeueWords, DequeueUnlock, WakeWords
<1>. QED
  BY <1>2, <1>3, <1>4, <1>5, <1>6, <1>7, <1>8, <1>9, <1>10, <1>11, <1>12, <1>13, <1>14 DEF Steps

(* rw_read stays exact, and rw_avail.                                      *)
LEMMA StepExact ==
  ASSUME HoldInv, TypeInv', NEW l \in LWP, Steps(l)
  PROVE  ReadExact'
<1>. USE DEF HoldInv
<1>0. \A m \in LWP : l # m => /\ (Has(m)' <=> Has(m)) /\ (Reading(m)' <=> Reading(m))
                              /\ (Joins(m)' <=> Joins(m))
  BY OthersKeep DEF Joins
<1>1. /\ Sharers' \subseteq LWP /\ Sharers \subseteq LWP /\ Counted' \subseteq LWP /\ Counted \subseteq LWP
      /\ l \in Sharers' <=> Has(l)' /\ Reading(l)'
      /\ l \in Sharers <=> Has(l) /\ Reading(l)
      /\ l \in Counted' <=> (Has(l)' /\ Reading(l)') \/ Joins(l)'
      /\ l \in Counted <=> (Has(l) /\ Reading(l)) \/ Joins(l)
      /\ \A m \in LWP : l # m => (m \in Sharers' <=> m \in Sharers) /\ (m \in Counted' <=> m \in Counted)
  BY <1>0 DEF Sharers, Counted, Joins
<1>2. read \in Int /\ Cardinality(Counted) \in Nat
  BY FiniteCounted DEF TypeInv
<1>3. CASE Takes(l)
  <2>1. (\A m \in LWP : ~Has(m)) /\ Sharers = {}
    BY <1>3 DEF Takes, ReadExact, Sharers
  <2>2. ~Joins(l) /\ ~Joins(l)' /\ read' = read /\ ~avail' /\ Has(l)'
    BY <1>3, Zenon DEF Takes
  <2>3. CASE Reading(l)'
    <3>1. Sharers' # {} /\ Counted' = Counted \cup {l} /\ l \notin Counted
      BY <1>1, <2>1, <2>2, <2>3
    <3>2. Cardinality(Counted') = Cardinality(Counted) + 1
      BY <3>1, GainLose
    <3>. QED
      BY <1>2, <2>1, <2>2, <3>1, <3>2, ExactInTerms, ExactInTermsNext
  <2>4. CASE ~Reading(l)'
    <3>1. Sharers' = {} /\ Counted' = Counted
      BY <1>1, <2>1, <2>2, <2>4
    <3>. QED
      BY <1>2, <2>1, <2>2, <3>1, ExactInTerms, ExactInTermsNext
  <2>. QED
    BY <2>3, <2>4
<1>4. CASE Counts(l)
  <2>1. Sharers' = Sharers /\ Counted' = Counted \cup {l} /\ l \notin Counted
    BY <1>1, <1>4 DEF Counts
  <2>2. Cardinality(Counted') = Cardinality(Counted) + 1
    BY <2>1, GainLose
  <2>3. read' = read + 1 /\ avail' = avail /\ \A m \in LWP : Has(m)' <=> Has(m)
    BY <1>0, <1>4 DEF Counts
  <2>. QED
    BY <1>2, <2>1, <2>2, <2>3, ExactInTerms, ExactInTermsNext
<1>5. CASE Uncounts(l)
  <2>1. Sharers' = Sharers /\ Counted' = Counted \ {l} /\ l \in Counted
    BY <1>1, <1>5 DEF Uncounts
  <2>2. Cardinality(Counted') = Cardinality(Counted) - 1
    BY <2>1, GainLose
  <2>3. read' = read - 1 /\ avail' = avail /\ \A m \in LWP : Has(m)' <=> Has(m)
    BY <1>0, <1>5 DEF Uncounts
  <2>. QED
    BY <1>2, <2>1, <2>2, <2>3, ExactInTerms, ExactInTermsNext
<1>6. CASE IsReader(l)
  <2>1. PICK m \in LWP : Has(m) /\ Reading(m)
    BY <1>6 DEF IsReader, ModeInv
  <2>2. m # l /\ Has(m)' /\ m \in Sharers /\ m \in Sharers' /\ ~avail
    BY <1>0, <2>1, <1>6 DEF IsReader, Sharers, ReadExact
  <2>3. Counted' = Counted
    BY <1>1, <1>6 DEF IsReader
  <2>4. read' = read /\ avail' = avail
    BY <1>6 DEF IsReader
  <2>. QED
    BY <1>2, <2>2, <2>3, <2>4, ExactInTerms, ExactInTermsNext
<1>7. CASE Leaves(l)
  <2>1. PICK m \in LWP : m # l /\ Has(m) /\ Reading(m)
    BY <1>7, LeaveLeavesOne DEF Leaves
  <2>2. Has(m)' /\ m \in Sharers /\ m \in Sharers' /\ ~avail
    BY <1>0, <2>1 DEF Sharers, ReadExact
  <2>3. Counted' = Counted \ {l} /\ l \in Counted
    BY <1>1, <1>7 DEF Leaves
  <2>4. Cardinality(Counted') = Cardinality(Counted) - 1
    BY <2>3, GainLose
  <2>5. read' = read - 1 /\ avail' = avail
    BY <1>7 DEF Leaves
  <2>. QED
    BY <1>2, <2>2, <2>4, <2>5, ExactInTerms, ExactInTermsNext
<1>8. CASE GivesUp(l)
  <2>1. Has(l) /\ \A m \in LWP : m # l => ~Has(m)
    BY <1>8 DEF GivesUp, AloneInv, Alone
  <2>2. ~Has(l)' /\ ~Joins(l) /\ ~Joins(l)' /\ read' = read /\ avail'
    BY <1>8 DEF GivesUp
  <2>3. Sharers' = {} /\ \A m \in LWP : ~Has(m)'
    BY <1>0, <2>1, <2>2 DEF Sharers
  <2>4. CASE Reading(l)
    <3>1. Sharers # {} /\ Counted' = Counted \ {l} /\ l \in Counted
      BY <1>1, <2>1, <2>2, <2>4
    <3>2. Cardinality(Counted') = Cardinality(Counted) - 1
      BY <3>1, GainLose
    <3>. QED
      BY <1>2, <2>2, <2>3, <3>1, <3>2, ExactInTerms, ExactInTermsNext
  <2>5. CASE ~Reading(l)
    <3>1. Sharers = {} /\ Counted' = Counted
      BY <1>1, <2>1, <2>2, <2>5 DEF Sharers
    <3>. QED
      BY <1>2, <2>2, <2>3, <3>1, ExactInTerms, ExactInTermsNext
  <2>. QED
    BY <2>4, <2>5
<1>9. CASE Stays(l)
  <2>1. Sharers' = Sharers /\ Counted' = Counted
    BY <1>1, <1>9 DEF Stays
  <2>2. read' = read /\ avail' = avail /\ \A m \in LWP : Has(m)' <=> Has(m)
    BY <1>0, <1>9 DEF Stays
  <2>. QED
    BY <2>1, <2>2, ExactInTerms, ExactInTermsNext
<1>. QED
  BY <1>3, <1>4, <1>5, <1>6, <1>7, <1>8, <1>9, CountMoves

(* rwsleep_init establishes the invariant of the holders.                  *)
LEMMA InitHold == Init => HoldInv
<1>. SUFFICES ASSUME Init PROVE HoldInv
  OBVIOUS
<1>1. \A l \in LWP : pc[l] = "idle" /\ call[l] = "none"
  BY DEF Init
<1>2. TypeInv
  <2>1. /\ pc \in [LWP -> Pcs] /\ call \in [LWP -> {"none", "rdlock", "tryrdlock", "wrlock", "trywrlock"}]
    BY DEF Init, Pcs, QuietPcs
  <2>2. avail \in BOOLEAN /\ mode \in {"UNLOCKED", "READ", "WRITE", "BUSY"} /\ fspin \in LWP \cup {None}
    BY Zenon DEF Init
  <2>3. read \in Int
    BY DEF Init
  <2>4. \A l \in LWP : call[l] = "none" /\ pc[l] \notin ReaderPcs \cup CallPcs
    BY <1>1 DEF ReaderPcs, CallPcs
  <2>. QED
    BY <2>1, <2>2, <2>3, <2>4, Zenon DEF TypeInv
<1>3. \A l \in LWP : ~Has(l) /\ ~Joins(l) /\ ~InSection(l) /\ ~Looking(l) /\ ~Giving(l) /\ ~Alone(l) /\ ~WritesMode(l)
  BY <1>1 DEF Has, HeldPcs, Joins, JoinPcs, InSection, Looking, Giving, Alone, WritesMode
<1>4. SectionInv /\ AloneInv /\ LookInv /\ FoundInv
  BY <1>1, <1>3 DEF SectionInv, AloneInv, LookInv, FoundInv
<1>5. GiveInv /\ ModeInv
  BY <1>1, <1>3 DEF Init, GiveInv, ModeInv
<1>6. Sharers = {} /\ Counted = {}
  BY <1>3 DEF Sharers, Counted, Joins
<1>7. ReadExact
  BY <1>3, <1>6, ExactInTerms, FS_EmptySet DEF Init
<1>. QED
  BY <1>2, <1>4, <1>5, <1>7 DEF HoldInv

(* Nothing changes when nobody moves.                                      *)
LEMMA StutterHold ==
  ASSUME HoldInv, UNCHANGED vars
  PROVE  HoldInv'
<1>. USE DEF HoldInv
<1>0. UNCHANGED <<avail, mode, read, fspin, pc, call>>
  BY DEF vars, lockVars, lwpVars
<1>1. TypeInv'
  BY <1>0 DEF TypeInv, Reading
<1>2. \A l \in LWP : /\ Has(l)' <=> Has(l)
                     /\ Reading(l)' <=> Reading(l)
                     /\ Alone(l)' <=> Alone(l)
                     /\ InSection(l)' <=> InSection(l)
                     /\ Looking(l)' <=> Looking(l)
                     /\ Giving(l)' <=> Giving(l)
                     /\ WritesMode(l)' <=> WritesMode(l)
  BY <1>0 DEF Has, Reading, Writing, Alone, InSection, Looking, Giving, WritesMode
<1>3. SectionInv' /\ AloneInv' /\ LookInv' /\ FoundInv'
  BY <1>0, <1>2 DEF SectionInv, AloneInv, LookInv, FoundInv
<1>4. GiveInv' /\ ModeInv'
  BY <1>0, <1>2 DEF GiveInv, ModeInv
<1>5. Sharers' = Sharers /\ Counted' = Counted
  BY <1>0, <1>2 DEF Sharers, Counted
<1>6. ReadExact'
  BY <1>0, <1>2, <1>5, ExactInTerms, ExactInTermsNext
<1>. QED
  BY <1>1, <1>3, <1>4, <1>6

(* The invariant of the holders is inductive.                              *)
LEMMA StepHold ==
  ASSUME HoldInv, NEW l \in LWP, Steps(l)
  PROVE  HoldInv'
<1>1. TypeInv'
  BY StepType DEF HoldInv
<1>2. SectionInv'
  BY <1>1, StepSection DEF HoldInv
<1>3. AloneInv' /\ LookInv' /\ FoundInv'
  BY <1>1, StepAlone, StepLook, StepFound
<1>4. GiveInv' /\ ModeInv' /\ ReadExact'
  BY <1>1, StepGive, StepMode, StepExact
<1>. QED
  BY <1>1, <1>2, <1>3, <1>4, Zenon DEF HoldInv

(* What a holder has found is kept by every step.                          *)
LEMMA HoldInvariance == Spec => []HoldInv
<1>1. ASSUME HoldInv, Next PROVE HoldInv'
  <2>1. PICK l \in LWP : Acts(l)
    BY <1>1 DEF Next, Acts
  <2>2. Steps(l)
    BY <1>1, <2>1, StepIs DEF HoldInv
  <2>. QED
    BY <1>1, <2>2, StepHold
<1>2. HoldInv /\ [Next]_vars => HoldInv'
  BY <1>1, StutterHold
<1>. QED
  BY InitHold, <1>2, PTL DEF Spec

-----------------------------------------------------------------------------
(***************************************************************************)
(* What the holders can rely on.                                           *)

(* rw_read counts the readers, and rw_avail is set when nobody has the     *)
(* lock: a reader that leaves never gives the lock up under another one,   *)
(* and the last one does give it up.                                       *)
THEOREM ReadIsExact == Spec => []ReadExact
<1>1. HoldInv => ReadExact
  BY DEF HoldInv
<1>. QED
  BY <1>1, HoldInvariance, PTL

(* The ASSERTs of rwsleep_rdlock and rwsleep_wrlock hold until the holder  *)
(* unlocks: nobody else's unlock or failed attempt disturbs its mode.      *)
THEOREM HoldersKnowTheMode == Spec => []HolderMode
<1>1. ASSUME HoldInv, NEW l \in LWP, pc[l] = "held"
      PROVE  IF Writing(l) THEN mode = "WRITE" ELSE mode \in {"READ", "UNLOCKED"}
  <2>1. /\ Has(l) /\ ~Giving(l) /\ mode # "BUSY"
        /\ mode \in {"UNLOCKED", "READ", "WRITE", "BUSY"}
    BY <1>1 DEF HoldInv, GiveInv, Giving, TypeInv, Has, HeldPcs
  <2>2. Writing(l) => mode = "WRITE"
    BY <1>1 DEF HoldInv, ModeInv, WritesMode
  <2>3. ~Writing(l) => mode # "WRITE"
    <3>1. SUFFICES ASSUME mode = "WRITE" PROVE Writing(l)
      OBVIOUS
    <3>2. PICK m \in LWP : WritesMode(m)
      BY <1>1, <3>1 DEF HoldInv, ModeInv
    <3>3. Alone(m)
      BY <3>2 DEF WritesMode, Alone, Has, HeldPcs
    <3>. QED
      BY <1>1, <2>1, <3>2, <3>3 DEF HoldInv, AloneInv, WritesMode
  <2>. QED
    BY <2>1, <2>2, <2>3
<1>2. HoldInv => HolderMode
  BY <1>1 DEF HolderMode
<1>. QED
  BY <1>2, HoldInvariance, PTL

-----------------------------------------------------------------------------
(***************************************************************************)
(* Refinement of RWLockSpec.                                               *)

ReadHolders  == {l \in LWP : Holding(l) /\ Reading(l)}
WriteHolders == {l \in LWP : Holding(l) /\ Writing(l)}

(* The actions of RWLockSpec in terms of these.                            *)
LEMMA AbstractSteps ==
  /\ RWLock!Init <=> ReadHolders = {} /\ WriteHolders = {}
  /\ \A l \in LWP : /\ WriteHolders = {} /\ ReadHolders' = ReadHolders \cup {l} /\ WriteHolders' = WriteHolders
                    => RWLock!Next
  /\ \A l \in LWP : /\ WriteHolders = {} /\ ReadHolders = {} /\ WriteHolders' = {l} /\ ReadHolders' = ReadHolders
                    => RWLock!Next
  /\ \A l \in LWP : /\ l \in ReadHolders \cup WriteHolders
                    /\ ReadHolders' = ReadHolders \ {l} /\ WriteHolders' = WriteHolders \ {l}
                    => RWLock!Next
BY DEF ReadHolders, WriteHolders, RWLock!Init, RWLock!Next, RWLock!Read, RWLock!Write, RWLock!Unlock

(* A caller that holds the lock is in rdlock or in wrlock, and has it.     *)
LEMMA HoldingHas ==
  ASSUME TypeInv, NEW l \in LWP, Holding(l)
  PROVE  Has(l) /\ ((Reading(l) /\ ~Writing(l)) \/ (Writing(l) /\ ~Reading(l)))
<1>1. pc[l] \in {"chkBusy", "mode", "settle", "joined", "held"}
  BY DEF Holding
<1>2. Has(l) /\ pc[l] \in ReaderPcs \cup CallPcs
  BY <1>1 DEF Has, HeldPcs, ReaderPcs, CallPcs
<1>3. call[l] \in {"rdlock", "tryrdlock", "wrlock", "trywrlock"}
  BY <1>2 DEF TypeInv
<1>. QED
  BY <1>2, <1>3 DEF Reading, Writing

(* Taking rw_avail, and joining a reader, get the lock; a call of          *)
(* rwsleep_unlock gives it up; no other step does either.                  *)
LEMMA StepRefines ==
  ASSUME HoldInv, HoldInv', NEW l \in LWP, Steps(l)
  PROVE  RWLock!Next \/ (ReadHolders' = ReadHolders /\ WriteHolders' = WriteHolders)
<1>. USE DEF HoldInv
<1>0. \A m \in LWP : l # m => /\ (Holding(m)' <=> Holding(m))
                              /\ (Reading(m)' <=> Reading(m)) /\ (Writing(m)' <=> Writing(m))
  BY OthersKeep DEF Holding
<1>1. /\ ReadHolders' \subseteq LWP /\ ReadHolders \subseteq LWP
      /\ WriteHolders' \subseteq LWP /\ WriteHolders \subseteq LWP
      /\ l \in ReadHolders' <=> (Holding(l)' /\ Reading(l)')
      /\ l \in ReadHolders <=> (Holding(l) /\ Reading(l))
      /\ l \in WriteHolders' <=> (Holding(l)' /\ Writing(l)')
      /\ l \in WriteHolders <=> (Holding(l) /\ Writing(l))
      /\ \A m \in LWP : l # m => /\ m \in ReadHolders' <=> m \in ReadHolders
                                 /\ m \in WriteHolders' <=> m \in WriteHolders
  BY <1>0 DEF ReadHolders, WriteHolders
<1>2. CASE Take(l) \/ Raced(l)
  <2>1. avail /\ Holding(l)'
    BY <1>2 DEF Take, Raced, Goto, TypeInv, Holding
  <2>2. ReadHolders = {} /\ WriteHolders = {}
    BY <2>1, HoldingHas DEF ReadExact, ReadHolders, WriteHolders
  <2>3. (Reading(l)' /\ ~Writing(l)') \/ (Writing(l)' /\ ~Reading(l)')
    <3>1. pc'[l] \in CallPcs \cup ReaderPcs
      BY <2>1 DEF Holding, CallPcs, ReaderPcs
    <3>2. call'[l] \in {"rdlock", "tryrdlock", "wrlock", "trywrlock"}
      BY <3>1 DEF TypeInv
    <3>. QED
      BY <3>2 DEF Reading, Writing
  <2>4. CASE Reading(l)' /\ ~Writing(l)'
    <3>1. ReadHolders' = ReadHolders \cup {l} /\ WriteHolders' = WriteHolders
      BY <1>1, <2>1, <2>2, <2>4
    <3>. QED
      BY <2>2, <3>1, AbstractSteps
  <2>5. CASE Writing(l)' /\ ~Reading(l)'
    <3>1. ReadHolders' = ReadHolders /\ WriteHolders' = {l}
      BY <1>1, <2>1, <2>2, <2>5
    <3>. QED
      BY <2>2, <3>1, AbstractSteps
  <2>. QED
    BY <2>3, <2>4, <2>5
<1>3. CASE JoinMode(l) /\ Holding(l)'
  <2>1. mode = "READ" /\ Reading(l)' /\ ~Writing(l)'
    BY <1>3 DEF JoinMode, Goto, TypeInv, ReaderPcs, Holding, Reading, Writing, lwpVars
  <2>2. WriteHolders = {}
    BY <2>1, HoldingHas, ReadNotAlone DEF Alone, WriteHolders
  <2>3. ReadHolders' = ReadHolders \cup {l} /\ WriteHolders' = WriteHolders
    BY <1>1, <1>3, <2>1, <2>2
  <2>. QED
    BY <2>2, <2>3, AbstractSteps
<1>4. CASE Unlock(l)
  <2>1. Holding(l) /\ ~Holding(l)'
    BY <1>4 DEF Unlock, Goto, TypeInv, Holding
  <2>2. l \in ReadHolders \cup WriteHolders
    BY <1>1, <2>1, HoldingHas
  <2>3. ReadHolders' = ReadHolders \ {l} /\ WriteHolders' = WriteHolders \ {l}
    BY <1>1, <2>1
  <2>. QED
    BY <2>2, <2>3, AbstractSteps
<1>5. CASE ~(Take(l) \/ Raced(l) \/ (JoinMode(l) /\ Holding(l)') \/ Unlock(l))
  <2>1. /\ Holding(l)' <=> Holding(l)
        /\ Holding(l) => (Reading(l)' <=> Reading(l)) /\ (Writing(l)' <=> Writing(l))
    <3>. USE DEF TypeInv, Goto, Denied, lockVars, lwpVars, Holding, Reading, Writing
    <3>1. CASE Start(l) \/ TakeFails(l)
      BY <3>1, <1>5 DEF Start, TakeFails
    <3>2. CASE Peek(l) \/ Join(l) \/ JoinAvail(l)
      BY <3>2, <1>5 DEF Peek, Join, JoinAvail
    <3>3. CASE JoinMode(l) \/ Joined(l) \/ JoinUndo(l)
      BY <3>3, <1>5 DEF JoinMode, Joined, JoinUndo
    <3>4. CASE LockFspin(l) \/ NotRaced(l)
      BY <3>4, <1>5 DEF LockFspin, NotRaced
    <3>5. CASE RacedBusy(l) \/ LateJoin(l) \/ EnqueueWords(l)
      BY <3>5, <1>5 DEF RacedBusy, LateJoin, EnqueueWords
    <3>6. CASE Swtch(l) \/ Resume(l) \/ SetMode(l) \/ Settle(l)
      BY <3>6, <1>5 DEF Swtch, Resume, SetMode, Settle
    <3>7. CASE LastSpin(l) \/ LastRead(l)
      BY <3>7, <1>5 DEF LastSpin, LastRead
    <3>8. CASE Unset(l) \/ AgainSpin(l) \/ AgainRead(l) \/ AgainMode(l)
      BY <3>8, <1>5 DEF Unset, AgainSpin, AgainRead, AgainMode
    <3>9. CASE SharedLock(l) \/ SharedTest(l) \/ Leave(l)
      BY <3>9, <1>5 DEF SharedLock, SharedTest, Leave
    <3>10. CASE Free(l) \/ SetBusy(l) \/ Release(l)
      BY <3>10, <1>5 DEF Free, SetBusy, Release
    <3>11. CASE RecheckSpin(l) \/ RecheckQueue(l) \/ Retake(l)
      BY <3>11, <1>5 DEF RecheckSpin, RecheckQueue, Retake
    <3>12. CASE DequeueLock(l) \/ DequeueWords(l) \/ DequeueUnlock(l) \/ WakeWords(l)
      BY <3>12, <1>5 DEF DequeueLock, DequeueWords, DequeueUnlock, WakeWords
    <3>. QED
      BY <1>5, <3>1, <3>2, <3>3, <3>4, <3>5, <3>6, <3>7, <3>8, <3>9, <3>10, <3>11, <3>12 DEF Steps
  <2>2. ReadHolders' = ReadHolders /\ WriteHolders' = WriteHolders
    BY <1>1, <2>1
  <2>. QED
    BY <2>2
<1>. QED
  BY <1>2, <1>3, <1>4, <1>5

(* Every behaviour of the sleep lock is one of RWLockSpec.                 *)
THEOREM Refinement == Spec => ImplementsRWLock
<1>1. Init => RWLock!Init
  <2>1. SUFFICES ASSUME Init PROVE ReadHolders = {} /\ WriteHolders = {}
    BY AbstractSteps
  <2>. QED
    <3>1. \A l \in LWP : ~Holding(l)
      <4>1. HoldInv
        BY <2>1, InitHold
      <4>2. avail
        BY <2>1, Zenon DEF Init
      <4>. QED
        BY <4>1, <4>2, HoldingHas DEF HoldInv, ReadExact
    <3>. QED
      BY <3>1 DEF ReadHolders, WriteHolders
<1>2. ASSUME HoldInv, HoldInv', [Next]_vars
      PROVE  RWLock!Next \/ (ReadHolders' = ReadHolders /\ WriteHolders' = WriteHolders)
  <2>1. CASE UNCHANGED vars
    <3>1. \A l \in LWP : /\ Holding(l)' <=> Holding(l)
                         /\ Reading(l)' <=> Reading(l)
                         /\ Writing(l)' <=> Writing(l)
      BY <2>1 DEF vars, lockVars, lwpVars, Holding, Reading, Writing
    <3>. QED
      BY <3>1 DEF ReadHolders, WriteHolders
  <2>2. CASE Next
    <3>1. PICK l \in LWP : Acts(l)
      BY <2>2 DEF Next, Acts
    <3>2. Steps(l)
      BY <1>2, <3>1, StepIs DEF HoldInv
    <3>. QED
      BY <1>2, <3>2, StepRefines
  <2>. QED
    BY <1>2, <2>1, <2>2
<1>3. HoldInv /\ HoldInv' /\ [Next]_vars
        => [RWLock!Next]_<<{l \in LWP : Holding(l) /\ Reading(l)}, {l \in LWP : Holding(l) /\ Writing(l)}>>
  BY <1>2 DEF ReadHolders, WriteHolders
<1>. QED
  BY <1>1, <1>3, HoldInvariance, PTL DEF Spec, ImplementsRWLock, RWLock!Spec

-----------------------------------------------------------------------------
(***************************************************************************)
(* Sequences without repetition.                                           *)

(* An empty sequence has no members, and only an empty one.                *)
LEMMA EmptyInSeq ==
  ASSUME NEW s \in Seq(LWP)
  PROVE  /\ s = <<>> <=> Len(s) = 0
         /\ s = <<>> <=> InSeq(s) = {}
         /\ InSeq(s) \subseteq LWP /\ InSeq(<<>>) = {} /\ Distinct(<<>>) /\ <<>> \in Seq(LWP)
<1>1. Len(s) \in Nat /\ (s = <<>> <=> Len(s) = 0) /\ Len(<<>>) = 0 /\ <<>> \in Seq(LWP)
  BY EmptySeq, LenProperties
<1>2. Len(s) # 0 => s[1] \in InSeq(s)
  BY <1>1 DEF InSeq
<1>3. \A i \in 1..Len(s) : s[i] \in LWP
  BY ElementOfSeq
<1>4. InSeq(<<>>) = {} /\ Distinct(<<>>)
  BY <1>1 DEF InSeq, Distinct
<1>5. InSeq(s) \subseteq LWP
  BY <1>3 DEF InSeq
<1>. QED
  BY <1>1, <1>2, <1>4, <1>5

(* A sequence into which l is inserted after the first i.                  *)
LEMMA Inserted ==
  ASSUME NEW s \in Seq(LWP), NEW l \in LWP, NEW i \in 0..Len(s)
  PROVE  LET t == SubSeq(s, 1, i) \o <<l>> \o SubSeq(s, i + 1, Len(s))
         IN  /\ t \in Seq(LWP) /\ InSeq(t) = InSeq(s) \cup {l}
             /\ Distinct(s) /\ l \notin InSeq(s) => Distinct(t)
<1>0. Len(s) \in Nat /\ i \in Nat /\ i =< Len(s) /\ \A j \in 1..Len(s) : s[j] \in LWP
  BY LenProperties, ElementOfSeq
<1>. DEFINE a == SubSeq(s, 1, i)
            c == SubSeq(s, i + 1, Len(s))
            b == <<l>>
            t == (a \o b) \o c
<1>1. a \in Seq(LWP) /\ Len(a) = i /\ \A j \in 1..i : a[j] = s[j]
  <2>1. \A j \in 1..i : s[j] \in LWP
    BY <1>0
  <2>2. /\ SubSeq(s, 1, i) \in Seq(LWP)
        /\ Len(SubSeq(s, 1, i)) = IF 1 <= i THEN i - 1 + 1 ELSE 0
        /\ \A j \in 1..(i - 1 + 1) : SubSeq(s, 1, i)[j] = s[1 + j - 1]
    BY <1>0, <2>1, SubSeqProperties
  <2>3. ASSUME NEW j \in 1..i PROVE a[j] = s[j]
    <3>1. j \in 1..(i - 1 + 1) /\ 1 + j - 1 = j
      BY <1>0
    <3>. QED
      BY <2>2, <3>1
  <2>. QED
    BY <1>0, <2>2, <2>3
<1>2. c \in Seq(LWP) /\ Len(c) = Len(s) - i /\ \A j \in 1..(Len(s) - i) : c[j] = s[i + j]
  <2>1. \A j \in (i + 1)..Len(s) : s[j] \in LWP
    BY <1>0
  <2>2. /\ SubSeq(s, i + 1, Len(s)) \in Seq(LWP)
        /\ Len(SubSeq(s, i + 1, Len(s))) = IF i + 1 <= Len(s) THEN Len(s) - (i + 1) + 1 ELSE 0
        /\ \A j \in 1..(Len(s) - (i + 1) + 1) : SubSeq(s, i + 1, Len(s))[j] = s[i + 1 + j - 1]
    BY <1>0, <2>1, SubSeqProperties
  <2>3. ASSUME NEW j \in 1..(Len(s) - i) PROVE c[j] = s[i + j]
    <3>1. j \in 1..(Len(s) - (i + 1) + 1) /\ i + 1 + j - 1 = i + j
      BY <1>0
    <3>. QED
      BY <2>2, <3>1
  <2>. QED
    BY <1>0, <2>2, <2>3
<1>3. b \in Seq(LWP) /\ Len(b) = 1 /\ b[1] = l
  OBVIOUS
<1>. HIDE DEF a, b, c
<1>4. /\ a \o b \in Seq(LWP) /\ Len(a \o b) = i + 1
      /\ \A j \in 1..(i + 1) : (a \o b)[j] = IF j <= i THEN s[j] ELSE l
  <2>1. /\ a \o b \in Seq(LWP) /\ Len(a \o b) = Len(a) + Len(b)
        /\ \A j \in 1..(Len(a) + Len(b)) : (a \o b)[j] = IF j <= Len(a) THEN a[j] ELSE b[j - Len(a)]
    BY <1>1, <1>3, ConcatProperties
  <2>2. ASSUME NEW j \in 1..(i + 1) PROVE (a \o b)[j] = IF j <= i THEN s[j] ELSE l
    <3>1. CASE j <= i
      BY <3>1, <2>1, <1>0, <1>1, <1>3
    <3>2. CASE ~(j <= i)
      <4>1. j = i + 1 /\ j - i = 1
        BY <3>2, <1>0
      <4>. QED
        BY <3>2, <4>1, <2>1, <1>1, <1>3
    <3>. QED
      BY <3>1, <3>2
  <2>. QED
    BY <1>1, <1>3, <2>1, <2>2
<1>5. /\ t \in Seq(LWP) /\ Len(t) = Len(s) + 1
      /\ \A j \in 1..i : t[j] = s[j]
      /\ t[i + 1] = l
      /\ \A j \in (i + 2)..(Len(s) + 1) : t[j] = s[j - 1]
  <2>1. /\ t \in Seq(LWP) /\ Len(t) = Len(a \o b) + Len(c)
        /\ \A j \in 1..(Len(a \o b) + Len(c)) :
             t[j] = IF j <= Len(a \o b) THEN (a \o b)[j] ELSE c[j - Len(a \o b)]
    BY <1>2, <1>4, ConcatProperties DEF t
  <2>. HIDE DEF t
  <2>2. Len(t) = Len(s) + 1
    BY <2>1, <1>0, <1>2, <1>4
  <2>3. ASSUME NEW j \in 1..i PROVE t[j] = s[j]
    <3>1. j \in 1..(Len(a \o b) + Len(c)) /\ j <= Len(a \o b) /\ j \in 1..(i + 1) /\ j <= i
      BY <1>0, <1>2, <1>4
    <3>2. t[j] = (a \o b)[j] /\ (a \o b)[j] = s[j]
      BY <2>1, <1>4, <3>1
    <3>. QED
      BY <3>2
  <2>4. t[i + 1] = l
    <3>1. /\ i + 1 \in 1..(Len(a \o b) + Len(c)) /\ i + 1 <= Len(a \o b)
          /\ i + 1 \in 1..(i + 1) /\ ~(i + 1 <= i)
      BY <1>0, <1>2, <1>4
    <3>2. t[i + 1] = (a \o b)[i + 1] /\ (a \o b)[i + 1] = l
      BY <2>1, <1>4, <3>1
    <3>. QED
      BY <3>2
  <2>5. ASSUME NEW j \in (i + 2)..(Len(s) + 1) PROVE t[j] = s[j - 1]
    <3>1. /\ j \in 1..(Len(a \o b) + Len(c)) /\ ~(j <= Len(a \o b))
          /\ j - (i + 1) \in 1..(Len(s) - i) /\ i + (j - (i + 1)) = j - 1
      BY <1>0, <1>2, <1>4
    <3>. QED
      BY <2>1, <3>1, <1>2, <1>4
  <2>. QED
    BY <2>1, <2>2, <2>3, <2>4, <2>5
<1>. HIDE DEF t
<1>6. \A j \in 1..Len(t) : \/ j \in 1..i /\ t[j] = s[j]
                           \/ j = i + 1 /\ t[j] = l
                           \/ j - 1 \in (i + 1)..Len(s) /\ t[j] = s[j - 1]
  <2>. TAKE j \in 1..Len(t)
  <2>1. j \in 1..i \/ j = i + 1 \/ (j \in (i + 2)..(Len(s) + 1) /\ j - 1 \in (i + 1)..Len(s))
    BY <1>0, <1>5
  <2>. QED
    BY <1>5, <2>1
<1>7. InSeq(t) = InSeq(s) \cup {l}
  <2>1. \A x \in InSeq(t) : x \in InSeq(s) \cup {l}
    BY <1>0, <1>6 DEF InSeq
  <2>2. l \in InSeq(t)
    BY <1>0, <1>5 DEF InSeq
  <2>3. ASSUME NEW j \in 1..Len(s) PROVE s[j] \in InSeq(t)
    <3>1. CASE j =< i
      BY <3>1, <1>0, <1>5 DEF InSeq
    <3>2. CASE ~(j =< i)
      <4>1. j + 1 \in (i + 2)..(Len(s) + 1) /\ j + 1 \in 1..Len(t) /\ (j + 1) - 1 = j
        BY <3>2, <1>0, <1>5
      <4>2. t[j + 1] = s[j]
        BY <4>1, <1>5
      <4>. QED
        BY <4>1, <4>2 DEF InSeq
    <3>. QED
      BY <3>1, <3>2
  <2>. QED
    BY <2>1, <2>2, <2>3 DEF InSeq
<1>8. ASSUME Distinct(s), l \notin InSeq(s)
      PROVE  Distinct(t)
  <2>1. \A j \in 1..Len(s) : s[j] # l
    BY <1>8 DEF InSeq
  <2>2. \A j, k \in 1..Len(s) : s[j] = s[k] => j = k
    BY <1>8 DEF Distinct
  <2>3. ASSUME NEW j \in 1..Len(t), NEW k \in 1..Len(t), t[j] = t[k]
        PROVE  j = k
    BY <1>0, <1>6, <2>1, <2>2, <2>3
  <2>. QED
    BY <2>3 DEF Distinct
<1>. QED
  BY <1>5, <1>7, <1>8 DEF t, a, b, c

(* What is left of a sequence after its first n.                           *)
LEMMA Rest ==
  ASSUME NEW s \in Seq(LWP), NEW n \in 0..Len(s)
  PROVE  LET t == SubSeq(s, n + 1, Len(s))
         IN  /\ t \in Seq(LWP) /\ Len(t) = Len(s) - n
             /\ \A j \in 1..(Len(s) - n) : t[j] = s[n + j]
<1>. DEFINE t == SubSeq(s, n + 1, Len(s))
<1>0. Len(s) \in Nat /\ n \in Nat /\ n =< Len(s) /\ \A j \in 1..Len(s) : s[j] \in LWP
  BY LenProperties, ElementOfSeq
<1>2. t \in Seq(LWP) /\ Len(t) = Len(s) - n /\ \A j \in 1..(Len(s) - n) : t[j] = s[n + j]
  <2>1. \A j \in (n + 1)..Len(s) : s[j] \in LWP
    BY <1>0
  <2>2. /\ SubSeq(s, n + 1, Len(s)) \in Seq(LWP)
        /\ Len(SubSeq(s, n + 1, Len(s))) = IF n + 1 <= Len(s) THEN Len(s) - (n + 1) + 1 ELSE 0
        /\ \A j \in 1..(Len(s) - (n + 1) + 1) : SubSeq(s, n + 1, Len(s))[j] = s[n + 1 + j - 1]
    BY <1>0, <2>1, SubSeqProperties
  <2>3. ASSUME NEW j \in 1..(Len(s) - n) PROVE t[j] = s[n + j]
    <3>1. j \in 1..(Len(s) - (n + 1) + 1) /\ n + 1 + j - 1 = n + j
      BY <1>0
    <3>. QED
      BY <2>2, <3>1
  <2>. QED
    BY <1>0, <2>2, <2>3
<1>. QED
  BY <1>2

(* A sequence cut after the first n, which are pushed on a chain.          *)
CutAt(s, n, r, t) ==
  /\ s \in Seq(LWP) /\ Distinct(s) /\ n \in 0..Len(s)
  /\ r \in [1..n -> LWP] /\ \A i \in 1..n : r[i] = s[n + 1 - i]
  /\ t \in Seq(LWP) /\ Len(t) = Len(s) - n /\ \A i \in 1..(Len(s) - n) : t[i] = s[n + i]

(* They make two sequences, in which every LWP is once.                    *)
LEMMA Split ==
  ASSUME NEW s, NEW n, NEW r, NEW t, CutAt(s, n, r, t)
  PROVE  /\ r \in Seq(LWP) /\ t \in Seq(LWP) /\ Distinct(r) /\ Distinct(t)
         /\ InSeq(r) \cup InSeq(t) = InSeq(s)
         /\ \A x \in InSeq(r) : x \notin InSeq(t)
         /\ n # 0 => r # <<>>
<1>0. /\ Len(s) \in Nat /\ n \in Nat /\ n =< Len(s) /\ \A j \in 1..Len(s) : s[j] \in LWP
      /\ \A j, k \in 1..Len(s) : s[j] = s[k] => j = k
  BY LenProperties, ElementOfSeq DEF CutAt, Distinct
<1>1. r \in Seq(LWP) /\ Len(r) = n /\ \A j \in 1..n : r[j] = s[n + 1 - j]
  <2>2. r \in [1..n -> LWP] /\ \A j \in 1..n : r[j] = s[n + 1 - j]
    BY DEF CutAt
  <2>3. r \in Seq(LWP)
    BY <1>0, <2>2, SeqDef
  <2>4. DOMAIN r = 1..Len(r) /\ DOMAIN r = 1..n /\ Len(r) \in Nat
    BY <2>2, <2>3, LenProperties
  <2>. QED
    BY <1>0, <2>2, <2>3, <2>4
<1>2. t \in Seq(LWP) /\ Len(t) = Len(s) - n /\ \A j \in 1..(Len(s) - n) : t[j] = s[n + j]
  BY DEF CutAt
<1>3. Distinct(r)
  <2>1. ASSUME NEW j \in 1..n, NEW k \in 1..n, r[j] = r[k]
        PROVE  j = k
    <3>1. n + 1 - j \in 1..Len(s) /\ n + 1 - k \in 1..Len(s) /\ s[n + 1 - j] = s[n + 1 - k]
      BY <1>0, <1>1, <2>1
    <3>2. n + 1 - j = n + 1 - k
      BY <1>0, <3>1
    <3>. QED
      BY <1>0, <3>2
  <2>. QED
    BY <1>1, <2>1 DEF Distinct
<1>4. Distinct(t)
  <2>1. ASSUME NEW j \in 1..(Len(s) - n), NEW k \in 1..(Len(s) - n), t[j] = t[k]
        PROVE  j = k
    <3>1. n + j \in 1..Len(s) /\ n + k \in 1..Len(s) /\ s[n + j] = s[n + k]
      BY <1>0, <1>2, <2>1
    <3>2. n + j = n + k
      BY <1>0, <3>1
    <3>. QED
      BY <1>0, <3>2
  <2>. QED
    BY <1>2, <2>1 DEF Distinct
<1>5. InSeq(r) = {s[k] : k \in 1..n}
  <2>1. ASSUME NEW j \in 1..n PROVE r[j] \in {s[k] : k \in 1..n} /\ s[j] \in {r[k] : k \in 1..n}
    <3>1. n + 1 - j \in 1..n /\ n + 1 - (n + 1 - j) = j
      BY <1>0
    <3>2. r[j] = s[n + 1 - j] /\ r[n + 1 - j] = s[j]
      BY <1>1, <3>1
    <3>. QED
      BY <3>1, <3>2
  <2>2. \A j \in 1..n : r[j] \in {s[k] : k \in 1..n} /\ s[j] \in {r[k] : k \in 1..n}
    BY <2>1
  <2>3. {r[k] : k \in 1..n} = {s[k] : k \in 1..n}
    BY <2>2
  <2>4. InSeq(r) = {r[k] : k \in 1..n}
    BY <1>1 DEF InSeq
  <2>. QED
    BY <2>3, <2>4
<1>6. InSeq(t) = {s[k] : k \in (n + 1)..Len(s)}
  <2>1. ASSUME NEW j \in 1..(Len(s) - n) PROVE t[j] \in {s[k] : k \in (n + 1)..Len(s)}
    <3>1. n + j \in (n + 1)..Len(s)
      BY <1>0
    <3>. QED
      BY <1>2, <3>1
  <2>2. ASSUME NEW k \in (n + 1)..Len(s) PROVE s[k] \in {t[j] : j \in 1..(Len(s) - n)}
    <3>1. k - n \in 1..(Len(s) - n) /\ n + (k - n) = k
      BY <1>0
    <3>2. t[k - n] = s[k]
      BY <1>2, <3>1
    <3>. QED
      BY <3>1, <3>2
  <2>. QED
    BY <1>2, <2>1, <2>2 DEF InSeq
<1>7. InSeq(r) \cup InSeq(t) = InSeq(s)
  <2>1. 1..Len(s) = (1..n) \cup ((n + 1)..Len(s))
    BY <1>0
  <2>. QED
    BY <1>5, <1>6, <2>1 DEF InSeq
<1>8. ASSUME NEW x \in InSeq(r), x \in InSeq(t) PROVE FALSE
  <2>1. PICK j \in 1..n : x = s[j]
    BY <1>5
  <2>2. PICK k \in (n + 1)..Len(s) : x = s[k]
    BY <1>6, <1>8
  <2>3. j \in 1..Len(s) /\ k \in 1..Len(s) /\ j # k
    BY <1>0
  <2>. QED
    BY <1>0, <2>1, <2>2, <2>3
<1>9. n # 0 => r # <<>>
  BY <1>1
<1>. QED
  BY <1>1, <1>2, <1>3, <1>4, <1>7, <1>8, <1>9

(* A sequence without its head.                                            *)
LEMMA Beheaded ==
  ASSUME NEW s \in Seq(LWP), s # <<>>, Distinct(s)
  PROVE  /\ Tail(s) \in Seq(LWP) /\ Distinct(Tail(s))
         /\ Head(s) \in InSeq(s) /\ InSeq(Tail(s)) = InSeq(s) \ {Head(s)}
         /\ Len(s) = 1 <=> Tail(s) = <<>>
<1>0. /\ Len(s) \in Nat /\ Len(s) # 0 /\ Head(s) = s[1]
      /\ \A j, k \in 1..Len(s) : s[j] = s[k] => j = k
  BY LenProperties, EmptySeq DEF Distinct
<1>1. /\ Tail(s) \in Seq(LWP) /\ Len(Tail(s)) = Len(s) - 1
      /\ \A j \in 1..(Len(s) - 1) : Tail(s)[j] = s[j + 1]
  BY <1>0, HeadTailProperties
<1>2. Distinct(Tail(s))
  <2>1. ASSUME NEW j \in 1..(Len(s) - 1), NEW k \in 1..(Len(s) - 1), Tail(s)[j] = Tail(s)[k]
        PROVE  j = k
    <3>1. j + 1 \in 1..Len(s) /\ k + 1 \in 1..Len(s) /\ s[j + 1] = s[k + 1]
      BY <1>0, <1>1, <2>1
    <3>2. j + 1 = k + 1
      BY <1>0, <3>1
    <3>. QED
      BY <1>0, <3>2
  <2>. QED
    BY <1>1, <2>1 DEF Distinct
<1>3. Head(s) \in InSeq(s)
  BY <1>0 DEF InSeq
<1>4. ASSUME NEW j \in 1..(Len(s) - 1) PROVE Tail(s)[j] \in InSeq(s) \ {Head(s)}
  <2>1. j + 1 \in 1..Len(s) /\ 1 \in 1..Len(s) /\ j + 1 # 1
    BY <1>0
  <2>2. Tail(s)[j] = s[j + 1] /\ s[j + 1] # s[1]
    BY <1>0, <1>1, <2>1
  <2>. QED
    BY <1>0, <2>1, <2>2 DEF InSeq
<1>5. ASSUME NEW k \in 1..Len(s), s[k] # Head(s) PROVE s[k] \in InSeq(Tail(s))
  <2>1. k - 1 \in 1..(Len(s) - 1) /\ (k - 1) + 1 = k
    BY <1>0, <1>5
  <2>2. Tail(s)[k - 1] = s[k]
    BY <1>1, <2>1
  <2>. QED
    BY <1>1, <2>1, <2>2 DEF InSeq
<1>6. InSeq(Tail(s)) = InSeq(s) \ {Head(s)}
  BY <1>1, <1>4, <1>5 DEF InSeq
<1>7. Len(s) = 1 <=> Tail(s) = <<>>
  <2>1. Tail(s) = <<>> <=> Len(Tail(s)) = 0
    BY <1>1, EmptyInSeq
  <2>. QED
    BY <1>0, <1>1, <2>1
<1>. QED
  BY <1>1, <1>2, <1>3, <1>6, <1>7

(* A nonempty set of natural numbers has a least member.                   *)
LEMMA LeastIsThere ==
  ASSUME NEW S, S \subseteq Nat, S # {}
  PROVE  \E n \in S : \A m \in 0..(n - 1) : m \notin S
<1>. DEFINE Upto(x) == {y \in S : y =< x}
            T == {Upto(x) : x \in S}
<1>1. \A x \in S : Upto(x) \subseteq S /\ IsFiniteSet(Upto(x))
  <2>. TAKE x \in S
  <2>1. x \in Int /\ 0 \in Int
    OBVIOUS
  <2>4. ASSUME NEW y \in Upto(x)
        PROVE  y \in 0..x
    <3>1. y \in S /\ y =< x
      OBVIOUS
    <3>. QED
      BY <3>1, <2>1
  <2>2. IsFiniteSet(0..x)
    BY <2>1, FS_Interval
  <2>5. Upto(x) \in SUBSET (0..x)
    BY <2>4
  <2>6. Upto(x) \subseteq S
    OBVIOUS
  <2>. HIDE DEF Upto
  <2>3. IsFiniteSet(Upto(x))
    BY <2>5, <2>2, FS_Subset
  <2>. QED
    BY <2>3, <2>6
<1>2. T \subseteq FiniteSubsetsOf(S) /\ T # {}
  BY <1>1 DEF FiniteSubsetsOf
<1>3. PICK U \in T : \A V \in T : <<V, U>> \notin StrictSubsetOrdering(S)
  BY <1>2, FS_StrictSubsetOrderingWellFounded, WFMin
<1>4. PICK x \in S : U = Upto(x)
  OBVIOUS
<1>5. ASSUME NEW y \in S, y < x
      PROVE  FALSE
  <2>. y \in Nat /\ x \in Nat
    OBVIOUS
  <2>1. x \in Upto(x) /\ x \notin Upto(y)
    BY <1>5
  <2>3. ASSUME NEW z \in Upto(y)
        PROVE  z \in Upto(x)
    <3>1. z \in S /\ z =< y /\ z \in Nat
      OBVIOUS
    <3>. QED
      BY <3>1, <1>5
  <2>2. Upto(y) \in SUBSET S /\ Upto(x) \in SUBSET S /\ Upto(y) # Upto(x)
    BY <2>1
  <2>. QED
    <3>1. Upto(y) \in T /\ Upto(y) \subseteq Upto(x)
      BY <2>3
    <3>2. <<Upto(y), Upto(x)>> \notin StrictSubsetOrdering(S)
      BY <1>3, <1>4, <3>1
    <3>. HIDE DEF Upto
    <3>. QED
      BY <3>1, <3>2, <2>2 DEF StrictSubsetOrdering
<1>6. \A m \in 0..(x - 1) : m < x
  OBVIOUS
<1>. QED
  BY <1>5, <1>6

(* rwsleep_dequeue takes no more LWPs than there are, and at least one.    *)
LEMMA WokenIn ==
  ASSUME queue \in Seq(LWP), NEW loaded, NEW ws, NEW ws2
  PROVE  /\ Woken(loaded, ws, ws2) \in 0..Len(queue)
         /\ queue # <<>> => Woken(loaded, ws, ws2) # 0
<1>. DEFINE Stops(n) == \/ n = Len(queue)
                        \/ n > 0 /\ queue[n] \in loaded \cap ws2
                        \/ queue[n + 1] \in ws /\ \E i \in 1..n : queue[i] \in loaded
            First(n) == Stops(n) /\ \A m \in 0..(n - 1) : ~Stops(m)
<1>0. Len(queue) \in Nat /\ (queue = <<>> <=> Len(queue) = 0)
  BY LenProperties, EmptySeq
<1>1. Stops(Len(queue)) /\ (Len(queue) # 0 => ~Stops(0))
  BY <1>0
<1>2. Woken(loaded, ws, ws2) = CHOOSE n \in 0..Len(queue) : First(n)
  BY DEF Woken
<1>. HIDE DEF Stops
<1>3. \E n \in 0..Len(queue) : First(n)
  <2>. DEFINE S == {n \in 0..Len(queue) : Stops(n)}
  <2>1. S \subseteq Nat /\ S # {}
    BY <1>0, <1>1
  <2>2. PICK n \in S : \A m \in 0..(n - 1) : m \notin S
    BY <2>1, LeastIsThere
  <2>3. ASSUME NEW m \in 0..(n - 1) PROVE ~Stops(m)
    <3>1. m \in 0..Len(queue)
      BY <1>0
    <3>. QED
      BY <2>2, <3>1
  <2>. QED
    BY <2>3
<1>. HIDE DEF First
<1>4. Woken(loaded, ws, ws2) \in 0..Len(queue) /\ First(Woken(loaded, ws, ws2))
  BY <1>2, <1>3
<1>. QED
  BY <1>0, <1>1, <1>4 DEF First

-----------------------------------------------------------------------------
(***************************************************************************)
(* The LWPs that sleep.                                                    *)

(* The steps that move an LWP between rw_list, a wakeup chain and its      *)
(* sleep, and what the others leave alone.                                 *)
ListActs(l) == Enqueue(l) \/ Swtch(l) \/ Dequeue(l) \/ DequeueUnlock(l) \/ Wake(l)

Elsewhere(l) ==
  /\ UNCHANGED <<queue, chain, stat>>
  /\ pc[l] \notin {"sleep", "deqdone", "wake"} /\ pc'[l] \notin {"sleep", "deqdone", "wake"}
  /\ pc[l] = "asleep" => stat[l] = "SRUN"

(* A step that is none of those leaves these alone.                        *)
LEMMA QuietSteps ==
  ASSUME TypeInv, NEW l \in LWP, Acts(l), ~ListActs(l)
  PROVE  Elsewhere(l)
<1>. USE DEF TypeInv, Goto, Denied, lockVars, lwpVars, Elsewhere
<1>1. CASE Start(l) \/ Take(l) \/ TakeFails(l)
  BY <1>1 DEF Start, Take, TakeFails
<1>2. CASE Peek(l) \/ Join(l) \/ JoinAvail(l)
  BY <1>2 DEF Peek, Join, JoinAvail
<1>3. CASE JoinMode(l) \/ Joined(l) \/ JoinUndo(l)
  BY <1>3 DEF JoinMode, Joined, JoinUndo
<1>4. CASE LockFspin(l) \/ Raced(l) \/ NotRaced(l)
  BY <1>4 DEF LockFspin, Raced, NotRaced
<1>5. CASE RacedBusy(l) \/ LateJoin(l)
  BY <1>5 DEF RacedBusy, LateJoin
<1>6. CASE Resume(l) \/ SetMode(l) \/ Settle(l)
  BY <1>6 DEF Resume, SetMode, Settle
<1>7. CASE Unlock(l) \/ LastSpin(l) \/ LastRead(l)
  BY <1>7 DEF Unlock, LastSpin, LastRead
<1>8. CASE Unset(l) \/ AgainSpin(l) \/ AgainRead(l) \/ AgainMode(l)
  BY <1>8 DEF Unset, AgainSpin, AgainRead, AgainMode
<1>9. CASE SharedLock(l) \/ SharedTest(l) \/ Leave(l)
  BY <1>9 DEF SharedLock, SharedTest, Leave
<1>10. CASE Free(l) \/ SetBusy(l) \/ Release(l)
  BY <1>10 DEF Free, SetBusy, Release
<1>11. CASE RecheckSpin(l) \/ RecheckQueue(l) \/ Retake(l)
  BY <1>11 DEF RecheckSpin, RecheckQueue, Retake
<1>12. CASE DequeueLock(l)
  BY <1>12 DEF DequeueLock
<1>. QED
  BY <1>1, <1>2, <1>3, <1>4, <1>5, <1>6, <1>7, <1>8, <1>9, <1>10, <1>11, <1>12 DEF Acts, ListActs, LockStep, UnlockStep

(* An LWP on the list or a chain is where a wakeup finds it.               *)
LEMMA ListFacts ==
  ASSUME ListInv, NEW l \in LWP, pc[l] \notin {"sleep", "asleep"}
  PROVE  stat[l] = "SRUN" /\ ~Listed(l)
BY DEF ListInv

(* An LWP that queues up is listed.                                        *)
LEMMA EnqueueList ==
  ASSUME HoldInv, ListInv, NEW l \in LWP, Enqueue(l), \A m \in LWP : l # m => pc'[m] = pc[m]
  PROVE  ListInv' /\ queue' # <<>>
<1>. USE DEF HoldInv
<1>1. PICK i \in 0..Len(queue) :
        queue' = SubSeq(queue, 1, i) \o <<l>> \o SubSeq(queue, i + 1, Len(queue))
  BY Zenon DEF Enqueue
<1>2. chain' = chain /\ stat' = stat
  BY DEF Enqueue, lwpVars
<1>3. pc[l] = "ins" /\ pc'[l] = "sleep"
  BY DEF Enqueue, Goto, TypeInv
<1>4. stat[l] = "SRUN" /\ ~Listed(l)
  BY <1>3, ListFacts
<1>5. queue \in Seq(LWP) /\ Distinct(queue) /\ l \notin InSeq(queue)
  BY <1>4 DEF ListInv, Listed
<1>6. queue' \in Seq(LWP) /\ InSeq(queue') = InSeq(queue) \cup {l} /\ Distinct(queue')
  BY <1>1, <1>5, Inserted
<1>7. queue' # <<>>
  BY <1>6, EmptyInSeq
<1>8. \A u \in LWP : Disjoint(chain[u], queue')
  BY <1>4, <1>6 DEF ListInv, Disjoint, Listed
<1>9. \A m \in LWP : Listed(m)' <=> Listed(m) \/ m = l
  BY <1>2, <1>6 DEF Listed
<1>10. \A m \in LWP : Listed(m)' <=> pc'[m] = "sleep" \/ stat'[m] = "SSLEEP"
  BY <1>2, <1>3, <1>4, <1>9 DEF ListInv
<1>11. \A m \in LWP : stat'[m] = "SSLEEP" => pc'[m] = "asleep"
  BY <1>2, <1>3, <1>4 DEF ListInv
<1>12. \A u \in LWP : /\ chain'[u] # <<>> => pc'[u] \in {"deqdone", "wake"}
                      /\ pc'[u] = "wake" => chain'[u] # <<>>
  BY <1>2, <1>3 DEF ListInv
<1>. QED
  BY <1>2, <1>6, <1>7, <1>8, <1>10, <1>11, <1>12 DEF ListInv

(* swtch puts it to sleep.                                                 *)
LEMMA SwtchList ==
  ASSUME HoldInv, ListInv, NEW l \in LWP, Swtch(l), \A m \in LWP : l # m => pc'[m] = pc[m]
  PROVE  ListInv'
<1>. USE DEF HoldInv
<1>1. queue' = queue /\ chain' = chain
  BY DEF Swtch, lockVars
<1>2. pc[l] = "sleep" /\ pc'[l] = "asleep" /\ stat' = [stat EXCEPT ![l] = "SSLEEP"]
  BY DEF Swtch, Goto, TypeInv
<1>3. /\ stat' \in [LWP -> {"SSLEEP", "SRUN"}] /\ stat'[l] = "SSLEEP"
      /\ \A m \in LWP : l # m => stat'[m] = stat[m]
  BY <1>2 DEF ListInv
<1>4. \A m \in LWP : Listed(m)' <=> Listed(m)
  BY <1>1 DEF Listed
<1>5. \A m \in LWP : Listed(m)' <=> pc'[m] = "sleep" \/ stat'[m] = "SSLEEP"
  BY <1>2, <1>3, <1>4 DEF ListInv
<1>6. \A m \in LWP : stat'[m] = "SSLEEP" => pc'[m] = "asleep"
  BY <1>2, <1>3 DEF ListInv
<1>7. \A u \in LWP : /\ chain'[u] # <<>> => pc'[u] \in {"deqdone", "wake"}
                     /\ pc'[u] = "wake" => chain'[u] # <<>>
  BY <1>1, <1>2 DEF ListInv
<1>. QED
  BY <1>1, <1>3, <1>5, <1>6, <1>7 DEF ListInv

(* rwsleep_dequeue cuts the list, and counts what it takes.                *)
LEMMA DequeueCut ==
  ASSUME ListInv, NEW l \in LWP, Dequeue(l)
  PROVE  \E n, r : /\ CutAt(queue, n, r, queue') /\ (queue # <<>> => n # 0)
                   /\ chain' = [chain EXCEPT ![l] = r] /\ pend' = pend + n
<1>1. queue \in Seq(LWP) /\ Distinct(queue)
  BY DEF ListInv
<1>2. Len(queue) \in Nat /\ \A j \in 1..Len(queue) : queue[j] \in LWP
  BY <1>1, LenProperties, ElementOfSeq
<1>3. PICK loaded, ws, ws2 :
        LET n == Woken(loaded, ws, ws2)
        IN  /\ chain' = [chain EXCEPT ![l] = [i \in 1..n |-> queue[n + 1 - i]]]
            /\ queue' = SubSeq(queue, n + 1, Len(queue))
            /\ pend' = pend + n
  BY Zenon DEF Dequeue
<1>4. PICK n : n = Woken(loaded, ws, ws2)
  OBVIOUS
<1>5. n \in 0..Len(queue) /\ (queue # <<>> => n # 0)
  BY <1>1, <1>4, WokenIn
<1>6. PICK r, t : r = [i \in 1..n |-> queue[n + 1 - i]] /\ t = SubSeq(queue, n + 1, Len(queue))
  OBVIOUS
<1>7. chain' = [chain EXCEPT ![l] = r] /\ queue' = t /\ pend' = pend + n
  BY <1>3, <1>4, <1>6, Zenon
<1>8. CutAt(queue, n, r, t)
  <2>1. \A i \in 1..n : n + 1 - i \in 1..Len(queue)
    BY <1>2, <1>5
  <2>2. r \in [1..n -> LWP] /\ \A i \in 1..n : r[i] = queue[n + 1 - i]
    BY <1>2, <1>6, <2>1
  <2>3. /\ t \in Seq(LWP) /\ Len(t) = Len(queue) - n
        /\ \A j \in 1..(Len(queue) - n) : t[j] = queue[n + j]
    BY <1>1, <1>5, <1>6, Rest
  <2>. QED
    BY <1>1, <1>5, <2>2, <2>3, Zenon DEF CutAt
<1>. QED
  BY <1>5, <1>7, <1>8, Zenon

(* rwsleep_dequeue moves LWPs from the list to its chain.                  *)
LEMMA DequeueList ==
  ASSUME HoldInv, ListInv, NEW l \in LWP, Dequeue(l), \A m \in LWP : l # m => pc'[m] = pc[m]
  PROVE  ListInv' /\ (queue' # <<>> => chain'[l] # <<>>)
<1>. USE DEF HoldInv
<1>1. queue \in Seq(LWP) /\ Distinct(queue) /\ chain \in [LWP -> Seq(LWP)]
  BY DEF ListInv
<1>2. PICK n, r : /\ CutAt(queue, n, r, queue') /\ (queue # <<>> => n # 0)
                  /\ chain' = [chain EXCEPT ![l] = r]
  BY DequeueCut
<1>3. /\ r \in Seq(LWP) /\ queue' \in Seq(LWP) /\ Distinct(r) /\ Distinct(queue')
      /\ InSeq(r) \cup InSeq(queue') = InSeq(queue)
      /\ \A x \in InSeq(r) : x \notin InSeq(queue')
      /\ n # 0 => r # <<>>
  BY <1>2, Split
<1>4. pc[l] = "dequeue" /\ pc'[l] = "deqdone" /\ stat' = stat
  BY DEF Dequeue, Goto, TypeInv
<1>5. chain[l] = <<>> /\ InSeq(chain[l]) = {}
  BY <1>1, <1>4, EmptyInSeq DEF ListInv
<1>6. chain' \in [LWP -> Seq(LWP)] /\ chain'[l] = r /\ \A u \in LWP : l # u => chain'[u] = chain[u]
  BY <1>1, <1>2, <1>3
<1>7. \A m \in LWP : Listed(m)' <=> Listed(m)
  BY <1>3, <1>5, <1>6 DEF Listed
<1>8. \A u \in LWP : Distinct(chain'[u]) /\ Disjoint(chain'[u], queue')
  BY <1>3, <1>6 DEF ListInv, Disjoint
<1>9. \A u, v \in LWP : u # v => Disjoint(chain'[u], chain'[v])
  BY <1>3, <1>6 DEF ListInv, Disjoint
<1>10. queue' # <<>> => chain'[l] # <<>>
  <2>1. queue' # <<>> => queue # <<>>
    BY <1>1, <1>3, EmptyInSeq
  <2>. QED
    BY <2>1, <1>2, <1>3, <1>6
<1>11. \A m \in LWP : Listed(m)' <=> pc'[m] = "sleep" \/ stat'[m] = "SSLEEP"
  BY <1>4, <1>7 DEF ListInv
<1>12. \A m \in LWP : stat'[m] = "SSLEEP" => pc'[m] = "asleep"
  BY <1>4 DEF ListInv
<1>13. \A u \in LWP : /\ chain'[u] # <<>> => pc'[u] \in {"deqdone", "wake"}
                      /\ pc'[u] = "wake" => chain'[u] # <<>>
  BY <1>4, <1>6 DEF ListInv
<1>. QED
  BY <1>3, <1>4, <1>6, <1>8, <1>9, <1>10, <1>11, <1>12, <1>13 DEF ListInv

(* Its caller has somebody to wake, or goes.                               *)
LEMMA DequeueUnlockList ==
  ASSUME HoldInv, ListInv, NEW l \in LWP, DequeueUnlock(l), \A m \in LWP : l # m => pc'[m] = pc[m]
  PROVE  ListInv'
<1>. USE DEF HoldInv
<1>1. UNCHANGED <<queue, chain, stat>>
  BY DEF DequeueUnlock, lwpVars
<1>2. /\ pc[l] = "deqdone" /\ pc'[l] \in {"idle", "wake"}
      /\ pc'[l] = "wake" <=> chain[l] # <<>>
  BY DEF DequeueUnlock, Goto, TypeInv
<1>3. \A m \in LWP : Listed(m)' <=> Listed(m)
  BY <1>1 DEF Listed
<1>4. \A m \in LWP : Listed(m)' <=> pc'[m] = "sleep" \/ stat'[m] = "SSLEEP"
  BY <1>1, <1>2, <1>3 DEF ListInv
<1>5. \A m \in LWP : stat'[m] = "SSLEEP" => pc'[m] = "asleep"
  BY <1>1, <1>2 DEF ListInv
<1>6. \A u \in LWP : /\ chain'[u] # <<>> => pc'[u] \in {"deqdone", "wake"}
                     /\ pc'[u] = "wake" => chain'[u] # <<>>
  BY <1>1, <1>2 DEF ListInv
<1>. QED
  BY <1>1, <1>4, <1>5, <1>6 DEF ListInv

(* A wakeup finds an LWP that sleeps, and no other.                        *)
LEMMA WakeList ==
  ASSUME HoldInv, ListInv, NEW l \in LWP, Wake(l), \A m \in LWP : l # m => pc'[m] = pc[m]
  PROVE  ListInv' /\ \E h \in LWP : h # l /\ pc'[h] = "asleep" /\ stat'[h] = "SRUN"
<1>. USE DEF HoldInv
<1>. DEFINE h == Head(chain[l])
<1>1. /\ queue' = queue /\ ~HoldsLmutex(h)
      /\ stat' = [stat EXCEPT ![h] = "SRUN"] /\ chain' = [chain EXCEPT ![l] = Tail(chain[l])]
  BY DEF Wake, lockVars
<1>2. pc[l] = "wake" /\ pc'[l] = IF Len(chain[l]) = 1 THEN "idle" ELSE "wake"
  BY DEF Wake, Goto, TypeInv
<1>3. chain \in [LWP -> Seq(LWP)] /\ chain[l] # <<>> /\ Distinct(chain[l])
  BY <1>2 DEF ListInv
<1>4. /\ Tail(chain[l]) \in Seq(LWP) /\ Distinct(Tail(chain[l]))
      /\ h \in InSeq(chain[l]) /\ InSeq(Tail(chain[l])) = InSeq(chain[l]) \ {h}
      /\ Len(chain[l]) = 1 <=> Tail(chain[l]) = <<>>
  BY <1>3, Beheaded
<1>5. h \in LWP
  BY <1>3, <1>4, EmptyInSeq
<1>. HIDE DEF h
<1>6. Listed(h) /\ pc[h] # "sleep"
  BY <1>1, <1>4 DEF Listed, HoldsLmutex
<1>7. stat[h] = "SSLEEP" /\ pc[h] = "asleep" /\ h # l
  BY <1>2, <1>5, <1>6 DEF ListInv
<1>8. /\ chain' \in [LWP -> Seq(LWP)] /\ chain'[l] = Tail(chain[l])
      /\ \A u \in LWP : l # u => chain'[u] = chain[u]
  BY <1>1, <1>3, <1>4
<1>9. /\ stat' \in [LWP -> {"SSLEEP", "SRUN"}] /\ stat'[h] = "SRUN"
      /\ \A m \in LWP : h # m => stat'[m] = stat[m]
  BY <1>1, <1>5 DEF ListInv
<1>10. \A m \in LWP : Listed(m)' <=> Listed(m) /\ m # h
  <2>1. h \notin InSeq(queue) /\ \A u \in LWP : l # u => h \notin InSeq(chain[u])
    BY <1>4 DEF ListInv, Disjoint
  <2>. QED
    BY <1>1, <1>4, <1>8, <2>1 DEF Listed
<1>11. \A u \in LWP : Distinct(chain'[u]) /\ Disjoint(chain'[u], queue')
  BY <1>1, <1>4, <1>8 DEF ListInv, Disjoint
<1>12. \A u, v \in LWP : u # v => Disjoint(chain'[u], chain'[v])
  <2>1. \A u \in LWP : InSeq(chain'[u]) \subseteq InSeq(chain[u])
    BY <1>4, <1>8
  <2>2. \A u, v \in LWP : u # v => Disjoint(chain[u], chain[v])
    BY DEF ListInv
  <2>. QED
    BY <2>1, <2>2 DEF Disjoint
<1>13. \A m \in LWP : Listed(m)' <=> pc'[m] = "sleep" \/ stat'[m] = "SSLEEP"
  BY <1>2, <1>7, <1>9, <1>10 DEF ListInv
<1>14. \A m \in LWP : stat'[m] = "SSLEEP" => pc'[m] = "asleep"
  BY <1>2, <1>7, <1>9 DEF ListInv
<1>15. \A u \in LWP : /\ chain'[u] # <<>> => pc'[u] \in {"deqdone", "wake"}
                      /\ pc'[u] = "wake" => chain'[u] # <<>>
  BY <1>2, <1>4, <1>8 DEF ListInv
<1>16. pc'[h] = "asleep"
  BY <1>5, <1>7
<1>. QED
  BY <1>1, <1>5, <1>7, <1>8, <1>9, <1>11, <1>12, <1>13, <1>14, <1>15, <1>16 DEF ListInv

(* The lists stay as they should be.                                       *)
LEMMA StepList ==
  ASSUME HoldInv, ListInv, NEW l \in LWP, Acts(l)
  PROVE  ListInv'
<1>. USE DEF HoldInv
<1>1. \A m \in LWP : l # m => pc'[m] = pc[m]
  BY StepIs, Others
<1>2. CASE Enqueue(l)
  BY <1>1, <1>2, EnqueueList
<1>3. CASE Swtch(l)
  BY <1>1, <1>3, SwtchList
<1>4. CASE Dequeue(l)
  BY <1>1, <1>4, DequeueList
<1>5. CASE DequeueUnlock(l)
  BY <1>1, <1>5, DequeueUnlockList
<1>6. CASE Wake(l)
  BY <1>1, <1>6, WakeList
<1>7. CASE ~ListActs(l)
  <2>1. Elsewhere(l)
    BY <1>7, QuietSteps
  <2>2. UNCHANGED <<queue, chain, stat>>
    BY <2>1 DEF Elsewhere
  <2>3. \A m \in LWP : Listed(m)' <=> Listed(m)
    BY <2>2 DEF Listed
  <2>4. \A m \in LWP : Listed(m)' <=> pc'[m] = "sleep" \/ stat'[m] = "SSLEEP"
    BY <1>1, <2>1, <2>3 DEF ListInv, Elsewhere
  <2>5. \A m \in LWP : stat'[m] = "SSLEEP" => pc'[m] = "asleep"
    BY <1>1, <2>1 DEF ListInv, Elsewhere
  <2>6. \A u \in LWP : /\ chain'[u] # <<>> => pc'[u] \in {"deqdone", "wake"}
                       /\ pc'[u] = "wake" => chain'[u] # <<>>
    BY <1>1, <2>1 DEF ListInv, Elsewhere
  <2>. QED
    BY <2>2, <2>4, <2>5, <2>6 DEF ListInv
<1>. QED
  BY <1>2, <1>3, <1>4, <1>5, <1>6, <1>7 DEF ListActs

(* From rwsleep_dequeue an LWP goes one way.                               *)
LEMMA DequeueOnly ==
  ASSUME NEW l \in LWP, Acts(l), pc[l] = "dequeue"
  PROVE  Dequeue(l)
<1>1. CASE Start(l) \/ Take(l) \/ TakeFails(l)
  BY <1>1 DEF Start, Take, TakeFails, Goto, Denied
<1>2. CASE Peek(l) \/ Join(l) \/ JoinAvail(l)
  BY <1>2 DEF Peek, Join, JoinAvail, Goto, Denied
<1>3. CASE JoinMode(l) \/ Joined(l) \/ JoinUndo(l)
  BY <1>3 DEF JoinMode, Joined, JoinUndo, Goto, Denied
<1>4. CASE LockFspin(l) \/ Raced(l) \/ NotRaced(l)
  BY <1>4 DEF LockFspin, Raced, NotRaced, Goto, Denied
<1>5. CASE RacedBusy(l) \/ LateJoin(l) \/ Enqueue(l) \/ Swtch(l)
  BY <1>5 DEF RacedBusy, LateJoin, Enqueue, Swtch, Goto, Denied
<1>6. CASE SetMode(l) \/ Settle(l)
  BY <1>6 DEF SetMode, Settle, Goto, Denied
<1>7. CASE Unlock(l) \/ LastSpin(l) \/ LastRead(l)
  BY <1>7 DEF Unlock, LastSpin, LastRead, Goto, Denied
<1>8. CASE Unset(l) \/ AgainSpin(l) \/ AgainRead(l) \/ AgainMode(l)
  BY <1>8 DEF Unset, AgainSpin, AgainRead, AgainMode, Goto, Denied
<1>9. CASE SharedLock(l) \/ SharedTest(l) \/ Leave(l)
  BY <1>9 DEF SharedLock, SharedTest, Leave, Goto, Denied
<1>10. CASE Free(l) \/ SetBusy(l) \/ Release(l)
  BY <1>10 DEF Free, SetBusy, Release, Goto, Denied
<1>11. CASE RecheckSpin(l) \/ RecheckQueue(l) \/ Retake(l)
  BY <1>11 DEF RecheckSpin, RecheckQueue, Retake, Goto, Denied
<1>12. CASE DequeueLock(l) \/ DequeueUnlock(l) \/ Wake(l) \/ Resume(l)
  BY <1>12 DEF DequeueLock, DequeueUnlock, Wake, Resume, Goto, Denied
<1>. QED
  BY <1>1, <1>2, <1>3, <1>4, <1>5, <1>6, <1>7, <1>8, <1>9, <1>10, <1>11, <1>12 DEF Acts, LockStep, UnlockStep

(* And from its sleep, to the head of the loop.                            *)
LEMMA ResumeOnly ==
  ASSUME TypeInv, NEW l \in LWP, Acts(l), pc[l] = "asleep"
  PROVE  pc'[l] = "try"
<1>1. CASE Start(l) \/ Take(l) \/ TakeFails(l)
  BY <1>1 DEF Start, Take, TakeFails, Goto, Denied
<1>2. CASE Peek(l) \/ Join(l) \/ JoinAvail(l)
  BY <1>2 DEF Peek, Join, JoinAvail, Goto, Denied
<1>3. CASE JoinMode(l) \/ Joined(l) \/ JoinUndo(l)
  BY <1>3 DEF JoinMode, Joined, JoinUndo, Goto, Denied
<1>4. CASE LockFspin(l) \/ Raced(l) \/ NotRaced(l)
  BY <1>4 DEF LockFspin, Raced, NotRaced, Goto, Denied
<1>5. CASE RacedBusy(l) \/ LateJoin(l) \/ Enqueue(l) \/ Swtch(l)
  BY <1>5 DEF RacedBusy, LateJoin, Enqueue, Swtch, Goto, Denied
<1>6. CASE SetMode(l) \/ Settle(l)
  BY <1>6 DEF SetMode, Settle, Goto, Denied
<1>7. CASE Unlock(l) \/ LastSpin(l) \/ LastRead(l)
  BY <1>7 DEF Unlock, LastSpin, LastRead, Goto, Denied
<1>8. CASE Unset(l) \/ AgainSpin(l) \/ AgainRead(l) \/ AgainMode(l)
  BY <1>8 DEF Unset, AgainSpin, AgainRead, AgainMode, Goto, Denied
<1>9. CASE SharedLock(l) \/ SharedTest(l) \/ Leave(l)
  BY <1>9 DEF SharedLock, SharedTest, Leave, Goto, Denied
<1>10. CASE Free(l) \/ SetBusy(l) \/ Release(l)
  BY <1>10 DEF Free, SetBusy, Release, Goto, Denied
<1>11. CASE RecheckSpin(l) \/ RecheckQueue(l) \/ Retake(l)
  BY <1>11 DEF RecheckSpin, RecheckQueue, Retake, Goto, Denied
<1>12. CASE DequeueLock(l) \/ DequeueUnlock(l) \/ Wake(l)
  BY <1>12 DEF DequeueLock, DequeueUnlock, Wake, Goto, Denied
<1>13. CASE Dequeue(l)
  <2>1. pc[l] = "dequeue"
    BY <1>13, Zenon DEF Dequeue, Goto
  <2>. QED
    BY <2>1
<1>14. CASE Resume(l)
  BY <1>14 DEF Resume, Goto, TypeInv
<1>. QED
  BY <1>1, <1>2, <1>3, <1>4, <1>5, <1>6, <1>7, <1>8, <1>9, <1>10, <1>11, <1>12, <1>13, <1>14 DEF Acts, LockStep, UnlockStep

(* The list is entered by rwsleep_rdlock and rwsleep_wrlock only, a chain  *)
(* is its owner's, and nobody but the LWP itself goes to sleep.            *)
LEMMA ListFrame ==
  ASSUME TypeInv, ListInv, NEW l \in LWP, Acts(l)
  PROVE  /\ \A m \in LWP : l # m => chain'[m] = chain[m]
         /\ \A m \in LWP : l # m /\ stat[m] = "SRUN" => stat'[m] = "SRUN"
         /\ ~Enqueue(l) /\ queue' # <<>> => queue # <<>>
         /\ ~Wake(l) /\ pc[l] \in {"deqdone", "wake"} => chain'[l] = chain[l]
<1>1. CASE Enqueue(l)
  <2>1. pc[l] = "ins" /\ chain' = chain /\ stat' = stat
    BY <1>1, Zenon DEF Enqueue, Goto, lwpVars
  <2>. QED
    BY <1>1, <2>1
<1>2. CASE Swtch(l)
  <2>1. queue' = queue /\ chain' = chain /\ stat' = [stat EXCEPT ![l] = "SSLEEP"]
    BY <1>2 DEF Swtch, lockVars
  <2>. QED
    BY <2>1 DEF ListInv
<1>3. CASE Dequeue(l)
  <2>1. pc[l] = "dequeue" /\ stat' = stat
    BY <1>3, Zenon DEF Dequeue, Goto
  <2>2. PICK r : chain' = [chain EXCEPT ![l] = r]
    BY <1>3, Zenon DEF Dequeue
  <2>3. queue = <<>> => queue' = <<>>
    <3>1. PICK loaded, ws, ws2 :
            queue' = SubSeq(queue, Woken(loaded, ws, ws2) + 1, Len(queue))
      BY <1>3, Zenon DEF Dequeue
    <3>2. Woken(loaded, ws, ws2) \in 0..Len(queue) /\ Len(queue) \in Nat /\ (queue = <<>> => Len(queue) = 0)
      BY WokenIn, LenProperties, EmptySeq DEF ListInv
    <3>. QED
      BY <3>1, <3>2, SubSeqEmpty
  <2>. QED
    BY <2>1, <2>2, <2>3 DEF ListInv
<1>4. CASE DequeueUnlock(l)
  BY <1>4 DEF DequeueUnlock, lwpVars
<1>5. CASE Wake(l)
  <2>1. /\ queue' = queue /\ stat' = [stat EXCEPT ![Head(chain[l])] = "SRUN"]
        /\ chain' = [chain EXCEPT ![l] = Tail(chain[l])]
    BY <1>5 DEF Wake, lockVars
  <2>. QED
    BY <1>5, <2>1 DEF ListInv
<1>6. CASE ~ListActs(l)
  BY <1>6, QuietSteps DEF Elsewhere
<1>. QED
  BY <1>1, <1>2, <1>3, <1>4, <1>5, <1>6 DEF ListActs

(* An LWP that is bound to look at rw_avail because of where it is.        *)
Bound(l) == pc[l] \in {"try", "fsp", "chk", "recheckSpin", "recheckQueue", "retake"}

(* What a step does to those and to those that queue up.                   *)
LEMMA LookoutMoves ==
  ASSUME TypeInv, NEW l \in LWP, Steps(l)
  PROVE  /\ avail' /\ ~avail => pc'[l] = "recheckSpin" \/ (pc[l] = "dequeue" /\ pc'[l] = "deqdone")
         /\ avail' /\ avail /\ Bound(l) => Bound(l)' \/ (pc[l] = "recheckQueue" /\ pc'[l] = "idle" /\ queue = <<>>)
         /\ avail /\ Queuing(l)' => Queuing(l)
         /\ Queuing(l)' /\ ~Queuing(l) => avail' = avail
         /\ pc'[l] = "recheckQueue" => pc[l] = "recheckSpin" /\ fspin = None /\ avail' = avail
<1>1. avail \in BOOLEAN
  BY DEF TypeInv
<1>. USE DEF TypeInv, Goto, Denied, lockVars, lwpVars, Bound, Queuing
<1>2. CASE Start(l) \/ Take(l) \/ TakeFails(l)
  BY <1>2, <1>1 DEF Start, Take, TakeFails
<1>3. CASE Peek(l) \/ Join(l) \/ JoinAvail(l)
  BY <1>3, <1>1 DEF Peek, Join, JoinAvail
<1>4. CASE JoinMode(l) \/ Joined(l) \/ JoinUndo(l)
  BY <1>4, <1>1 DEF JoinMode, Joined, JoinUndo
<1>5. CASE LockFspin(l) \/ Raced(l) \/ NotRaced(l)
  BY <1>5, <1>1 DEF LockFspin, Raced, NotRaced
<1>6. CASE RacedBusy(l) \/ LateJoin(l) \/ EnqueueWords(l)
  BY <1>6, <1>1 DEF RacedBusy, LateJoin, EnqueueWords
<1>7. CASE Swtch(l) \/ Resume(l) \/ SetMode(l) \/ Settle(l)
  BY <1>7, <1>1 DEF Swtch, Resume, SetMode, Settle
<1>8. CASE Unlock(l) \/ LastSpin(l) \/ LastRead(l)
  BY <1>8, <1>1 DEF Unlock, LastSpin, LastRead
<1>9. CASE Unset(l) \/ AgainSpin(l) \/ AgainRead(l) \/ AgainMode(l)
  BY <1>9, <1>1 DEF Unset, AgainSpin, AgainRead, AgainMode
<1>10. CASE SharedLock(l) \/ SharedTest(l) \/ Leave(l)
  BY <1>10, <1>1 DEF SharedLock, SharedTest, Leave
<1>11. CASE Free(l) \/ SetBusy(l) \/ Release(l)
  BY <1>11, <1>1 DEF Free, SetBusy, Release
<1>12. CASE RecheckSpin(l) \/ RecheckQueue(l) \/ Retake(l)
  BY <1>12, <1>1 DEF RecheckSpin, RecheckQueue, Retake
<1>13. CASE DequeueLock(l) \/ DequeueWords(l) \/ DequeueUnlock(l) \/ WakeWords(l)
  BY <1>13, <1>1 DEF DequeueLock, DequeueWords, DequeueUnlock, WakeWords
<1>. QED
  BY <1>2, <1>3, <1>4, <1>5, <1>6, <1>7, <1>8, <1>9, <1>10, <1>11, <1>12, <1>13 DEF Steps

(* The race of a release with an LWP that queues up stays decided: while   *)
(* rw_avail is set and there is one, somebody will look.                   *)
LEMMA StepLookout ==
  ASSUME HoldInv, HoldInv', ListInv, ListInv', LookoutInv, NEW l \in LWP, Acts(l)
  PROVE  LookoutInv'
<1>. USE DEF HoldInv
<1>0. Steps(l)
  BY StepIs
<1>1. \A m \in LWP : l # m => pc'[m] = pc[m]
  BY <1>0, Others
<1>2. \A m \in LWP : l # m => (Queuing(m)' <=> Queuing(m))
  BY <1>1 DEF Queuing
<1>3. \A m \in LWP : Queuing(m) => InSection(m)
  BY DEF Queuing, InSection
<1>4. pc[l] = "dequeue" => \A m \in LWP : ~Queuing(m)
  <2>1. SUFFICES ASSUME pc[l] = "dequeue", NEW m \in LWP, Queuing(m) PROVE FALSE
    OBVIOUS
  <2>2. InSection(l) /\ l # m
    BY <2>1 DEF InSection, Queuing
  <2>. QED
    BY <1>3, <2>1, <2>2 DEF SectionInv
<1>5. \A m \in LWP : l # m /\ chain[m] # <<>> => chain'[m] # <<>>
  BY ListFrame
<1>6. ASSUME NEW m \in LWP, l # m, WillLook(m)
      PROVE  WillLook(m)'
  <2>1. pc[m] = "asleep" /\ stat[m] = "SRUN" => stat'[m] = "SRUN"
    BY <1>6, ListFrame
  <2>. QED
    BY <1>1, <1>5, <1>6, <2>1 DEF WillLook
<1>7. ASSUME avail', queue' # <<>> \/ \E m \in LWP : Queuing(m)'
      PROVE  \E m \in LWP : WillLook(m)'
  <2>1. CASE ~avail
    <3>1. CASE pc'[l] = "recheckSpin"
      BY <3>1 DEF WillLook
    <3>2. CASE pc[l] = "dequeue" /\ pc'[l] = "deqdone"
      <4>1. \A m \in LWP : ~Queuing(m)'
        BY <1>2, <1>4, <3>2 DEF Queuing
      <4>2. Dequeue(l)
        BY <3>2, DequeueOnly
      <4>3. chain'[l] # <<>>
        BY <1>1, <1>7, <4>1, <4>2, DequeueList
      <4>. QED
        BY <4>3 DEF WillLook
    <3>. QED
      BY <1>0, <1>7, <2>1, <3>1, <3>2, LookoutMoves
  <2>2. CASE avail
    <3>1. queue # <<>> \/ \E m \in LWP : Queuing(m)
      <4>1. SUFFICES ASSUME \A m \in LWP : ~Queuing(m) PROVE queue # <<>>
        OBVIOUS
      <4>2. queue' # <<>>
        BY <1>0, <1>2, <1>7, <2>2, <4>1, LookoutMoves
      <4>3. CASE Enqueue(l)
        BY <4>1, <4>3 DEF Enqueue, Goto, Queuing
      <4>4. CASE ~Enqueue(l)
        BY <4>2, <4>4, ListFrame
      <4>. QED
        BY <4>3, <4>4
    <3>2. PICK m \in LWP : WillLook(m)
      BY <2>2, <3>1 DEF LookoutInv
    <3>3. CASE m # l
      BY <1>6, <3>2, <3>3
    <3>4. CASE m = l /\ Bound(l)
      <4>1. CASE pc[l] = "recheckQueue" /\ pc'[l] = "idle" /\ queue = <<>>
        <5>1. \E n \in LWP : Queuing(n)
          BY <3>1, <4>1
        <5>. QED
          BY <2>2, <4>1, <5>1 DEF LookoutInv
      <4>2. CASE Bound(l)'
        BY <4>2 DEF Bound, WillLook
      <4>. QED
        BY <1>0, <1>7, <2>2, <3>4, <4>1, <4>2, LookoutMoves
    <3>5. CASE m = l /\ pc[l] = "asleep" /\ stat[l] = "SRUN"
      <4>1. pc'[l] = "try"
        BY <3>5, ResumeOnly
      <4>. QED
        BY <4>1 DEF WillLook
    <3>6. CASE m = l /\ chain[l] # <<>>
      <4>1. pc[l] \in {"deqdone", "wake"}
        BY <3>6 DEF ListInv
      <4>2. CASE Wake(l)
        <5>1. PICK h \in LWP : pc'[h] = "asleep" /\ stat'[h] = "SRUN"
          BY <1>1, <4>2, WakeList DEF ListInv, Listed
        <5>. QED
          BY <5>1 DEF WillLook
      <4>3. CASE ~Wake(l)
        <5>1. chain'[l] = chain[l]
          BY <4>1, <4>3, ListFrame
        <5>. QED
          BY <3>6, <5>1 DEF WillLook
      <4>. QED
        BY <4>2, <4>3
    <3>. QED
      BY <3>2, <3>3, <3>4, <3>5, <3>6 DEF WillLook, Bound
  <2>. QED
    BY <2>1, <2>2
<1>8. ASSUME NEW x \in LWP, NEW m \in LWP, pc'[x] = "recheckQueue", avail', Queuing(m)'
      PROVE  FALSE
  <2>1. CASE x = l
    <3>1. pc[l] = "recheckSpin" /\ fspin = None /\ avail' = avail /\ m # l
      BY <1>0, <1>8, <2>1, LookoutMoves DEF Queuing
    <3>2. Queuing(m)
      BY <1>2, <1>8, <3>1
    <3>. QED
      BY <1>3, <3>1, <3>2, RWSleepAssumption DEF SectionInv
  <2>2. CASE x # l
    <3>1. pc[x] = "recheckQueue"
      BY <1>1, <1>8, <2>2
    <3>2. CASE avail
      <4>1. ~Queuing(m)
        BY <1>8, <3>1, <3>2 DEF LookoutInv
      <4>. QED
        BY <1>0, <1>2, <1>8, <3>2, <4>1, LookoutMoves
    <3>3. CASE ~avail
      <4>1. CASE pc'[l] = "recheckSpin"
        <5>1. Giving(l)' /\ Giving(x)'
          BY <1>8, <4>1 DEF Giving
        <5>. QED
          BY <2>2, <5>1 DEF GiveInv
      <4>2. CASE pc[l] = "dequeue" /\ pc'[l] = "deqdone"
        BY <1>2, <1>4, <1>8, <4>2 DEF Queuing
      <4>. QED
        BY <1>0, <1>8, <3>3, <4>1, <4>2, LookoutMoves
    <3>. QED
      BY <3>2, <3>3
  <2>. QED
    BY <2>1, <2>2
<1>. QED
  BY <1>7, <1>8 DEF LookoutInv

(* rwsleep_init establishes the invariant, and every step keeps it.        *)
LEMMA InitIInv == Init => IInv
<1>. SUFFICES ASSUME Init PROVE ListInv /\ LookoutInv
  BY InitHold DEF IInv
<1>1. /\ queue = <<>> /\ pc = [l \in LWP |-> "idle"]
      /\ chain = [l \in LWP |-> <<>>] /\ stat = [l \in LWP |-> "SRUN"]
  BY Zenon DEF Init
<1>2. \A l \in LWP : pc[l] = "idle" /\ chain[l] = <<>> /\ stat[l] = "SRUN"
  BY <1>1
<1>3. InSeq(<<>>) = {} /\ Distinct(<<>>) /\ <<>> \in Seq(LWP)
  BY EmptySeq, EmptyInSeq
<1>4. \A l \in LWP : ~Listed(l)
  BY <1>1, <1>2, <1>3 DEF Listed
<1>5. chain \in [LWP -> Seq(LWP)] /\ stat \in [LWP -> {"SSLEEP", "SRUN"}]
  BY <1>1, <1>3
<1>6. \A u \in LWP : Distinct(chain[u]) /\ Disjoint(chain[u], queue) /\ \A v \in LWP : Disjoint(chain[u], chain[v])
  BY <1>1, <1>2, <1>3 DEF Disjoint
<1>7. ListInv
  BY <1>1, <1>2, <1>3, <1>4, <1>5, <1>6 DEF ListInv
<1>8. LookoutInv
  BY <1>1, <1>2 DEF LookoutInv, Queuing
<1>. QED
  BY <1>7, <1>8

(* The invariant is inductive.                                             *)
LEMMA StepIInv == IInv /\ [Next]_vars => IInv'
<1>1. ASSUME IInv, NEW l \in LWP, Acts(l) PROVE IInv'
  <2>1. HoldInv'
    BY <1>1, StepIs, StepHold DEF IInv, HoldInv
  <2>2. ListInv'
    BY <1>1, StepList DEF IInv
  <2>3. LookoutInv'
    BY <1>1, <2>1, <2>2, StepLookout DEF IInv
  <2>. QED
    BY <2>1, <2>2, <2>3 DEF IInv
<1>2. ASSUME IInv, UNCHANGED vars PROVE IInv'
  <2>1. UNCHANGED <<avail, queue, pc, chain, stat>>
    BY <1>2 DEF vars, lockVars, lwpVars
  <2>2. \A l \in LWP : Listed(l)' <=> Listed(l)
    BY <2>1 DEF Listed
  <2>3. ListInv'
    BY <1>2, <2>1, <2>2 DEF IInv, ListInv
  <2>4. LookoutInv'
    BY <1>2, <2>1 DEF IInv, LookoutInv, Queuing, WillLook
  <2>. QED
    BY <1>2, <2>3, <2>4, StutterHold DEF IInv
<1>. QED
  BY <1>1, <1>2 DEF Next, Acts

(* The whole invariant holds.                                              *)
THEOREM Invariance == Spec => []IInv
BY InitIInv, StepIInv, PTL DEF Spec

(* An LWP that sleeps is on rw_list or on the wakeup chain of an LWP in    *)
(* rwsleep_unlock, and no release misses one that queues up: with rw_avail *)
(* set and LWPs on rw_list somebody is bound to look at rw_avail or has    *)
(* LWPs to wake.                                                           *)
THEOREM SleepersAreWoken == Spec => []SleepersWoken
<1>1. IInv => SleeperReachable
  <2>1. SUFFICES ASSUME IInv, NEW l \in LWP, stat[l] = "SSLEEP" PROVE Listed(l)
    BY DEF SleeperReachable, Listed
  <2>. QED
    BY <2>1 DEF IInv, ListInv
<1>2. IInv => NoLostWakeup
  BY DEF IInv, LookoutInv, NoLostWakeup
<1>3. IInv => SleepersWoken
  BY <1>1, <1>2 DEF SleepersWoken
<1>. QED
  BY <1>3, Invariance, PTL

-----------------------------------------------------------------------------
(***************************************************************************)
(* Sums over the LWPs, as the number of pairs of an LWP and a number up to *)
(* its share.                                                              *)

Pairs(f) == UNION {{l} \X (1..f[l]) : l \in LWP}

(* What is in it.                                                          *)
LEMMA PairsAre ==
  ASSUME NEW f \in [LWP -> Nat]
  PROVE  /\ \A l \in LWP : \A n \in 1..f[l] : <<l, n>> \in Pairs(f)
         /\ \A x \in Pairs(f) : \E l \in LWP : \E n \in 1..f[l] : x = <<l, n>>
BY DEF Pairs

(* The sum of finitely many numbers is a number.                           *)
LEMMA PairsFinite ==
  ASSUME NEW f \in [LWP -> Nat]
  PROVE  IsFiniteSet(Pairs(f)) /\ Cardinality(Pairs(f)) \in Nat
<1>. DEFINE g == [l \in LWP |-> {l} \X (1..f[l])]
            T == {{l} \X (1..f[l]) : l \in LWP}
<1>1. g \in Surjection(LWP, T)
  BY DEF Surjection
<1>2. IsFiniteSet(LWP)
  BY RWSleepAssumption
<1>3. IsFiniteSet(T)
  <2>. HIDE DEF g, T
  <2>. QED
    BY <1>1, <1>2, FS_Surjection
<1>4. ASSUME NEW l \in LWP PROVE IsFiniteSet({l} \X (1..f[l]))
  <2>0. f[l] \in Int /\ 1 \in Int
    OBVIOUS
  <2>1. IsFiniteSet({l}) /\ IsFiniteSet(1..f[l])
    BY <2>0, FS_Singleton, FS_Interval, Zenon
  <2>. QED
    BY <2>1, FS_Product
<1>5. \A t \in T : IsFiniteSet(t)
  BY <1>4
<1>. HIDE DEF T
<1>6. IsFiniteSet(UNION T)
  BY <1>3, <1>5, FS_UNION
<1>. QED
  BY <1>6, FS_CardinalityType DEF Pairs, T

(* Two parts without a pair in common add up.                              *)
LEMMA PairsAddUp ==
  ASSUME NEW f \in [LWP -> Nat], NEW g \in [LWP -> Nat], NEW D, IsFiniteSet(D),
         Pairs(g) = Pairs(f) \cup D, Pairs(f) \cap D = {}
  PROVE  Cardinality(Pairs(g)) = Cardinality(Pairs(f)) + Cardinality(D)
<1>1. Cardinality(D) \in Nat /\ Cardinality({}) = 0
  BY FS_CardinalityType, FS_EmptySet
<1>2. IsFiniteSet(Pairs(f)) /\ Cardinality(Pairs(f)) \in Nat
  BY PairsFinite
<1>3. Cardinality(Pairs(f) \cup D)
        = Cardinality(Pairs(f)) + Cardinality(D) - Cardinality(Pairs(f) \cap D)
  BY <1>2, FS_Union
<1>4. Cardinality(Pairs(f) \cap D) = 0
  BY <1>1
<1>5. Cardinality(Pairs(g)) = Cardinality(Pairs(f)) + Cardinality(D) - 0
  BY <1>3, <1>4, Zenon
<1>. QED
  BY <1>1, <1>2, <1>5

(* When the share of one LWP grows, the sum does.                          *)
LEMMA PairsGrow ==
  ASSUME NEW f \in [LWP -> Nat], NEW g \in [LWP -> Nat], NEW l \in LWP,
         \A m \in LWP : l # m => g[m] = f[m], f[l] =< g[l]
  PROVE  Cardinality(Pairs(g)) = Cardinality(Pairs(f)) + (g[l] - f[l])
<1>. DEFINE D == {l} \X ((f[l] + 1)..g[l])
<1>0. f[l] \in Nat /\ g[l] \in Nat
  OBVIOUS
<1>1. IsFiniteSet(D) /\ Cardinality(D) = g[l] - f[l]
  <2>1. IsFiniteSet({l}) /\ Cardinality({l}) = 1
    BY FS_Singleton
  <2>2. /\ IsFiniteSet((f[l] + 1)..g[l])
        /\ Cardinality((f[l] + 1)..g[l]) = IF f[l] + 1 > g[l] THEN 0 ELSE g[l] - (f[l] + 1) + 1
    <3>1. f[l] + 1 \in Int /\ g[l] \in Int
      BY <1>0
    <3>. QED
      BY <3>1, FS_Interval
  <2>3. IsFiniteSet(D) /\ Cardinality(D) = Cardinality({l}) * Cardinality((f[l] + 1)..g[l])
    BY <2>1, <2>2, FS_Product
  <2>. HIDE DEF D
  <2>. QED
    BY <1>0, <2>1, <2>2, <2>3
<1>2. ASSUME NEW x \in Pairs(g) PROVE x \in Pairs(f) \cup D
  <2>1. PICK m \in LWP : \E n \in 1..g[m] : x = <<m, n>>
    BY PairsAre
  <2>2. PICK n \in 1..g[m] : x = <<m, n>>
    BY <2>1
  <2>3. CASE n \in 1..f[m]
    BY <2>2, <2>3, PairsAre
  <2>4. CASE n \notin 1..f[m]
    <3>1. m = l /\ n \in (f[l] + 1)..g[l]
      BY <1>0, <2>4
    <3>. QED
      BY <2>2, <3>1
  <2>. QED
    BY <2>3, <2>4
<1>3. ASSUME NEW x \in Pairs(f) PROVE x \in Pairs(g) /\ x \notin D
  <2>1. PICK m \in LWP : \E n \in 1..f[m] : x = <<m, n>>
    BY PairsAre
  <2>2. PICK n \in 1..f[m] : x = <<m, n>>
    BY <2>1
  <2>3. n \in 1..g[m]
    BY <1>0
  <2>4. x \in Pairs(g)
    BY <2>2, <2>3, PairsAre
  <2>5. m = l => n \notin (f[l] + 1)..g[l]
    BY <1>0
  <2>. QED
    BY <2>2, <2>4, <2>5
<1>4. ASSUME NEW x \in D PROVE x \in Pairs(g)
  <2>1. PICK n \in (f[l] + 1)..g[l] : x = <<l, n>>
    OBVIOUS
  <2>2. n \in 1..g[l]
    BY <1>0
  <2>. QED
    BY <2>1, <2>2, PairsAre
<1>. HIDE DEF D
<1>5. Pairs(g) = Pairs(f) \cup D /\ Pairs(f) \cap D = {}
  BY <1>2, <1>3, <1>4
<1>6. Cardinality(Pairs(g)) = Cardinality(Pairs(f)) + Cardinality(D)
  BY <1>1, <1>5, PairsAddUp
<1>. QED
  BY <1>1, <1>6

(* When the share of one LWP changes, the sum changes as much.             *)
LEMMA PairsChange ==
  ASSUME NEW f \in [LWP -> Nat], NEW g \in [LWP -> Nat], NEW l \in LWP,
         \A m \in LWP : l # m => g[m] = f[m]
  PROVE  Cardinality(Pairs(g)) = Cardinality(Pairs(f)) + (g[l] - f[l])
<1>0. /\ f[l] \in Nat /\ g[l] \in Nat
      /\ Cardinality(Pairs(f)) \in Nat /\ Cardinality(Pairs(g)) \in Nat
  BY PairsFinite
<1>1. CASE f[l] =< g[l]
  BY <1>1, PairsGrow
<1>2. CASE g[l] =< f[l]
  <2>1. \A m \in LWP : l # m => f[m] = g[m]
    OBVIOUS
  <2>2. Cardinality(Pairs(f)) = Cardinality(Pairs(g)) + (f[l] - g[l])
    BY <1>2, <2>1, PairsGrow
  <2>. QED
    BY <1>0, <2>2
<1>. QED
  BY <1>0, <1>1, <1>2

(* When nobody owes anything, the sum is zero.                             *)
LEMMA PairsZero ==
  ASSUME NEW f \in [LWP -> Nat], \A l \in LWP : f[l] = 0
  PROVE  Cardinality(Pairs(f)) = 0
<1>1. Pairs(f) = {}
  <2>1. SUFFICES ASSUME NEW x \in Pairs(f) PROVE FALSE
    OBVIOUS
  <2>2. PICK l \in LWP : \E n \in 1..f[l] : x = <<l, n>>
    BY PairsAre
  <2>. QED
    BY <2>2
<1>. QED
  BY <1>1, FS_EmptySet

(* The LWPs of r, which are n, get one more each.                          *)
OneMore(f, g, n, r) ==
  /\ f \in [LWP -> Nat] /\ g \in [LWP -> Nat]
  /\ n \in Nat /\ r \in [1..n -> LWP] /\ \A i, j \in 1..n : r[i] = r[j] => i = j
  /\ \A m \in LWP : g[m] = IF \E i \in 1..n : r[i] = m THEN f[m] + 1 ELSE f[m]

(* Then the sum grows by n.                                                *)
LEMMA PairsOneMore ==
  ASSUME NEW f, NEW g, NEW n, NEW r, OneMore(f, g, n, r)
  PROVE  Cardinality(Pairs(g)) = Cardinality(Pairs(f)) + n
<1>. USE DEF OneMore
<1>. DEFINE D == {<<r[i], f[r[i]] + 1>> : i \in 1..n}
            b == [i \in 1..n |-> <<r[i], f[r[i]] + 1>>]
<1>0. \A m \in LWP : f[m] \in Nat /\ g[m] \in Nat
  OBVIOUS
<1>1. b \in Bijection(1..n, D)
  <2>1. b \in [1..n -> D]
    OBVIOUS
  <2>2. \A i, j \in 1..n : b[i] = b[j] => i = j
    OBVIOUS
  <2>3. \A x \in D : \E i \in 1..n : b[i] = x
    OBVIOUS
  <2>. QED
    BY <2>1, <2>2, <2>3 DEF Bijection, Injection, Surjection, IsInjective
<1>2. IsFiniteSet(1..n) /\ Cardinality(1..n) = n
  BY FS_Interval
<1>3. IsFiniteSet(D) /\ Cardinality(D) = n
  <2>. HIDE DEF D, b
  <2>. QED
    BY <1>1, <1>2, FS_Bijection DEF ExistsBijection
<1>4. ASSUME NEW x \in Pairs(g) PROVE x \in Pairs(f) \cup D
  <2>1. PICK m \in LWP : \E k \in 1..g[m] : x = <<m, k>>
    BY PairsAre
  <2>2. PICK k \in 1..g[m] : x = <<m, k>>
    BY <2>1
  <2>3. CASE k \in 1..f[m]
    BY <2>2, <2>3, PairsAre
  <2>4. CASE k \notin 1..f[m]
    <3>1. PICK i \in 1..n : r[i] = m
      BY <1>0, <2>4
    <3>2. g[m] = f[m] + 1
      BY <3>1
    <3>3. k = f[m] + 1
      BY <1>0, <2>4, <3>2
    <3>. QED
      BY <2>2, <3>1, <3>3
  <2>. QED
    BY <2>3, <2>4
<1>5. ASSUME NEW x \in Pairs(f) PROVE x \in Pairs(g) /\ x \notin D
  <2>1. PICK m \in LWP : \E k \in 1..f[m] : x = <<m, k>>
    BY PairsAre
  <2>2. PICK k \in 1..f[m] : x = <<m, k>>
    BY <2>1
  <2>3. g[m] = f[m] \/ g[m] = f[m] + 1
    OBVIOUS
  <2>4. k \in 1..g[m]
    BY <1>0, <2>3
  <2>5. x \in Pairs(g)
    BY <2>2, <2>4, PairsAre
  <2>6. k # f[m] + 1
    BY <1>0
  <2>. QED
    BY <2>2, <2>5, <2>6
<1>6. ASSUME NEW x \in D PROVE x \in Pairs(g)
  <2>1. PICK i \in 1..n : x = <<r[i], f[r[i]] + 1>>
    OBVIOUS
  <2>2. r[i] \in LWP /\ g[r[i]] = f[r[i]] + 1
    OBVIOUS
  <2>3. f[r[i]] + 1 \in 1..g[r[i]]
    BY <1>0, <2>2
  <2>. QED
    BY <2>1, <2>2, <2>3, PairsAre
<1>. HIDE DEF D
<1>7. Pairs(g) = Pairs(f) \cup D /\ Pairs(f) \cap D = {}
  BY <1>4, <1>5, <1>6
<1>. QED
  BY <1>3, <1>7, PairsAddUp

-----------------------------------------------------------------------------
(***************************************************************************)
(* The accounting of rw_pend.                                              *)

(* An LWP that sleeps for the lock has counted this sleep.                 *)
SleepsInv ==
  /\ nsleeps \in [LWP -> Nat] /\ pend \in Int
  /\ \A l \in LWP : pc[l] = "asleep" => nsleeps[l] # 0

PendInv == SleepsInv /\ PendExact

Debts == [l \in LWP |-> Owed(l)]

(* No LWP owes less than nothing: on the list it sleeps or is about to.    *)
LEMMA DebtsAreNat ==
  ASSUME ListInv, SleepsInv
  PROVE  Debts \in [LWP -> Nat]
<1>1. SUFFICES ASSUME NEW l \in LWP PROVE Owed(l) \in Nat
  BY DEF Debts
<1>2. l \in InSeq(queue) => pc[l] \in {"sleep", "asleep"}
  BY DEF ListInv, Listed
<1>. QED
  BY <1>2 DEF SleepsInv, Owed

(* The same after a step.                                                  *)
LEMMA DebtsAreNatNext ==
  ASSUME ListInv', SleepsInv'
  PROVE  Debts' \in [LWP -> Nat]
<1>1. SUFFICES ASSUME NEW l \in LWP PROVE Owed(l)' \in Nat
  BY DEF Debts
<1>2. l \in InSeq(queue') => pc'[l] \in {"sleep", "asleep"}
  BY DEF ListInv, Listed
<1>. QED
  BY <1>2 DEF SleepsInv, Owed

(* The property as a sum.                                                  *)
LEMMA PendInTerms ==
  ASSUME Debts \in [LWP -> Nat]
  PROVE  PendExact <=> pend = Cardinality(Pairs(Debts))
<1>1. \A l \in LWP : Debts[l] = Owed(l) /\ Owed(l) \in Nat
  BY DEF Debts
<1>2. Pairs(Debts) = UNION {{l} \X (1..Owed(l)) : l \in LWP}
  BY <1>1 DEF Pairs
<1>. QED
  BY <1>1, <1>2 DEF PendExact

(* And after a step.                                                       *)
LEMMA PendInTermsNext ==
  ASSUME Debts' \in [LWP -> Nat]
  PROVE  PendExact' <=> pend' = Cardinality(Pairs(Debts'))
<1>1. \A l \in LWP : Debts'[l] = Owed(l)' /\ Owed(l)' \in Nat
  BY DEF Debts
<1>2. Pairs(Debts') = UNION {{l} \X (1..Owed(l)') : l \in LWP}
  BY <1>1 DEF Pairs
<1>. QED
  BY <1>1, <1>2 DEF PendExact

(* The steps that count sleeps or take them off, and what the others leave *)
(* alone.                                                                  *)
Settles(l) == Joined(l) \/ RacedBusy(l) \/ Settle(l)

PendQuiet(l) ==
  /\ UNCHANGED <<pend, nsleeps, queue>>
  /\ pc[l] # "sleep" /\ pc'[l] \notin {"sleep", "asleep"}

(* A step that is none of those counts nothing.                            *)
LEMMA PendQuietSteps ==
  ASSUME TypeInv, NEW l \in LWP, Acts(l), ~Settles(l), ~Enqueue(l), ~Swtch(l), ~Dequeue(l)
  PROVE  PendQuiet(l)
<1>. USE DEF TypeInv, Goto, Denied, lockVars, lwpVars, PendQuiet
<1>1. CASE Start(l) \/ Take(l) \/ TakeFails(l)
  BY <1>1 DEF Start, Take, TakeFails
<1>2. CASE Peek(l) \/ Join(l) \/ JoinAvail(l)
  BY <1>2 DEF Peek, Join, JoinAvail
<1>3. CASE JoinMode(l) \/ JoinUndo(l)
  BY <1>3 DEF JoinMode, JoinUndo
<1>4. CASE LockFspin(l) \/ Raced(l) \/ NotRaced(l)
  BY <1>4 DEF LockFspin, Raced, NotRaced
<1>5. CASE LateJoin(l)
  BY <1>5 DEF LateJoin
<1>6. CASE Resume(l) \/ SetMode(l)
  BY <1>6 DEF Resume, SetMode
<1>7. CASE Unlock(l) \/ LastSpin(l) \/ LastRead(l)
  BY <1>7 DEF Unlock, LastSpin, LastRead
<1>8. CASE Unset(l) \/ AgainSpin(l) \/ AgainRead(l) \/ AgainMode(l)
  BY <1>8 DEF Unset, AgainSpin, AgainRead, AgainMode
<1>9. CASE SharedLock(l) \/ SharedTest(l) \/ Leave(l)
  BY <1>9 DEF SharedLock, SharedTest, Leave
<1>10. CASE Free(l) \/ SetBusy(l) \/ Release(l)
  BY <1>10 DEF Free, SetBusy, Release
<1>11. CASE RecheckSpin(l) \/ RecheckQueue(l) \/ Retake(l)
  BY <1>11 DEF RecheckSpin, RecheckQueue, Retake
<1>12. CASE DequeueLock(l) \/ DequeueUnlock(l)
  BY <1>12 DEF DequeueLock, DequeueUnlock
<1>13. CASE Wake(l)
  <2>1. UNCHANGED <<pend, nsleeps, queue>> /\ pc[l] = "wake" /\ pc'[l] \in {"idle", "wake"}
    BY <1>13 DEF Wake
  <2>. QED
    BY <2>1
<1>. QED
  BY <1>1, <1>2, <1>3, <1>4, <1>5, <1>6, <1>7, <1>8, <1>9, <1>10, <1>11, <1>12, <1>13
     DEF Acts, Settles, LockStep, UnlockStep

(* The sleeps are counted before an LWP sleeps, and taken off when it has  *)
(* the lock.                                                               *)
LEMMA StepSleeps ==
  ASSUME HoldInv, ListInv, SleepsInv, NEW l \in LWP, Acts(l)
  PROVE  SleepsInv'
<1>. USE DEF SleepsInv
<1>0. TypeInv /\ pc \in [LWP -> Pcs] /\ \A m \in LWP : l # m => pc'[m] = pc[m]
  BY StepIs, Others DEF HoldInv, TypeInv
<1>1. CASE Settles(l)
  <2>1. /\ pend' = pend - nsleeps[l] /\ nsleeps' = [nsleeps EXCEPT ![l] = 0]
        /\ pc'[l] = "held"
    BY <1>0, <1>1 DEF Settles, Joined, RacedBusy, Settle, Goto
  <2>. QED
    BY <1>0, <2>1
<1>2. CASE Enqueue(l)
  <2>1. UNCHANGED <<pend, nsleeps>> /\ pc'[l] = "sleep"
    BY <1>0, <1>2 DEF Enqueue, Goto, lwpVars
  <2>. QED
    BY <1>0, <2>1
<1>3. CASE Swtch(l)
  <2>1. pend' = pend /\ nsleeps' = [nsleeps EXCEPT ![l] = nsleeps[l] + 1]
    BY <1>3 DEF Swtch, lockVars
  <2>. QED
    BY <1>0, <2>1
<1>4. CASE Dequeue(l)
  <2>1. PICK n, r : CutAt(queue, n, r, queue') /\ pend' = pend + n
    BY <1>4, DequeueCut
  <2>2. n \in Int
    BY <2>1, LenProperties DEF CutAt
  <2>3. nsleeps' = nsleeps /\ pc'[l] = "deqdone"
    BY <1>0, <1>4, Zenon DEF Dequeue, Goto
  <2>. QED
    BY <1>0, <2>1, <2>2, <2>3
<1>5. CASE ~Settles(l) /\ ~Enqueue(l) /\ ~Swtch(l) /\ ~Dequeue(l)
  <2>1. PendQuiet(l)
    BY <1>0, <1>5, PendQuietSteps
  <2>. QED
    BY <1>0, <2>1 DEF PendQuiet
<1>. QED
  BY <1>1, <1>2, <1>3, <1>4, <1>5

(* rw_pend stays exact.                                                    *)
LEMMA StepPend ==
  ASSUME IInv, IInv', PendInv, NEW l \in LWP, Acts(l)
  PROVE  PendInv'
<1>. USE DEF IInv, PendInv
<1>0. /\ SleepsInv' /\ nsleeps \in [LWP -> Nat] /\ pend \in Int
      /\ pc \in [LWP -> Pcs] /\ \A m \in LWP : l # m => pc'[m] = pc[m]
  BY StepSleeps, StepIs, Others DEF HoldInv, TypeInv, SleepsInv
<1>1. Debts \in [LWP -> Nat] /\ pend = Cardinality(Pairs(Debts))
  BY DebtsAreNat, PendInTerms
<1>2. Debts' \in [LWP -> Nat]
  BY <1>0, DebtsAreNatNext
<1>3. SUFFICES pend' = Cardinality(Pairs(Debts'))
  BY <1>0, <1>2, PendInTermsNext
<1>4. ASSUME pend' = pend, \A m \in LWP : Owed(m)' = Owed(m)
      PROVE  pend' = Cardinality(Pairs(Debts'))
  BY <1>1, <1>4 DEF Debts
<1>5. CASE Settles(l)
  <2>1. /\ pend' = pend - nsleeps[l] /\ nsleeps' = [nsleeps EXCEPT ![l] = 0]
        /\ queue' = queue /\ pc[l] \in {"joined", "chkBusy", "settle"} /\ pc'[l] = "held"
    BY <1>0, <1>5 DEF Settles, Joined, RacedBusy, Settle, Goto
  <2>2. l \notin InSeq(queue)
    BY <2>1, ListFacts DEF Listed
  <2>3. Debts[l] = nsleeps[l] /\ Debts'[l] = 0
    BY <1>0, <2>1, <2>2 DEF Debts, Owed
  <2>4. \A m \in LWP : l # m => Debts'[m] = Debts[m]
    BY <1>0, <2>1 DEF Debts, Owed
  <2>5. Cardinality(Pairs(Debts')) = Cardinality(Pairs(Debts)) + (Debts'[l] - Debts[l])
    BY <1>1, <1>2, <2>4, PairsChange
  <2>. QED
    BY <1>0, <1>1, <2>1, <2>3, <2>5
<1>6. CASE Enqueue(l)
  <2>1. PICK i \in 0..Len(queue) :
          queue' = SubSeq(queue, 1, i) \o <<l>> \o SubSeq(queue, i + 1, Len(queue))
    BY <1>6, Zenon DEF Enqueue
  <2>2. UNCHANGED <<pend, nsleeps>> /\ pc[l] = "ins" /\ pc'[l] = "sleep"
    BY <1>0, <1>6 DEF Enqueue, Goto, lwpVars
  <2>3. l \notin InSeq(queue)
    BY <2>2, ListFacts DEF Listed
  <2>4. InSeq(queue') = InSeq(queue) \cup {l}
    BY <2>1, Inserted DEF ListInv
  <2>5. \A m \in LWP : Owed(m)' = Owed(m)
    BY <1>0, <2>2, <2>3, <2>4 DEF Owed
  <2>. QED
    BY <1>4, <2>2, <2>5
<1>7. CASE Swtch(l)
  <2>1. /\ pend' = pend /\ queue' = queue /\ nsleeps' = [nsleeps EXCEPT ![l] = nsleeps[l] + 1]
        /\ pc[l] = "sleep" /\ pc'[l] = "asleep"
    BY <1>0, <1>7 DEF Swtch, Goto, lockVars
  <2>2. \A m \in LWP : Owed(m)' = Owed(m)
    BY <1>0, <2>1 DEF Owed
  <2>. QED
    BY <1>4, <2>1, <2>2
<1>8. CASE Dequeue(l)
  <2>1. PICK n, r : CutAt(queue, n, r, queue') /\ pend' = pend + n
    BY <1>8, DequeueCut
  <2>2. nsleeps' = nsleeps /\ pc[l] = "dequeue" /\ pc'[l] = "deqdone"
    BY <1>0, <1>8, Zenon DEF Dequeue, Goto
  <2>3. /\ r \in Seq(LWP) /\ Distinct(r) /\ InSeq(r) \cup InSeq(queue') = InSeq(queue)
        /\ \A x \in InSeq(r) : x \notin InSeq(queue')
    BY <2>1, Split
  <2>4. n \in Nat /\ r \in [1..n -> LWP] /\ Len(r) = n
    <3>1. Len(queue) \in Nat
      BY LenProperties DEF ListInv
    <3>2. n \in Nat /\ r \in [1..n -> LWP]
      BY <2>1, <3>1 DEF CutAt
    <3>. QED
      BY <2>3, <3>2, LenProperties
  <2>5. \A i, j \in 1..n : r[i] = r[j] => i = j
    BY <2>3, <2>4 DEF Distinct
  <2>6. \A m \in LWP : Debts'[m] = IF \E i \in 1..n : r[i] = m THEN Debts[m] + 1 ELSE Debts[m]
    <3>1. SUFFICES ASSUME NEW m \in LWP
                   PROVE  Owed(m)' = IF m \in InSeq(r) THEN Owed(m) + 1 ELSE Owed(m)
      BY <2>4 DEF Debts, InSeq
    <3>2. pc'[m] = "sleep" <=> pc[m] = "sleep"
      BY <1>0, <2>2
    <3>. QED
      BY <1>0, <2>2, <2>3, <3>2 DEF Owed
  <2>7. Cardinality(Pairs(Debts')) = Cardinality(Pairs(Debts)) + n
    <3>1. OneMore(Debts, Debts', n, r)
      BY <1>1, <1>2, <2>4, <2>5, <2>6, Zenon DEF OneMore
    <3>. QED
      BY <3>1, PairsOneMore, Zenon
  <2>. QED
    BY <1>1, <2>1, <2>7
<1>9. CASE ~Settles(l) /\ ~Enqueue(l) /\ ~Swtch(l) /\ ~Dequeue(l)
  <2>1. PendQuiet(l)
    BY <1>9, PendQuietSteps DEF HoldInv
  <2>2. \A m \in LWP : Owed(m)' = Owed(m)
    BY <1>0, <2>1 DEF PendQuiet, Owed
  <2>. QED
    BY <1>4, <2>1, <2>2 DEF PendQuiet
<1>. QED
  BY <1>5, <1>6, <1>7, <1>8, <1>9

(* Nobody has slept at first.                                              *)
LEMMA InitPend == Init => PendInv
<1>. SUFFICES ASSUME Init PROVE PendInv
  OBVIOUS
<1>1. /\ queue = <<>> /\ pc = [l \in LWP |-> "idle"] /\ nsleeps = [l \in LWP |-> 0] /\ pend = 0
  BY Zenon DEF Init
<1>2. InSeq(queue) = {}
  BY <1>1, EmptySeq, EmptyInSeq
<1>3. SleepsInv
  BY <1>1 DEF SleepsInv
<1>4. \A l \in LWP : Debts[l] = 0
  BY <1>1, <1>2 DEF Debts, Owed
<1>5. Debts \in [LWP -> Nat]
  BY <1>4 DEF Debts
<1>6. PendExact
  BY <1>1, <1>4, <1>5, PairsZero, PendInTerms
<1>. QED
  BY <1>3, <1>6 DEF PendInv

(* rw_pend is exact: it is the number of sleeps that rwsleep_dequeue has   *)
(* ended and whose LWPs have not subtracted them yet, whichever way they   *)
(* get the lock.                                                           *)
THEOREM PendIsExact == Spec => []PendExact
<1>1. IInv /\ IInv' /\ PendInv /\ [Next]_vars => PendInv'
  <2>1. ASSUME IInv, IInv', PendInv, UNCHANGED vars PROVE PendInv'
    <3>1. UNCHANGED <<pend, nsleeps, queue, pc>>
      BY <2>1 DEF vars, lockVars, lwpVars
    <3>2. \A l \in LWP : Owed(l)' = Owed(l)
      BY <3>1 DEF Owed
    <3>. QED
      BY <2>1, <3>1, <3>2 DEF PendInv, SleepsInv, PendExact
  <2>. QED
    BY <2>1, StepPend DEF Next, Acts
<1>2. PendInv => PendExact
  BY DEF PendInv
<1>. QED
  BY <1>1, <1>2, InitPend, Invariance, PTL DEF Spec

=============================================================================
