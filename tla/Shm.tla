-------------------------------- MODULE Shm --------------------------------
(***************************************************************************)
(* System V shared memory: i386/uts/proc/ipc/shm.c.                        *)
(*                                                                         *)
(* An identifier names a slot of the directory shmdir and a sequence       *)
(* number; the slot points to a descriptor (kshmid_ds).  A descriptor that *)
(* has been removed lives on, without a slot, until the last process       *)
(* detaches, and its slot may get another one meanwhile.                   *)
(*                                                                         *)
(* SHM_BUSY is the lock of a descriptor that is held over blocking calls.  *)
(* It is taken and given back under kshm_lck and waited for on kshm_sv.    *)
(* What runs under shmdir_lck, kshm_lck or the writer lock of an address   *)
(* space is one step.                                                      *)
(***************************************************************************)
EXTENDS Integers, FiniteSets, FiniteSetsExt

CONSTANTS
  Slot,       \* the slots of shmdir
  Desc,       \* the descriptors kshmids, by index
  Key,        \* keys for shmget
  SeqMax,     \* shmseqmax
  Proc, Addr, \* processes, and the addresses they attach at
  First,      \* the processes at the start: the others are made by fork
  Shmseg,     \* shminfo.shmseg: attachments per process
  Lwp,        \* LWPs
  ProcOf,     \* the process of each LWP
  Ops,        \* the system calls each LWP may make
  NULL,
  MaxCalls, MaxLock \* bounds: calls per LWP, SHM_LOCKs of a segment

Calls == {"get", "at", "dt", "rmid", "lock", "unlock", "stat", "fork", "exec", "exit"}

(* Two restrictions on the programs, without which the code fails: one LWP *)
(* of a process detaches, since shmdt looks the record up and deletes it   *)
(* under separate holds of the lock; and where one LWP forks no other one  *)
(* attaches, since shmat waits for the address space with SHM_BUSY held    *)
(* and shmfork for SHM_BUSY with the address space held.                   *)
ASSUME ShmAssumption ==
  /\ IsFiniteSet(Lwp) /\ IsFiniteSet(Proc) /\ NULL \notin Calls
  /\ Slot # {} /\ Desc \subseteq Nat /\ IsFiniteSet(Desc) /\ NULL \notin Desc
  /\ Addr \subseteq Nat /\ IsFiniteSet(Addr)
  /\ SeqMax \in Nat /\ Shmseg \in Nat /\ MaxCalls \in [Lwp -> Nat] /\ MaxLock \in Nat
  /\ First \subseteq Proc
  /\ ProcOf \in [Lwp -> Proc] /\ Ops \in [Lwp -> SUBSET Calls]
  /\ \A l, m \in Lwp : l # m /\ ProcOf[l] = ProcOf[m] =>
       /\ ~ (Ops[l] \cap {"dt", "exec", "exit"} # {} /\ Ops[m] \cap {"dt", "exec", "exit"} # {})
       /\ ~ ("fork" \in Ops[l] /\ "at" \in Ops[m])

VARIABLES
  ipcd_ent,    \* per slot, its descriptor or NULL
  ipcd_seq,    \* per slot, the sequence number of its identifier
  allocated,   \* descriptors with IPC_ALLOC
  busy,        \* descriptors with SHM_BUSY
  key, refcnt, \* per descriptor
  lkcnt,       \* per descriptor, shm_lkcnt
  asp,         \* descriptors with kshm_asp, the address space that locks the memory
  memory,      \* per descriptor, memory objects made and not released
  segacct,     \* per process, what is attached where
  alive,       \* processes
  pc, call,    \* per LWP, its place and the variables of its system call
  asleep,      \* LWPs that sleep on the kshm_sv of their descriptor
  ncalls

descVars == <<key, refcnt, lkcnt, asp, memory>>
vars == <<ipcd_ent, ipcd_seq, allocated, busy, descVars, segacct, alive, pc, call, asleep, ncalls>>

(* The variables of a call: which one, the slot, descriptor and sequence   *)
(* number (or key) it works on, the address, the child of a fork.          *)
NoCall == [op |-> NULL, slot |-> NULL, desc |-> NULL, id |-> NULL, addr |-> NULL, child |-> NULL]

Init ==
  /\ ipcd_ent = [d \in Slot |-> NULL] /\ ipcd_seq = [d \in Slot |-> 0]
  /\ allocated = {} /\ busy = {}
  /\ key = [k \in Desc |-> NULL] /\ refcnt = [k \in Desc |-> 0]
  /\ lkcnt = [k \in Desc |-> 0] /\ asp = {} /\ memory = [k \in Desc |-> 0]
  /\ segacct = [p \in Proc |-> [a \in Addr |-> NULL]] /\ alive = First
  /\ pc = [l \in Lwp |-> "idle"] /\ call = [l \in Lwp |-> NoCall]
  /\ asleep = {} /\ ncalls = [l \in Lwp |-> 0]

-----------------------------------------------------------------------------
Goto(l, from, to) == pc[l] = from /\ pc' = [pc EXCEPT ![l] = to]

Exiting(l) == call[l].op \in {"exec", "exit"}

(* The call returns; shmexit and shmexec, which call kshmdt in a loop, go  *)
(* on.                                                                     *)
Return(l, from) ==
  /\ Goto(l, from, IF Exiting(l) THEN "exit" ELSE "idle")
  /\ call' = [call EXCEPT ![l] = IF Exiting(l) THEN [NoCall EXCEPT !.op = call[l].op] ELSE NoCall]

(* SHM_BUSY of the descriptor of l is free, and taken.                     *)
TakeBusy(l) == call[l].desc \notin busy /\ busy' = busy \cup {call[l].desc}
GiveBusy(l) == busy' = busy \ {call[l].desc}

Attached(p) == {a \in Addr : segacct[p][a] # NULL}
Attach(p, a, k) == segacct' = [segacct EXCEPT ![p][a] = k]

(* The writer lock of the address space can be had: no LWP of the process  *)
(* is in fork, which keeps the reader lock over its waits for SHM_BUSY.    *)
AsFree(p) == \A l \in Lwp : ProcOf[l] = p => pc[l] \notin {"fork", "forkWait"}

(* SV_WAIT, for the LWPs that found SHM_BUSY set; they test it again when  *)
(* they have been woken.                                                   *)
WaitBusy(l) ==
  /\ pc[l] \in {"getWait", "convWait", "dtWait", "forkWait"} /\ l \notin asleep
  /\ call[l].desc \in busy
  /\ asleep' = asleep \cup {l}
  /\ UNCHANGED <<ipcd_ent, ipcd_seq, allocated, busy, descVars, segacct, alive, pc, call, ncalls>>

(* Mutant: only one waiter is woken.                                       *)
Broadcast_One(l) ==
  /\ \/ Return(l, "bcast")
     \/ Goto(l, "bcastGet", "get") /\ UNCHANGED call
  /\ LET S == {m \in asleep : call[m].desc = call[l].desc}
     IN IF S = {} THEN UNCHANGED asleep ELSE \E m \in S : asleep' = asleep \ {m}
  /\ UNCHANGED <<ipcd_ent, ipcd_seq, allocated, busy, descVars, segacct, alive, ncalls>>

(* SV_BROADCAST, which follows wherever SHM_BUSY has been given back.      *)
Broadcast(l) ==
  /\ \/ Return(l, "bcast")
     \/ Goto(l, "bcastGet", "get") /\ UNCHANGED call
  /\ asleep' = {m \in asleep : call[m].desc # call[l].desc}
  /\ UNCHANGED <<ipcd_ent, ipcd_seq, allocated, busy, descVars, segacct, alive, ncalls>>

(* A system call with its argument.                                        *)
Call(l) ==
  /\ pc[l] = "idle" /\ ncalls[l] < MaxCalls[l] /\ ProcOf[l] \in alive
  /\ \A m \in Lwp : ProcOf[m] = ProcOf[l] => ~ Exiting(m)
  /\ ncalls' = [ncalls EXCEPT ![l] = @ + 1]
  /\ \E o \in Ops[l] :
       \/ /\ o = "get" /\ Goto(l, "idle", "get")
          /\ \E x \in Key : call' = [call EXCEPT ![l].op = o, ![l].id = x]
       \/ /\ o \in {"at", "rmid", "lock", "unlock", "stat"} /\ Goto(l, "idle", "conv")
          /\ \E d \in Slot, s \in 0..SeqMax :
               call' = [call EXCEPT ![l].op = o, ![l].slot = d, ![l].id = s]
       \/ /\ o = "dt" /\ Goto(l, "idle", "dt")
          /\ \E a \in Addr : call' = [call EXCEPT ![l].op = o, ![l].addr = a]
       \/ /\ o = "fork" /\ Goto(l, "idle", "fork")
          /\ \E c \in Proc \ alive :
               /\ \A m \in Lwp : call[m].child # c
               /\ call' = [call EXCEPT ![l].op = o, ![l].child = c]
       \/ /\ o \in {"exec", "exit"} /\ Goto(l, "idle", "exit")
          /\ \A m \in Lwp \ {l} : ProcOf[m] = ProcOf[l] => pc[m] = "idle"
          /\ call' = [call EXCEPT ![l].op = o]
  /\ UNCHANGED <<ipcd_ent, ipcd_seq, allocated, busy, descVars, segacct, alive, asleep>>

-----------------------------------------------------------------------------
(* shmget.                                                                 *)

WithKey(x) == {d \in Slot : ipcd_ent[d] # NULL /\ key[ipcd_ent[d]] = x}

Found(l, d) ==
  /\ d \in WithKey(call[l].id)
  /\ call' = [call EXCEPT ![l].slot = d, ![l].desc = ipcd_ent[d]]

(* ipcget finds the key; kshm_lck is held until SHM_BUSY has been tested.  *)
GetExisting(l) ==
  /\ \E d \in Slot :
       /\ Found(l, d)
       /\ \/ /\ Goto(l, "get", "getCheck")
             /\ ipcd_ent[d] \notin busy /\ busy' = busy \cup {ipcd_ent[d]}
             /\ UNCHANGED asleep
          \/ /\ Goto(l, "get", "getWait")
             /\ ipcd_ent[d] \in busy /\ asleep' = asleep \cup {l}
             /\ UNCHANGED busy
  /\ UNCHANGED <<ipcd_ent, ipcd_seq, allocated, descVars, segacct, alive, ncalls>>

GetWoken(l) ==
  /\ Goto(l, "getWait", "getCheck") /\ l \notin asleep
  /\ TakeBusy(l)
  /\ UNCHANGED <<ipcd_ent, ipcd_seq, allocated, descVars, segacct, alive, call, asleep, ncalls>>

(* The slot has been emptied: again.  Otherwise the identifier is returned,*)
(* or an error if the segment is too small.                                *)
GetCheck(l) ==
  /\ \/ Goto(l, "getCheck", "bcastGet") /\ ipcd_ent[call[l].slot] = NULL
     \/ Goto(l, "getCheck", "bcast") /\ ipcd_ent[call[l].slot] # NULL
  /\ GiveBusy(l)
  /\ UNCHANGED <<ipcd_ent, ipcd_seq, allocated, descVars, segacct, alive, call, asleep, ncalls>>

Unused == Desc \ (allocated \cup busy)

(* ipcget takes a free slot, shmalloc the first free descriptor.           *)
GetNew(l) ==
  /\ Goto(l, "get", "getMake")
  /\ WithKey(call[l].id) = {} /\ Unused # {}
  /\ \E d \in Slot : LET k == Min(Unused) IN
       /\ ipcd_ent[d] = NULL
       /\ ipcd_ent' = [ipcd_ent EXCEPT ![d] = k]
       /\ allocated' = allocated \cup {k} /\ busy' = busy \cup {k}
       /\ key' = [key EXCEPT ![k] = call[l].id]
       /\ call' = [call EXCEPT ![l].slot = d, ![l].desc = k]
  /\ UNCHANGED <<ipcd_seq, refcnt, lkcnt, asp, memory, segacct, alive, asleep, ncalls>>

(* No such key and none wanted, no space, or the size is wrong and MAC is  *)
(* not installed: nothing stays behind.                                    *)
GetRefuse(l) ==
  /\ Return(l, "get")
  /\ UNCHANGED <<ipcd_ent, ipcd_seq, allocated, busy, descVars, segacct, alive, asleep, ncalls>>

(* shm_makevp succeeds: the segment is ready.                              *)
GetMake(l) ==
  /\ Goto(l, "getMake", "bcast")
  /\ memory' = [memory EXCEPT ![call[l].desc] = @ + 1]
  /\ refcnt' = [refcnt EXCEPT ![call[l].desc] = 1]
  /\ GiveBusy(l)
  /\ UNCHANGED <<ipcd_ent, ipcd_seq, allocated, key, lkcnt, asp, segacct, alive, call, asleep, ncalls>>

(* shm_makevp fails, or the size is wrong: the slot is emptied, without a  *)
(* new sequence number.                                                    *)
GetFail(l) ==
  /\ Goto(l, "getMake", "bcast")
  /\ ipcd_ent' = [ipcd_ent EXCEPT ![call[l].slot] = NULL]
  /\ allocated' = allocated \ {call[l].desc} /\ GiveBusy(l)
  /\ UNCHANGED <<ipcd_seq, descVars, segacct, alive, call, asleep, ncalls>>

-----------------------------------------------------------------------------
(* shmconv, called by shmat and shmctl.                                    *)

ConvLookup(l) ==
  /\ pc[l] = "conv"
  /\ \/ ipcd_ent[call[l].slot] = NULL /\ Return(l, "conv")
     \/ /\ ipcd_ent[call[l].slot] # NULL /\ Goto(l, "conv", "convWait")
        /\ call' = [call EXCEPT ![l].desc = ipcd_ent[call[l].slot]]
  /\ UNCHANGED <<ipcd_ent, ipcd_seq, allocated, busy, descVars, segacct, alive, asleep, ncalls>>

ConvTake(l) ==
  /\ Goto(l, "convWait", "convCheck") /\ l \notin asleep
  /\ TakeBusy(l)
  /\ UNCHANGED <<ipcd_ent, ipcd_seq, allocated, descVars, segacct, alive, call, asleep, ncalls>>

(* Mutant: the slot is not looked at again.                                *)
ConvCheck_Blind(l) ==
  /\ Goto(l, "convCheck", "ready") /\ UNCHANGED busy
  /\ UNCHANGED <<ipcd_ent, ipcd_seq, allocated, descVars, segacct, alive, call, asleep, ncalls>>

(* The segment may have gone, or been replaced, during the wait.           *)
Valid(l) ==
  /\ ipcd_ent[call[l].slot] = call[l].desc /\ call[l].desc \in allocated
  /\ ipcd_seq[call[l].slot] = call[l].id

ConvCheck(l) ==
  /\ \/ Goto(l, "convCheck", "ready") /\ Valid(l) /\ UNCHANGED busy
     \/ Goto(l, "convCheck", "bcast") /\ ~ Valid(l) /\ GiveBusy(l)
  /\ UNCHANGED <<ipcd_ent, ipcd_seq, allocated, descVars, segacct, alive, call, asleep, ncalls>>

(* shmat or shmctl refuses access.  Calls that only read or set ownership  *)
(* and times end here too.                                                 *)
ConvRelease(l) ==
  /\ Goto(l, "ready", "bcast")
  /\ GiveBusy(l)
  /\ UNCHANGED <<ipcd_ent, ipcd_seq, allocated, descVars, segacct, alive, call, asleep, ncalls>>

AtAllowed(l) ==
  /\ Goto(l, "ready", "atMap") /\ call[l].op = "at"
  /\ UNCHANGED <<ipcd_ent, ipcd_seq, allocated, busy, descVars, segacct, alive, call, asleep, ncalls>>

(* shmat has too many attachments, or finds no address or no memory.       *)
AtFail(l) ==
  /\ Goto(l, "atMap", "bcast") /\ AsFree(ProcOf[l])
  /\ GiveBusy(l)
  /\ UNCHANGED <<ipcd_ent, ipcd_seq, allocated, descVars, segacct, alive, call, asleep, ncalls>>

(* shmaddr, shmmmap and shm_add under the address space's lock.            *)
AtMap(l) ==
  /\ Goto(l, "atMap", "atDone")
  /\ AsFree(ProcOf[l]) /\ Cardinality(Attached(ProcOf[l])) < Shmseg
  /\ \E a \in Addr \ Attached(ProcOf[l]) : Attach(ProcOf[l], a, call[l].desc)
  /\ UNCHANGED <<ipcd_ent, ipcd_seq, allocated, busy, descVars, alive, call, asleep, ncalls>>

AtDone(l) ==
  /\ Goto(l, "atDone", "bcast")
  /\ refcnt' = [refcnt EXCEPT ![call[l].desc] = @ + 1]
  /\ GiveBusy(l)
  /\ UNCHANGED <<ipcd_ent, ipcd_seq, allocated, key, lkcnt, asp, memory, segacct, alive, call, asleep, ncalls>>

(* shmctl, SHM_LOCK and SHM_UNLOCK.                                        *)
Lock(l) ==
  /\ Goto(l, "ready", "bcast") /\ call[l].op = "lock" /\ lkcnt[call[l].desc] < MaxLock
  /\ lkcnt' = [lkcnt EXCEPT ![call[l].desc] = @ + 1] /\ asp' = asp \cup {call[l].desc}
  /\ GiveBusy(l)
  /\ UNCHANGED <<ipcd_ent, ipcd_seq, allocated, key, refcnt, memory, segacct, alive, call, asleep, ncalls>>

Unlock(l) ==
  /\ Goto(l, "ready", "bcast") /\ call[l].op = "unlock" /\ lkcnt[call[l].desc] > 0
  /\ lkcnt' = [lkcnt EXCEPT ![call[l].desc] = @ - 1]
  /\ asp' = IF lkcnt[call[l].desc] = 1 THEN asp \ {call[l].desc} ELSE asp
  /\ GiveBusy(l)
  /\ UNCHANGED <<ipcd_ent, ipcd_seq, allocated, key, refcnt, memory, segacct, alive, call, asleep, ncalls>>

(* shmctl, IPC_RMID: shm_remove_id makes the segment invisible.            *)
Remove(l) ==
  /\ Goto(l, "ready", "removed") /\ call[l].op = "rmid"
  /\ ipcd_ent' = [ipcd_ent EXCEPT ![call[l].slot] = NULL]
  /\ ipcd_seq' = [ipcd_seq EXCEPT ![call[l].slot] = IF @ = SeqMax THEN 0 ELSE @ + 1]
  /\ UNCHANGED <<allocated, busy, descVars, segacct, alive, call, asleep, ncalls>>

RemoveKeep(l) ==
  /\ Goto(l, "removed", "bcast")
  /\ refcnt[call[l].desc] > 1 /\ refcnt' = [refcnt EXCEPT ![call[l].desc] = @ - 1]
  /\ GiveBusy(l)
  /\ UNCHANGED <<ipcd_ent, ipcd_seq, allocated, key, lkcnt, asp, memory, segacct, alive, call, asleep, ncalls>>

RemoveLast(l) ==
  /\ Goto(l, "removed", "rmMvp")
  /\ refcnt[call[l].desc] = 1 /\ refcnt' = [refcnt EXCEPT ![call[l].desc] = 0]
  /\ UNCHANGED <<ipcd_ent, ipcd_seq, allocated, busy, key, lkcnt, asp, memory, segacct, alive, call, asleep, ncalls>>

(* shm_rm_mvp: unlocks what is still locked and releases the memory.       *)
RmMvp(l) ==
  /\ Goto(l, "rmMvp", "free")
  /\ asp' = IF lkcnt[call[l].desc] > 0 THEN asp \ {call[l].desc} ELSE asp
  /\ memory' = [memory EXCEPT ![call[l].desc] = @ - 1]
  /\ UNCHANGED <<ipcd_ent, ipcd_seq, allocated, busy, key, refcnt, lkcnt, segacct, alive, call, asleep, ncalls>>

(* shmdealloc, which clears SHM_BUSY.                                      *)
Free(l) ==
  /\ Goto(l, "free", "bcast")
  /\ allocated' = allocated \ {call[l].desc} /\ GiveBusy(l)
  /\ lkcnt' = [lkcnt EXCEPT ![call[l].desc] = 0]
  /\ UNCHANGED <<ipcd_ent, ipcd_seq, key, refcnt, asp, memory, segacct, alive, call, asleep, ncalls>>

-----------------------------------------------------------------------------
(* shmdt, and kshmdt for shmexec and shmexit.                              *)

(* shm_find under the address space's lock, which is released.             *)
DtFind(l) ==
  /\ pc[l] = "dt" /\ AsFree(ProcOf[l])
  /\ \/ call[l].addr \notin Attached(ProcOf[l]) /\ Return(l, "dt")
     \/ call[l].addr \in Attached(ProcOf[l]) /\ Goto(l, "dt", "dtDel") /\ UNCHANGED call
  /\ UNCHANGED <<ipcd_ent, ipcd_seq, allocated, busy, descVars, segacct, alive, asleep, ncalls>>

(* shmexit takes the first record; when there is none the process has      *)
(* nothing left, and execs or is gone.                                     *)
ExitNext(l) ==
  /\ pc[l] = "exit"
  /\ \/ /\ Attached(ProcOf[l]) # {} /\ Goto(l, "exit", "dtDel")
        /\ call' = [call EXCEPT ![l].addr = Min(Attached(ProcOf[l]))]
        /\ UNCHANGED alive
     \/ /\ Attached(ProcOf[l]) = {} /\ Goto(l, "exit", "idle")
        /\ alive' = IF call[l].op = "exit" THEN alive \ {ProcOf[l]} ELSE alive
        /\ call' = [call EXCEPT ![l] = NoCall]
  /\ UNCHANGED <<ipcd_ent, ipcd_seq, allocated, busy, descVars, segacct, asleep, ncalls>>

(* shm_del and as_unmap, under the address space's lock.                   *)
DtDel(l) ==
  /\ Goto(l, "dtDel", "dtWait") /\ AsFree(ProcOf[l])
  /\ call' = [call EXCEPT ![l].desc = segacct[ProcOf[l]][call[l].addr]]
  /\ Attach(ProcOf[l], call[l].addr, NULL)
  /\ UNCHANGED <<ipcd_ent, ipcd_seq, allocated, busy, descVars, alive, asleep, ncalls>>

(* Mutant: the count goes down while somebody has SHM_BUSY.                *)
DtLast_NoWait(l) ==
  /\ Goto(l, "dtWait", "rmMvp") /\ l \notin asleep
  /\ refcnt[call[l].desc] = 1 /\ refcnt' = [refcnt EXCEPT ![call[l].desc] = 0]
  /\ busy' = busy \cup {call[l].desc}
  /\ UNCHANGED <<ipcd_ent, ipcd_seq, allocated, key, lkcnt, asp, memory, segacct, alive, call, asleep, ncalls>>

DtLast(l) ==
  /\ Goto(l, "dtWait", "rmMvp") /\ l \notin asleep
  /\ TakeBusy(l)
  /\ refcnt[call[l].desc] = 1 /\ refcnt' = [refcnt EXCEPT ![call[l].desc] = 0]
  /\ UNCHANGED <<ipcd_ent, ipcd_seq, allocated, key, lkcnt, asp, memory, segacct, alive, call, asleep, ncalls>>

DtKeep(l) ==
  /\ Return(l, "dtWait") /\ l \notin asleep
  /\ call[l].desc \notin busy
  /\ refcnt[call[l].desc] > 1 /\ refcnt' = [refcnt EXCEPT ![call[l].desc] = @ - 1]
  /\ UNCHANGED <<ipcd_ent, ipcd_seq, allocated, busy, key, lkcnt, asp, memory, segacct, alive, asleep, ncalls>>

-----------------------------------------------------------------------------
(* shmfork, under the reader lock of the parent's address space.           *)

Missing(l) == Attached(ProcOf[l]) \ Attached(call[l].child)

ForkAdd(l) ==
  /\ Goto(l, "fork", "forkWait")
  /\ Missing(l) # {}
  /\ LET a == Min(Missing(l)) IN
       /\ Attach(call[l].child, a, segacct[ProcOf[l]][a])
       /\ call' = [call EXCEPT ![l].desc = segacct[ProcOf[l]][a]]
  /\ UNCHANGED <<ipcd_ent, ipcd_seq, allocated, busy, descVars, alive, asleep, ncalls>>

(* Mutant: shmfork does not count.                                         *)
ForkCount_Forgotten(l) ==
  /\ Goto(l, "forkWait", "fork") /\ l \notin asleep
  /\ UNCHANGED <<ipcd_ent, ipcd_seq, allocated, busy, descVars, segacct, alive, call, asleep, ncalls>>

ForkCount(l) ==
  /\ Goto(l, "forkWait", "fork") /\ l \notin asleep
  /\ call[l].desc \notin busy
  /\ refcnt' = [refcnt EXCEPT ![call[l].desc] = @ + 1]
  /\ UNCHANGED <<ipcd_ent, ipcd_seq, allocated, busy, key, lkcnt, asp, memory, segacct, alive, call, asleep, ncalls>>

(* The child can run.                                                      *)
ForkDone(l) ==
  /\ Return(l, "fork") /\ Missing(l) = {}
  /\ alive' = alive \cup {call[l].child}
  /\ UNCHANGED <<ipcd_ent, ipcd_seq, allocated, busy, descVars, segacct, asleep, ncalls>>

-----------------------------------------------------------------------------
Step(l) ==
  \/ WaitBusy(l) \/ Broadcast(l)
  \/ GetExisting(l) \/ GetWoken(l) \/ GetCheck(l) \/ GetNew(l) \/ GetRefuse(l) \/ GetMake(l) \/ GetFail(l)
  \/ ConvLookup(l) \/ ConvTake(l) \/ ConvCheck(l) \/ ConvRelease(l)
  \/ AtAllowed(l) \/ AtFail(l) \/ AtMap(l) \/ AtDone(l) \/ Lock(l) \/ Unlock(l)
  \/ Remove(l) \/ RemoveKeep(l) \/ RemoveLast(l) \/ RmMvp(l) \/ Free(l)
  \/ DtFind(l) \/ ExitNext(l) \/ DtDel(l) \/ DtLast(l) \/ DtKeep(l)
  \/ ForkAdd(l) \/ ForkCount(l) \/ ForkDone(l)

Next == \E l \in Lwp : Call(l) \/ Step(l)

Spec == Init /\ [][Next]_vars

(* LWPs go on as long as they do not sleep.                                *)
FairSpec == Spec /\ \A l \in Lwp : WF_vars(Step(l))

-----------------------------------------------------------------------------
(* Properties.                                                             *)

Listed(k) ==
  /\ \E d \in Slot : ipcd_ent[d] = k
  /\ \A l \in Lwp : ~ (pc[l] = "getMake" /\ call[l].desc = k)

At(k, places) == {l \in Lwp : pc[l] \in places /\ call[l].desc = k}

Attachments(k) == {pa \in Proc \X Addr : segacct[pa[1]][pa[2]] = k}

(* kshm_refcnt is the number of attachments of the segment, and one for    *)
(* its identifier, whatever shmat, shmdt, fork, exit and IPC_RMID do at a  *)
(* time; a call that has changed the one and not yet the other makes up    *)
(* the difference.                                                         *)
RefExact ==
  \A k \in Desc :
    refcnt[k] + Cardinality(At(k, {"atDone", "forkWait"}))
      = Cardinality(Attachments(k)) + (IF Listed(k) THEN 1 ELSE 0)
        + Cardinality(At(k, {"dtWait", "removed"}))

(* The memory of a segment is there as long as it is attached or has an    *)
(* identifier, and is released once, with its lock in core: no process is  *)
(* left with a segment that went, none of the memory is lost.              *)
MemoryExact ==
  \A k \in Desc :
    /\ Attachments(k) # {} \/ Listed(k) => memory[k] = 1
    /\ k \notin allocated => memory[k] = 0 /\ k \notin asp
    /\ memory[k] = 0 => k \notin asp

(* A segment lives as long as it is in use, by its count and in fact.      *)
SegmentExact == RefExact /\ MemoryExact

(* An LWP that shmconv let through works on the segment its identifier     *)
(* names, until it gives SHM_BUSY back: IPC_RMID by another LWP, and the   *)
(* reuse of the slot, come before or after.                                *)
IdHolds == \A l \in Lwp : pc[l] \in {"ready", "atMap", "atDone"} => Valid(l)

HasBusy(l, k) ==
  /\ call[l].desc = k
  /\ pc[l] \in {"getMake", "getCheck", "convCheck", "ready", "atMap", "atDone", "removed", "rmMvp", "free"}

(* SHM_BUSY is held by one LWP, and who sleeps for it will be woken: the   *)
(* holder is still at work or about to broadcast.                          *)
BusyExact ==
  /\ \A k \in Desc : Cardinality({l \in Lwp : HasBusy(l, k)}) = (IF k \in busy THEN 1 ELSE 0)
  /\ \A l \in asleep : call[l].desc \in busy \/ At(call[l].desc, {"bcast", "bcastGet"}) # {}

(* In a program as ShmAssumption has it every system call returns: nobody  *)
(* sleeps for ever on kshm_sv, and an LWP that waits for the address space *)
(* while another one of its process forks gets it, though the fork itself  *)
(* waits for SHM_BUSY and for what its holder does.  (Where one LWP        *)
(* attaches while another one forks the two waits do close a circle.)      *)
EveryCallReturns == \A l \in Lwp : pc[l] # "idle" ~> pc[l] = "idle"

=============================================================================
