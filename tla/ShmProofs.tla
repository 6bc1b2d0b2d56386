------------------------------ MODULE ShmProofs ------------------------------
(***************************************************************************)
(* Proofs about Shm: a shared memory segment lives as long as it is in     *)
(* use, by its count and in fact; an LWP that shmconv let through works on *)
(* the segment its identifier names; and SHM_BUSY has one holder, for any  *)
(* slots, descriptors, processes, LWPs and system calls.                   *)
(***************************************************************************)
EXTENDS Shm, FiniteSetTheorems, WellFoundedInduction, TLAPS

-----------------------------------------------------------------------------
(***************************************************************************)
(* The inductive invariant.                                                *)

Taken    == {"getMake", "getCheck", "convCheck", "ready", "atMap", "atDone", "removed", "rmMvp", "free"}
Waiting  == {"getWait", "convWait", "dtWait", "forkWait"}
WithDesc == Taken \cup Waiting \cup {"bcast", "bcastGet"}
WithSlot == {"getWait", "getMake", "getCheck", "conv", "convWait", "convCheck", "ready", "atMap",
             "atDone"}
Places   == WithDesc \cup {"idle", "get", "conv", "dt", "dtDel", "exit", "fork"}
Conv     == {"at", "rmid", "lock", "unlock", "stat"}
Detach   == {"dt", "exec", "exit"}

CallRec == [op : Calls \cup {NULL}, slot : Slot \cup {NULL}, desc : Desc \cup {NULL},
            id : Key \cup (0..SeqMax) \cup {NULL}, addr : Addr \cup {NULL},
            child : Proc \cup {NULL}]

DataType ==
  /\ ipcd_ent \in [Slot -> Desc \cup {NULL}] /\ ipcd_seq \in [Slot -> 0..SeqMax]
  /\ allocated \subseteq Desc /\ busy \subseteq Desc /\ asp \subseteq Desc
  /\ key \in [Desc -> Key \cup {NULL}] /\ refcnt \in [Desc -> Nat] /\ lkcnt \in [Desc -> Nat]
  /\ memory \in [Desc -> Int]
  /\ segacct \in [Proc -> [Addr -> Desc \cup {NULL}]] /\ alive \subseteq Proc
PlaceType ==
  /\ pc \in [Lwp -> Places] /\ call \in [Lwp -> CallRec]
  /\ asleep \subseteq Lwp /\ ncalls \in [Lwp -> Nat]
TypeInv == DataType /\ PlaceType

(* The system calls that come to a place.                                  *)
OpFits(l) ==
  /\ pc[l] = "idle" => call[l] = NoCall
  /\ pc[l] \in {"get", "getWait", "getCheck", "getMake", "bcastGet"} => call[l].op = "get"
  /\ pc[l] \in {"conv", "convWait", "convCheck", "ready"} => call[l].op \in Conv
  /\ pc[l] \in {"atMap", "atDone"} => call[l].op = "at"
  /\ pc[l] = "removed" => call[l].op = "rmid"
  /\ pc[l] \in {"rmMvp", "free"} => call[l].op \in {"rmid"} \cup Detach
  /\ pc[l] = "dt" => call[l].op = "dt"
  /\ pc[l] \in {"dtDel", "dtWait"} => call[l].op \in Detach
  /\ pc[l] = "exit" => call[l].op \in {"exec", "exit"}
  /\ pc[l] \in {"fork", "forkWait"} => call[l].op = "fork"
  /\ pc[l] = "bcast" => call[l].op \in Calls \ {"fork"}

(* What a call has found is there, and it is where such a call may be.     *)
PlaceOk(l) ==
  /\ pc[l] \in WithDesc => call[l].desc \in Desc
  /\ pc[l] \in WithSlot => call[l].slot \in Slot
  /\ pc[l] # "idle" => call[l].op \in Ops[l] /\ ProcOf[l] \in alive
  /\ call[l].op # "fork" => call[l].child = NULL
  /\ call[l].op = "get" => call[l].id \in Key
  /\ pc[l] = "dt" => call[l].addr \in Addr
PlaceInv == \A l \in Lwp : OpFits(l) /\ PlaceOk(l)

(* A process that execs or exits has one LWP at work.                      *)
ExitInv ==
  \A l, m \in Lwp : l # m /\ ProcOf[l] = ProcOf[m] /\ Exiting(l) => pc[m] = "idle"

(* SHM_BUSY has one holder.                                                *)
HoldInv ==
  /\ \A k \in Desc : k \in busy <=> \E l \in Lwp : HasBusy(l, k)
  /\ \A k \in Desc : \A l, m \in Lwp : HasBusy(l, k) /\ HasBusy(m, k) => l = m

WakeInv ==
  \A l \in asleep : /\ pc[l] \in Waiting
                    /\ call[l].desc \in busy \/ At(call[l].desc, {"bcast", "bcastGet"}) # {}

(* A descriptor has one slot at most; shmget has it while it makes the     *)
(* segment, and IPC_RMID takes it away.                                    *)
SlotOk(l) ==
  /\ pc[l] = "getMake" => ipcd_ent[call[l].slot] = call[l].desc
  /\ pc[l] \in {"removed", "rmMvp", "free"} =>
        call[l].desc \in allocated /\ \A d \in Slot : ipcd_ent[d] # call[l].desc
SlotInv ==
  /\ \A d, e \in Slot : ipcd_ent[d] # NULL /\ ipcd_ent[d] = ipcd_ent[e] => d = e
  /\ \A d \in Slot : ipcd_ent[d] # NULL => ipcd_ent[d] \in allocated
  /\ \A l \in Lwp : SlotOk(l)

(* The record that shmdt found stays until it is deleted.                  *)
DetachInv ==
  \A l \in Lwp :
    pc[l] = "dtDel" => call[l].addr \in Addr /\ segacct[ProcOf[l]][call[l].addr] # NULL

(* A child under construction is nobody else's, and has the record that is *)
(* to be counted, and so has the parent.                                   *)
ChildOk(l) ==
  /\ call[l].child \in Proc \ alive /\ call[l].child # NULL
  /\ \A m \in Lwp : m # l => call[m].child # call[l].child
RecordOk(l) ==
  \E a \in Addr : segacct[call[l].child][a] = call[l].desc /\ segacct[ProcOf[l]][a] = call[l].desc
ForkInv ==
  \A l \in Lwp : /\ pc[l] \in {"fork", "forkWait"} => ChildOk(l)
                 /\ pc[l] = "forkWait" => RecordOk(l)

(* A descriptor that is free, or about to be made or freed, has no user.   *)
Unborn(k) == At(k, {"getMake"}) # {}
Dying(k)  == At(k, {"rmMvp", "free"}) # {}
Dead(k)   == k \notin allocated \/ Unborn(k) \/ Dying(k)
Plus(k)   == At(k, {"atDone", "forkWait"})
Minus(k)  == At(k, {"dtWait", "removed"})
DeadInv   == \A k \in Desc : Dead(k) => Attachments(k) = {} /\ Plus(k) = {} /\ Minus(k) = {}

MemoryInv ==
  \A k \in Desc :
    /\ memory[k] = (IF k \in allocated /\ ~Unborn(k) /\ At(k, {"free"}) = {} THEN 1 ELSE 0)
    /\ k \in asp => memory[k] = 1

(* What is locked in core is locked so often.                              *)
LockedInv == \A k \in asp : lkcnt[k] > 0

IInv ==
  /\ TypeInv /\ PlaceInv /\ ExitInv
  /\ HoldInv /\ WakeInv /\ SlotInv /\ IdHolds
  /\ DetachInv /\ ForkInv /\ DeadInv /\ RefExact /\ MemoryInv /\ LockedInv

-----------------------------------------------------------------------------
(***************************************************************************)
(* Numbers, and what every step leaves alone.                              *)

(* Min finds the least member of a set of natural numbers.                 *)
LEMMA MinIsThere ==
  ASSUME NEW S, S \subseteq Nat, S # {}
  PROVE  Min(S) \in S
<1>. DEFINE Upto(x) == {y \in S : y =< x}
            T == {Upto(x) : x \in S}
<1>1. \A x \in S : Upto(x) \subseteq S /\ IsFiniteSet(Upto(x))
  <2>. TAKE x \in S
  <2>1. x \in Int /\ 0 \in Int
    OBVIOUS
  <2>4. ASSUME NEW y \in Upto(x)
        PROVE  y \in 0..x
    <3>1. y \in S /\ y =< x
      OBVIOUS
    <3>. QED
      BY <3>1, <2>1
  <2>2. IsFiniteSet(0..x)
    BY <2>1, FS_Interval
  <2>5. Upto(x) \in SUBSET (0..x)
    BY <2>4
  <2>6. Upto(x) \subseteq S
    OBVIOUS
  <2>. HIDE DEF Upto
  <2>3. IsFiniteSet(Upto(x))
    BY <2>5, <2>2, FS_Subset
  <2>. QED
    BY <2>3, <2>6
<1>2. T \subseteq FiniteSubsetsOf(S) /\ T # {}
  BY <1>1 DEF FiniteSubsetsOf
<1>3. PICK U \in T : \A V \in T : <<V, U>> \notin StrictSubsetOrdering(S)
  BY <1>2, FS_StrictSubsetOrderingWellFounded, WFMin
<1>4. PICK x \in S : U = Upto(x)
  OBVIOUS
<1>5. ASSUME NEW y \in S, y < x
      PROVE  FALSE
  <2>. y \in Nat /\ x \in Nat
    OBVIOUS
  <2>1. x \in Upto(x) /\ x \notin Upto(y)
    BY <1>5
  <2>3. ASSUME NEW z \in Upto(y)
        PROVE  z \in Upto(x)
    <3>1. z \in S /\ z =< y /\ z \in Nat
      OBVIOUS
    <3>. QED
      BY <3>1, <1>5
  <2>2. Upto(y) \in SUBSET S /\ Upto(x) \in SUBSET S /\ Upto(y) # Upto(x)
    BY <2>1
  <2>. QED
    <3>1. Upto(y) \in T /\ Upto(y) \subseteq Upto(x)
      BY <2>3
    <3>2. <<Upto(y), Upto(x)>> \notin StrictSubsetOrdering(S)
      BY <1>3, <1>4, <3>1
    <3>. HIDE DEF Upto
    <3>. QED
      BY <3>1, <3>2, <2>2 DEF StrictSubsetOrdering
<1>6. \A y \in S : x =< y
  BY <1>5
<1>. QED
  BY <1>6 DEF Min

(* A step of one LWP leaves the call of every other one alone.             *)
Alone(l) == \A m \in Lwp : m # l => pc'[m] = pc[m] /\ call'[m] = call[m]

(* A step of an LWP leaves the place and the call of every other LWP alone. *)
LEMMA OnlyMine ==
  ASSUME TypeInv, NEW l \in Lwp, Call(l) \/ Step(l)
  PROVE  Alone(l)
<1>. USE DEF Goto, Return, Alone, TypeInv, PlaceType
<1>1. CASE Call(l)
  BY <1>1 DEF Call
<1>2. CASE WaitBusy(l) \/ Broadcast(l)
  BY <1>2 DEF WaitBusy, Broadcast
<1>3. CASE GetExisting(l) \/ GetWoken(l) \/ GetCheck(l) \/ GetNew(l) \/ GetRefuse(l) \/ GetMake(l)
           \/ GetFail(l)
  BY <1>3 DEF GetExisting, Found, GetWoken, GetCheck, GetNew, GetRefuse, GetMake, GetFail
<1>4. CASE ConvLookup(l) \/ ConvTake(l) \/ ConvCheck(l) \/ ConvRelease(l)
  BY <1>4 DEF ConvLookup, ConvTake, ConvCheck, ConvRelease
<1>5. CASE AtAllowed(l) \/ AtFail(l) \/ AtMap(l) \/ AtDone(l) \/ Lock(l) \/ Unlock(l)
  BY <1>5 DEF AtAllowed, AtFail, AtMap, AtDone, Lock, Unlock
<1>6. CASE Remove(l) \/ RemoveKeep(l) \/ RemoveLast(l) \/ RmMvp(l) \/ Free(l)
  BY <1>6 DEF Remove, RemoveKeep, RemoveLast, RmMvp, Free
<1>7. CASE DtFind(l) \/ ExitNext(l) \/ DtDel(l) \/ DtLast(l) \/ DtKeep(l)
  BY <1>7 DEF DtFind, ExitNext, DtDel, DtLast, DtKeep
<1>8. CASE ForkAdd(l) \/ ForkCount(l) \/ ForkDone(l)
  BY <1>8 DEF ForkAdd, ForkCount, ForkDone
<1>. QED
  BY <1>1, <1>2, <1>3, <1>4, <1>5, <1>6, <1>7, <1>8 DEF Step

(* Where a step that names its places goes.                                *)
LEMMA GotoShape ==
  ASSUME TypeInv, NEW l \in Lwp, NEW from, NEW to \in Places, Goto(l, from, to)
  PROVE  /\ pc[l] = from /\ pc'[l] = to /\ pc' \in [Lwp -> Places]
         /\ \A m \in Lwp : m # l => pc'[m] = pc[m]
BY DEF Goto, TypeInv, PlaceType

(* Where a call that returns goes.                                         *)
LEMMA ReturnShape ==
  ASSUME TypeInv, NEW l \in Lwp, NEW from, Return(l, from)
  PROVE  /\ pc[l] = from /\ pc' \in [Lwp -> Places] /\ call' \in [Lwp -> CallRec]
         /\ pc'[l] = IF call[l].op \in {"exec", "exit"} THEN "exit" ELSE "idle"
         /\ call'[l] = IF call[l].op \in {"exec", "exit"} THEN [NoCall EXCEPT !.op = call[l].op]
                                                          ELSE NoCall
         /\ \A m \in Lwp : m # l => pc'[m] = pc[m] /\ call'[m] = call[m]
<1>. DEFINE p == IF Exiting(l) THEN "exit" ELSE "idle"
            c == IF Exiting(l) THEN [NoCall EXCEPT !.op = call[l].op] ELSE NoCall
<1>1. p \in Places
  BY DEF Places
<1>2. c \in CallRec
  BY DEF NoCall, CallRec, TypeInv, PlaceType
<1>3. Goto(l, from, p) /\ call' = [call EXCEPT ![l] = c]
  BY DEF Return
<1>4. /\ p = IF call[l].op \in {"exec", "exit"} THEN "exit" ELSE "idle"
      /\ c = IF call[l].op \in {"exec", "exit"} THEN [NoCall EXCEPT !.op = call[l].op] ELSE NoCall
  BY DEF Exiting
<1>. HIDE DEF p, c
<1>. QED
  BY <1>1, <1>2, <1>3, <1>4, GotoShape DEF TypeInv, PlaceType

(* What a call works on is there.                                          *)
LEMMA PlaceFacts ==
  ASSUME TypeInv, PlaceInv, NEW l \in Lwp
  PROVE  /\ pc[l] \in Places /\ call[l] \in CallRec /\ ProcOf[l] \in Proc
         /\ call[l].op \in Calls \cup {NULL} /\ call[l].slot \in Slot \cup {NULL}
         /\ call[l].desc \in Desc \cup {NULL} /\ call[l].id \in Key \cup (0..SeqMax) \cup {NULL}
         /\ call[l].addr \in Addr \cup {NULL} /\ call[l].child \in Proc \cup {NULL}
         /\ segacct[ProcOf[l]] \in [Addr -> Desc \cup {NULL}]
         /\ Desc \subseteq Nat /\ NULL \notin Desc /\ NULL \notin Calls /\ Ops[l] \subseteq Calls
BY ShmAssumption DEF TypeInv, PlaceType, DataType, CallRec

(* The next free descriptor, and the next record to detach or to copy.     *)
LEMMA UnusedFacts ==
  ASSUME Unused # {}
  PROVE  Min(Unused) \in Desc /\ Min(Unused) \notin allocated /\ Min(Unused) \notin busy
<1>1. Unused \subseteq Nat
  BY ShmAssumption DEF Unused
<1>. QED
  BY <1>1, MinIsThere DEF Unused

(* A nonempty set of attachments has a first one, with a descriptor.        *)
LEMMA AttachedFacts ==
  ASSUME TypeInv, NEW p \in Proc, NEW S, S \subseteq Attached(p), S # {}
  PROVE  Min(S) \in S /\ Min(S) \in Addr /\ segacct[p][Min(S)] \in Desc
<1>1. S \subseteq Nat /\ S \subseteq Addr
  BY ShmAssumption DEF Attached
<1>2. Min(S) \in S
  BY <1>1, MinIsThere
<1>3. segacct[p] \in [Addr -> Desc \cup {NULL}]
  BY DEF TypeInv, DataType
<1>4. segacct[p][Min(S)] # NULL
  BY <1>2 DEF Attached
<1>. QED
  BY <1>1, <1>2, <1>3, <1>4

(* The call of l gets these values in its fields.                          *)
CallIs(l, o, d, k, x, a, c) ==
  /\ call' \in [Lwp -> CallRec] /\ \A m \in Lwp : m # l => call'[m] = call[m]
  /\ call'[l].op = o /\ call'[l].slot = d /\ call'[l].desc = k
  /\ call'[l].id = x /\ call'[l].addr = a /\ call'[l].child = c

(* The argument of shmget.                                                 *)
LEMMA SetGet ==
  ASSUME TypeInv, NEW l \in Lwp, NEW o \in Calls, NEW x \in Key \cup (0..SeqMax),
         call' = [call EXCEPT ![l].op = o, ![l].id = x]
  PROVE  CallIs(l, o, call[l].slot, call[l].desc, x, call[l].addr, call[l].child)
BY DEF TypeInv, PlaceType, CallRec, CallIs

(* The argument of shmat and shmctl, an identifier.                        *)
LEMMA SetConv ==
  ASSUME TypeInv, NEW l \in Lwp, NEW o \in Calls, NEW d \in Slot, NEW x \in Key \cup (0..SeqMax),
         call' = [call EXCEPT ![l].op = o, ![l].slot = d, ![l].id = x]
  PROVE  CallIs(l, o, d, call[l].desc, x, call[l].addr, call[l].child)
BY DEF TypeInv, PlaceType, CallRec, CallIs

(* The argument of shmdt.                                                  *)
LEMMA SetDt ==
  ASSUME TypeInv, NEW l \in Lwp, NEW o \in Calls, NEW a \in Addr,
         call' = [call EXCEPT ![l].op = o, ![l].addr = a]
  PROVE  CallIs(l, o, call[l].slot, call[l].desc, call[l].id, a, call[l].child)
BY DEF TypeInv, PlaceType, CallRec, CallIs

(* The child of a fork.                                                    *)
LEMMA SetFork ==
  ASSUME TypeInv, NEW l \in Lwp, NEW o \in Calls, NEW c \in Proc,
         call' = [call EXCEPT ![l].op = o, ![l].child = c]
  PROVE  CallIs(l, o, call[l].slot, call[l].desc, call[l].id, call[l].addr, c)
BY DEF TypeInv, PlaceType, CallRec, CallIs

(* A call without an argument.                                             *)
LEMMA SetOp ==
  ASSUME TypeInv, NEW l \in Lwp, NEW o \in Calls,
         call' = [call EXCEPT ![l].op = o]
  PROVE  CallIs(l, o, call[l].slot, call[l].desc, call[l].id, call[l].addr, call[l].child)
BY DEF TypeInv, PlaceType, CallRec, CallIs

(* shmget has a slot and a descriptor.                                     *)
LEMMA SetFound ==
  ASSUME TypeInv, NEW l \in Lwp, NEW d \in Slot, NEW k \in Desc,
         call' = [call EXCEPT ![l].slot = d, ![l].desc = k]
  PROVE  CallIs(l, call[l].op, d, k, call[l].id, call[l].addr, call[l].child)
BY DEF TypeInv, PlaceType, CallRec, CallIs

(* A descriptor has been found.                                            *)
LEMMA SetDesc ==
  ASSUME TypeInv, NEW l \in Lwp, NEW k \in Desc,
         call' = [call EXCEPT ![l].desc = k]
  PROVE  CallIs(l, call[l].op, call[l].slot, k, call[l].id, call[l].addr, call[l].child)
BY DEF TypeInv, PlaceType, CallRec, CallIs

(* shmexit and shmexec have found a record.                                *)
LEMMA SetAddr ==
  ASSUME TypeInv, NEW l \in Lwp, NEW a \in Addr,
         call' = [call EXCEPT ![l].addr = a]
  PROVE  CallIs(l, call[l].op, call[l].slot, call[l].desc, call[l].id, a, call[l].child)
BY DEF TypeInv, PlaceType, CallRec, CallIs

(* A new system call.                                                      *)
NewGet(l)  == pc'[l] = "get" /\ \E x \in Key : CallIs(l, "get", NULL, NULL, x, NULL, NULL)
NewConv(l) == /\ pc'[l] = "conv"
              /\ \E o \in Conv, d \in Slot, x \in 0..SeqMax : CallIs(l, o, d, NULL, x, NULL, NULL)
NewDt(l)   == pc'[l] = "dt" /\ \E a \in Addr : CallIs(l, "dt", NULL, NULL, NULL, a, NULL)
NewFork(l) == /\ pc'[l] = "fork"
              /\ \E c \in Proc \ alive : /\ \A m \in Lwp : call[m].child # c
                                         /\ CallIs(l, "fork", NULL, NULL, NULL, NULL, c)
NewExit(l) == /\ pc'[l] = "exit"
              /\ \E o \in {"exec", "exit"} : CallIs(l, o, NULL, NULL, NULL, NULL, NULL)
              /\ \A m \in Lwp \ {l} : ProcOf[m] = ProcOf[l] => pc[m] = "idle"

(* A call starts at idle and puts its LWP at the entry of its routine.      *)
LEMMA CallShape ==
  ASSUME TypeInv, PlaceInv, NEW l \in Lwp, Call(l)
  PROVE  /\ pc[l] = "idle" /\ ProcOf[l] \in alive /\ pc' \in [Lwp -> Places] /\ call' \in [Lwp -> CallRec]
         /\ \A m \in Lwp : ProcOf[m] = ProcOf[l] => ~Exiting(m)
         /\ NewGet(l) \/ NewConv(l) \/ NewDt(l) \/ NewFork(l) \/ NewExit(l)
         /\ call'[l].op \in Ops[l]
<1>1. pc[l] = "idle" /\ ProcOf[l] \in alive /\ \A m \in Lwp : ProcOf[m] = ProcOf[l] => ~Exiting(m)
  BY DEF Call
<1>2. /\ call[l].op = NULL /\ call[l].slot = NULL /\ call[l].desc = NULL
      /\ call[l].id = NULL /\ call[l].addr = NULL /\ call[l].child = NULL
  BY <1>1 DEF PlaceInv, OpFits, NoCall
<1>3. Ops[l] \subseteq Calls
  BY PlaceFacts
<1>4. PICK o \in Ops[l] :
       \/ /\ o = "get" /\ Goto(l, "idle", "get")
          /\ \E x \in Key : call' = [call EXCEPT ![l].op = o, ![l].id = x]
       \/ /\ o \in Conv /\ Goto(l, "idle", "conv")
          /\ \E d \in Slot, s \in 0..SeqMax :
               call' = [call EXCEPT ![l].op = o, ![l].slot = d, ![l].id = s]
       \/ /\ o = "dt" /\ Goto(l, "idle", "dt")
          /\ \E a \in Addr : call' = [call EXCEPT ![l].op = o, ![l].addr = a]
       \/ /\ o = "fork" /\ Goto(l, "idle", "fork")
          /\ \E c \in Proc \ alive :
               /\ \A m \in Lwp : call[m].child # c
               /\ call' = [call EXCEPT ![l].op = o, ![l].child = c]
       \/ /\ o \in {"exec", "exit"} /\ Goto(l, "idle", "exit")
          /\ \A m \in Lwp \ {l} : ProcOf[m] = ProcOf[l] => pc[m] = "idle"
          /\ call' = [call EXCEPT ![l].op = o]
  BY Zenon DEF Call, Conv
<1>. USE DEF Places
<1>5. CASE o = "get" /\ Goto(l, "idle", "get")
           /\ \E x \in Key : call' = [call EXCEPT ![l].op = o, ![l].id = x]
  <2>1. PICK x \in Key : call' = [call EXCEPT ![l].op = o, ![l].id = x]
    BY <1>5
  <2>2. CallIs(l, o, NULL, NULL, x, NULL, NULL)
    BY <1>2, <1>3, <2>1, SetGet
  <2>. QED
    BY <1>1, <1>5, <2>2, GotoShape DEF NewGet, CallIs
<1>6. CASE o \in Conv /\ Goto(l, "idle", "conv")
           /\ \E d \in Slot, s \in 0..SeqMax :
               call' = [call EXCEPT ![l].op = o, ![l].slot = d, ![l].id = s]
  <2>1. PICK d \in Slot, x \in 0..SeqMax : call' = [call EXCEPT ![l].op = o, ![l].slot = d, ![l].id = x]
    BY <1>6
  <2>2. CallIs(l, o, d, NULL, x, NULL, NULL)
    BY <1>2, <1>3, <2>1, SetConv
  <2>. QED
    BY <1>1, <1>6, <2>2, GotoShape DEF NewConv, CallIs
<1>7. CASE o = "dt" /\ Goto(l, "idle", "dt")
           /\ \E a \in Addr : call' = [call EXCEPT ![l].op = o, ![l].addr = a]
  <2>1. PICK a \in Addr : call' = [call EXCEPT ![l].op = o, ![l].addr = a]
    BY <1>7
  <2>2. CallIs(l, o, NULL, NULL, NULL, a, NULL)
    BY <1>2, <1>3, <2>1, SetDt
  <2>. QED
    BY <1>1, <1>7, <2>2, GotoShape DEF NewDt, CallIs
<1>8. CASE o = "fork" /\ Goto(l, "idle", "fork")
           /\ \E c \in Proc \ alive :
               /\ \A m \in Lwp : call[m].child # c
               /\ call' = [call EXCEPT ![l].op = o, ![l].child = c]
  <2>1. PICK c \in Proc \ alive : /\ \A m \in Lwp : call[m].child # c
                                  /\ call' = [call EXCEPT ![l].op = o, ![l].child = c]
    BY <1>8
  <2>2. CallIs(l, o, NULL, NULL, NULL, NULL, c)
    BY <1>2, <1>3, <2>1, SetFork
  <2>. QED
    BY <1>1, <1>8, <2>1, <2>2, GotoShape DEF NewFork, CallIs
<1>9. CASE o \in {"exec", "exit"} /\ Goto(l, "idle", "exit")
           /\ (\A m \in Lwp \ {l} : ProcOf[m] = ProcOf[l] => pc[m] = "idle")
           /\ call' = [call EXCEPT ![l].op = o]
  <2>1. CallIs(l, o, NULL, NULL, NULL, NULL, NULL)
    BY <1>2, <1>3, <1>9, SetOp
  <2>. QED
    BY <1>1, <1>9, <2>1, GotoShape DEF NewExit, CallIs
<1>. QED
  BY <1>4, <1>5, <1>6, <1>7, <1>8, <1>9

(* Places and calls keep their type.                                       *)
LEMMA PlaceTypeKeeps ==
  ASSUME TypeInv, PlaceInv, DetachInv, NEW l \in Lwp, Call(l) \/ Step(l)
  PROVE  PlaceType'
<1>a. pc \in [Lwp -> Places] /\ call \in [Lwp -> CallRec] /\ asleep \subseteq Lwp
      /\ ncalls \in [Lwp -> Nat]
  BY DEF TypeInv, PlaceType
<1>b. Places = WithDesc \cup {"idle", "get", "conv", "dt", "dtDel", "exit", "fork"}
      /\ WithDesc = Taken \cup Waiting \cup {"bcast", "bcastGet"}
  BY DEF Places, WithDesc
<1>c. ipcd_ent \in [Slot -> Desc \cup {NULL}]
  BY DEF TypeInv, DataType
<1>. USE DEF Taken, Waiting
<1>1. CASE Call(l)
  <2>1. ncalls' = [ncalls EXCEPT ![l] = @ + 1] /\ asleep' = asleep
    BY <1>1, Zenon DEF Call
  <2>2. ncalls' \in [Lwp -> Nat]
    BY <1>a, <2>1
  <2>. QED
    BY <1>1, <1>a, <2>1, <2>2, CallShape DEF PlaceType
<1>2. CASE WaitBusy(l) \/ GetWoken(l) \/ GetCheck(l) \/ GetMake(l) \/ GetFail(l)
  BY <1>2, <1>a, <1>b, GotoShape DEF WaitBusy, GetWoken, GetCheck, GetMake, GetFail, PlaceType
<1>3. CASE Broadcast(l) \/ GetRefuse(l) \/ DtFind(l) \/ DtKeep(l) \/ ForkDone(l)
  BY <1>3, <1>a, <1>b, GotoShape, ReturnShape
     DEF Broadcast, GetRefuse, DtFind, DtKeep, ForkDone, PlaceType
<1>4. CASE ConvTake(l) \/ ConvCheck(l) \/ ConvRelease(l) \/ AtAllowed(l) \/ AtFail(l) \/ AtMap(l)
           \/ AtDone(l) \/ Lock(l) \/ Unlock(l)
  BY <1>4, <1>a, <1>b, GotoShape
     DEF ConvTake, ConvCheck, ConvRelease, AtAllowed, AtFail, AtMap, AtDone, Lock, Unlock, PlaceType
<1>5. CASE Remove(l) \/ RemoveKeep(l) \/ RemoveLast(l) \/ RmMvp(l) \/ Free(l) \/ DtLast(l)
           \/ ForkCount(l)
  BY <1>5, <1>a, <1>b, GotoShape
     DEF Remove, RemoveKeep, RemoveLast, RmMvp, Free, DtLast, ForkCount, PlaceType
<1>6. CASE GetExisting(l)
  <2>1. call' \in [Lwp -> CallRec]
    BY <1>6, <1>c, SetFound DEF GetExisting, Found, WithKey, CallIs
  <2>2. pc' \in [Lwp -> Places]
    BY <1>6, <1>b, GotoShape DEF GetExisting
  <2>. QED
    BY <1>6, <1>a, <2>1, <2>2 DEF GetExisting, PlaceType
<1>7. CASE GetNew(l)
  <2>1. call' \in [Lwp -> CallRec]
    <3>1. PICK d \in Slot : call' = [call EXCEPT ![l].slot = d, ![l].desc = Min(Unused)]
      BY <1>7 DEF GetNew
    <3>2. Min(Unused) \in Desc
      BY <1>7, UnusedFacts DEF GetNew
    <3>. QED
      BY <3>1, <3>2, SetFound DEF CallIs
  <2>2. pc' \in [Lwp -> Places]
    BY <1>7, <1>b, GotoShape DEF GetNew
  <2>. QED
    BY <1>7, <1>a, <2>1, <2>2 DEF GetNew, PlaceType
<1>8. CASE ConvLookup(l)
  <2>1. CASE Return(l, "conv")
    BY <1>8, <1>a, <2>1, ReturnShape DEF ConvLookup, PlaceType
  <2>2. CASE Goto(l, "conv", "convWait") /\ call' = [call EXCEPT ![l].desc = ipcd_ent[call[l].slot]]
    <3>1. call[l].slot \in Slot
      BY <2>2 DEF Goto, PlaceInv, PlaceOk, WithSlot
    <3>2. call' \in [Lwp -> CallRec]
      BY <1>8, <2>2, <3>1, <1>c, SetDesc, ReturnShape DEF ConvLookup, CallIs
    <3>. QED
      BY <1>8, <1>a, <1>b, <2>2, <3>2, GotoShape DEF ConvLookup, PlaceType
  <2>. QED
    BY <1>8, <2>1, <2>2 DEF ConvLookup
<1>9. CASE ExitNext(l)
  <2>1. Attached(ProcOf[l]) # {} => Min(Attached(ProcOf[l])) \in Addr
    BY PlaceFacts, AttachedFacts
  <2>4. NoCall \in CallRec
    BY DEF NoCall, CallRec
  <2>2. call' \in [Lwp -> CallRec]
    BY <1>9, <1>a, <2>1, <2>4, SetAddr DEF ExitNext, CallIs
  <2>3. pc' \in [Lwp -> Places]
    BY <1>9, <1>b, GotoShape DEF ExitNext
  <2>. QED
    BY <1>9, <1>a, <2>2, <2>3 DEF ExitNext, PlaceType
<1>10. CASE DtDel(l)
  <2>1. segacct[ProcOf[l]][call[l].addr] \in Desc
    BY <1>10, PlaceFacts DEF DtDel, Goto, DetachInv
  <2>2. call' \in [Lwp -> CallRec]
    BY <1>10, <2>1, SetDesc DEF DtDel, CallIs
  <2>. QED
    BY <1>10, <1>a, <1>b, <2>2, GotoShape DEF DtDel, PlaceType
<1>11. CASE ForkAdd(l)
  <2>1. segacct[ProcOf[l]][Min(Missing(l))] \in Desc
    BY <1>11, PlaceFacts, AttachedFacts DEF ForkAdd, Missing
  <2>2. call' \in [Lwp -> CallRec]
    BY <1>11, <2>1, SetDesc DEF ForkAdd, CallIs
  <2>. QED
    BY <1>11, <1>a, <1>b, <2>2, GotoShape DEF ForkAdd, PlaceType
<1>. QED
  BY <1>1, <1>2, <1>3, <1>4, <1>5, <1>6, <1>7, <1>8, <1>9, <1>10, <1>11 DEF Step

(* One record of one process changes.                                      *)
LEMMA AttachShape ==
  ASSUME TypeInv, NEW p \in Proc, NEW a, NEW k \in Desc \cup {NULL}, Attach(p, a, k)
  PROVE  /\ segacct' \in [Proc -> [Addr -> Desc \cup {NULL}]]
         /\ \A q \in Proc, b \in Addr :
              segacct'[q][b] = IF q = p /\ b = a THEN k ELSE segacct[q][b]
<1>. DEFINE r == [segacct[p] EXCEPT ![a] = k]
<1>1. segacct \in [Proc -> [Addr -> Desc \cup {NULL}]]
  BY DEF TypeInv, DataType
<1>2. r \in [Addr -> Desc \cup {NULL}] /\ \A b \in Addr : r[b] = IF b = a THEN k ELSE segacct[p][b]
  BY <1>1
<1>3. segacct' = [segacct EXCEPT ![p] = r]
  BY DEF Attach
<1>. HIDE DEF r
<1>. QED
  BY <1>1, <1>2, <1>3

(* The directory, the descriptors and the records keep their type.         *)
LEMMA DataKeeps ==
  ASSUME TypeInv, PlaceInv, DetachInv, ForkInv, NEW l \in Lwp, Call(l) \/ Step(l)
  PROVE  DataType'
<1>. DEFINE k == call[l].desc
<1>a. pc[l] \in WithDesc => k \in Desc
  BY DEF PlaceInv, PlaceOk
<1>b. pc[l] \in WithSlot => call[l].slot \in Slot
  BY DEF PlaceInv, PlaceOk
<1>c. ProcOf[l] \in Proc /\ Desc \subseteq Nat /\ NULL \notin Desc
  BY PlaceFacts
<1>d. DataType
  BY DEF TypeInv
<1>. USE DEF WithDesc, WithSlot, Taken, Waiting, Goto, Return
<1>1. CASE Call(l)
  <2>1. UNCHANGED <<ipcd_ent, ipcd_seq, allocated, busy, descVars, segacct, alive, asleep>>
    BY <1>1, Zenon DEF Call
  <2>. QED
    BY <1>d, <2>1 DEF DataType, descVars
<1>2. CASE WaitBusy(l) \/ Broadcast(l) \/ GetCheck(l) \/ GetRefuse(l) \/ ConvLookup(l) \/ ConvCheck(l)
           \/ ConvRelease(l) \/ AtAllowed(l) \/ AtFail(l) \/ DtFind(l)
  BY <1>2, <1>d DEF WaitBusy, Broadcast, GetCheck, GetRefuse, ConvLookup, ConvCheck, ConvRelease,
                    AtAllowed, AtFail, DtFind, GiveBusy, DataType, descVars
<1>3. CASE GetWoken(l) \/ ConvTake(l)
  BY <1>3, <1>a, <1>d DEF GetWoken, ConvTake, TakeBusy, DataType, descVars
<1>4. CASE GetExisting(l)
  BY <1>4, <1>d DEF GetExisting, Found, WithKey, DataType, descVars
<1>5. CASE GetNew(l)
  <2>1. call[l].id \in Key
    BY <1>5 DEF GetNew, PlaceInv, PlaceOk, OpFits
  <2>2. PICK d \in Slot : /\ ipcd_ent' = [ipcd_ent EXCEPT ![d] = Min(Unused)]
                          /\ allocated' = allocated \cup {Min(Unused)}
                          /\ busy' = busy \cup {Min(Unused)}
                          /\ key' = [key EXCEPT ![Min(Unused)] = call[l].id]
    BY <1>5 DEF GetNew
  <2>3. Min(Unused) \in Desc
    BY <1>5, UnusedFacts DEF GetNew
  <2>. QED
    BY <1>5, <1>d, <2>1, <2>2, <2>3 DEF GetNew, DataType
<1>6. CASE GetMake(l) \/ AtDone(l) \/ RemoveKeep(l) \/ RemoveLast(l) \/ DtLast(l) \/ DtKeep(l)
           \/ ForkCount(l)
  <2>1. k \in Desc
    BY <1>6, <1>a DEF GetMake, AtDone, RemoveKeep, RemoveLast, DtLast, DtKeep, ForkCount
  <2>2. refcnt' \in [Desc -> Nat]
    BY <1>6, <1>d, <2>1
       DEF GetMake, AtDone, RemoveKeep, RemoveLast, DtLast, DtKeep, ForkCount, DataType
  <2>3. memory' \in [Desc -> Int]
    BY <1>6, <1>d, <2>1
       DEF GetMake, AtDone, RemoveKeep, RemoveLast, DtLast, DtKeep, ForkCount, DataType
  <2>4. busy' \subseteq Desc
    BY <1>6, <1>d, <2>1
       DEF GetMake, AtDone, RemoveKeep, RemoveLast, DtLast, DtKeep, ForkCount, DataType, GiveBusy,
           TakeBusy
  <2>. QED
    BY <1>6, <1>d, <2>2, <2>3, <2>4
       DEF GetMake, AtDone, RemoveKeep, RemoveLast, DtLast, DtKeep, ForkCount, DataType
<1>7. CASE GetFail(l) \/ Remove(l)
  <2>1. call[l].slot \in Slot
    BY <1>7, <1>b DEF GetFail, Remove
  <2>2. ipcd_ent' \in [Slot -> Desc \cup {NULL}]
    BY <1>7, <1>d, <2>1 DEF GetFail, Remove, DataType
  <2>3. ipcd_seq' \in [Slot -> 0..SeqMax]
    <3>1. \A x \in 0..SeqMax : (IF x = SeqMax THEN 0 ELSE x + 1) \in 0..SeqMax
      BY ShmAssumption
    <3>. QED
      BY <1>7, <1>d, <2>1, <3>1 DEF GetFail, Remove, DataType
  <2>. QED
    BY <1>7, <1>d, <2>2, <2>3 DEF GetFail, Remove, DataType, GiveBusy, descVars
<1>8. CASE AtMap(l) \/ DtDel(l)
  <2>1. AtMap(l) => k \in Desc
    BY <1>a DEF AtMap
  <2>2. segacct' \in [Proc -> [Addr -> Desc \cup {NULL}]]
    BY <1>8, <1>c, <2>1, AttachShape DEF AtMap, DtDel
  <2>. QED
    BY <1>8, <1>d, <2>2 DEF AtMap, DtDel, DataType, descVars
<1>9. CASE ForkAdd(l)
  <2>1. segacct[ProcOf[l]][Min(Missing(l))] \in Desc
    BY <1>9, PlaceFacts, AttachedFacts DEF ForkAdd, Missing
  <2>2. call[l].child \in Proc
    BY <1>9 DEF ForkAdd, ForkInv, ChildOk
  <2>3. segacct' \in [Proc -> [Addr -> Desc \cup {NULL}]]
    BY <1>9, <2>1, <2>2, AttachShape DEF ForkAdd
  <2>. QED
    BY <1>9, <1>d, <2>3 DEF ForkAdd, DataType, descVars
<1>10. CASE ForkDone(l)
  <2>1. call[l].child \in Proc
    BY <1>10 DEF ForkDone, ForkInv, ChildOk
  <2>. QED
    BY <1>10, <1>d, <2>1 DEF ForkDone, DataType, descVars
<1>11. CASE Lock(l) \/ Unlock(l) \/ RmMvp(l) \/ Free(l)
  <2>1. k \in Desc
    BY <1>11, <1>a DEF Lock, Unlock, RmMvp, Free
  <2>2. lkcnt' \in [Desc -> Nat]
    BY <1>11, <1>d, <2>1 DEF Lock, Unlock, RmMvp, Free, DataType
  <2>3. memory' \in [Desc -> Int]
    BY <1>11, <1>d, <2>1 DEF Lock, Unlock, RmMvp, Free, DataType
  <2>. QED
    BY <1>11, <1>d, <2>1, <2>2, <2>3 DEF Lock, Unlock, RmMvp, Free, GiveBusy, DataType
<1>12. CASE ExitNext(l)
  BY <1>12, <1>d DEF ExitNext, DataType, descVars
<1>. QED
  BY <1>1, <1>2, <1>3, <1>4, <1>5, <1>6, <1>7, <1>8, <1>9, <1>10, <1>11, <1>12 DEF Step

(* What the steps that look for a descriptor find.                         *)
LEMMA GetExistingShape ==
  ASSUME TypeInv, NEW l \in Lwp, GetExisting(l)
  PROVE  \E d \in Slot : /\ ipcd_ent[d] \in Desc
                         /\ CallIs(l, call[l].op, d, ipcd_ent[d], call[l].id, call[l].addr, call[l].child)
                         /\ \/ pc'[l] = "getCheck" /\ ipcd_ent[d] \notin busy
                               /\ busy' = busy \cup {ipcd_ent[d]} /\ asleep' = asleep
                            \/ pc'[l] = "getWait" /\ ipcd_ent[d] \in busy
                               /\ busy' = busy /\ asleep' = asleep \cup {l}
<1>. USE DEF Places, WithDesc, Taken, Waiting
<1>1. PICK d \in Slot :
        /\ Found(l, d)
        /\ \/ /\ Goto(l, "get", "getCheck")
              /\ ipcd_ent[d] \notin busy /\ busy' = busy \cup {ipcd_ent[d]}
              /\ UNCHANGED asleep
           \/ /\ Goto(l, "get", "getWait")
              /\ ipcd_ent[d] \in busy /\ asleep' = asleep \cup {l}
              /\ UNCHANGED busy
  BY Zenon DEF GetExisting
<1>2. ipcd_ent[d] \in Desc
  BY <1>1 DEF Found, WithKey, TypeInv, DataType
<1>3. call' = [call EXCEPT ![l].slot = d, ![l].desc = ipcd_ent[d]]
  BY <1>1 DEF Found
<1>4. CallIs(l, call[l].op, d, ipcd_ent[d], call[l].id, call[l].addr, call[l].child)
  BY <1>2, <1>3, SetFound
<1>5. \/ pc'[l] = "getCheck" /\ ipcd_ent[d] \notin busy
         /\ busy' = busy \cup {ipcd_ent[d]} /\ asleep' = asleep
      \/ pc'[l] = "getWait" /\ ipcd_ent[d] \in busy
         /\ busy' = busy /\ asleep' = asleep \cup {l}
  BY <1>1, GotoShape
<1>. QED
  BY <1>2, <1>4, <1>5

(* shmget takes a free slot and an unused descriptor, which it holds busy.  *)
LEMMA GetNewShape ==
  ASSUME TypeInv, NEW l \in Lwp, GetNew(l)
  PROVE  \E d \in Slot, k \in Desc :
           /\ k \notin allocated /\ k \notin busy /\ ipcd_ent[d] = NULL
           /\ ipcd_ent' = [ipcd_ent EXCEPT ![d] = k]
           /\ allocated' = allocated \cup {k} /\ busy' = busy \cup {k}
           /\ pc[l] = "get" /\ pc'[l] = "getMake"
           /\ CallIs(l, call[l].op, d, k, call[l].id, call[l].addr, call[l].child)
<1>1. PICK d \in Slot : /\ ipcd_ent[d] = NULL
                        /\ ipcd_ent' = [ipcd_ent EXCEPT ![d] = Min(Unused)]
                        /\ allocated' = allocated \cup {Min(Unused)}
                        /\ busy' = busy \cup {Min(Unused)}
                        /\ call' = [call EXCEPT ![l].slot = d, ![l].desc = Min(Unused)]
  BY DEF GetNew
<1>2. Min(Unused) \in Desc /\ Min(Unused) \notin allocated /\ Min(Unused) \notin busy
  BY UnusedFacts DEF GetNew
<1>3. CallIs(l, call[l].op, d, Min(Unused), call[l].id, call[l].addr, call[l].child)
  BY <1>1, <1>2, SetFound
<1>4. pc[l] = "get" /\ pc'[l] = "getMake"
  BY GotoShape DEF GetNew, Places, WithDesc, Taken
<1>. QED
  BY <1>1, <1>2, <1>3, <1>4

(* kshmconv finds the descriptor that the slot has now.                     *)
LEMMA ConvLookupShape ==
  ASSUME TypeInv, PlaceInv, NEW l \in Lwp, ConvLookup(l), ipcd_ent[call[l].slot] # NULL
  PROVE  /\ pc[l] = "conv" /\ pc'[l] = "convWait"
         /\ call[l].slot \in Slot /\ ipcd_ent[call[l].slot] \in Desc
         /\ CallIs(l, call[l].op, call[l].slot, ipcd_ent[call[l].slot], call[l].id, call[l].addr,
                   call[l].child)
<1>1. call[l].slot \in Slot /\ ipcd_ent[call[l].slot] \in Desc
  BY DEF ConvLookup, PlaceInv, PlaceOk, WithSlot, TypeInv, DataType
<1>2. call' = [call EXCEPT ![l].desc = ipcd_ent[call[l].slot]] /\ Goto(l, "conv", "convWait")
  BY DEF ConvLookup
<1>. QED
  BY <1>1, <1>2, SetDesc, GotoShape DEF Places, WithDesc, Waiting

(* as_free turns to the next attachment, or is done with all of them.       *)
LEMMA ExitNextShape ==
  ASSUME TypeInv, NEW l \in Lwp, ExitNext(l)
  PROVE  /\ pc[l] = "exit"
         /\ \/ /\ pc'[l] = "dtDel" /\ alive' = alive
               /\ \E a \in Addr : /\ segacct[ProcOf[l]][a] \in Desc
                                  /\ CallIs(l, call[l].op, call[l].slot, call[l].desc, call[l].id, a,
                                            call[l].child)
            \/ /\ pc'[l] = "idle" /\ call'[l] = NoCall
               /\ alive' = alive \/ (call[l].op = "exit" /\ alive' = alive \ {ProcOf[l]})
<1>1. ProcOf[l] \in Proc
  BY ShmAssumption
<1>2. CASE Attached(ProcOf[l]) # {} /\ Goto(l, "exit", "dtDel") /\ UNCHANGED alive
           /\ call' = [call EXCEPT ![l].addr = Min(Attached(ProcOf[l]))]
  <2>. DEFINE a == Min(Attached(ProcOf[l]))
  <2>1. a \in Addr /\ segacct[ProcOf[l]][a] \in Desc
    BY <1>1, <1>2, AttachedFacts
  <2>2. CallIs(l, call[l].op, call[l].slot, call[l].desc, call[l].id, a, call[l].child)
    BY <1>2, <2>1, SetAddr
  <2>3. pc[l] = "exit" /\ pc'[l] = "dtDel"
    BY <1>2, GotoShape DEF Places
  <2>. HIDE DEF a
  <2>. QED
    BY <1>2, <2>1, <2>2, <2>3
<1>3. CASE Goto(l, "exit", "idle") /\ call' = [call EXCEPT ![l] = NoCall]
           /\ alive' = IF call[l].op = "exit" THEN alive \ {ProcOf[l]} ELSE alive
  BY <1>3, GotoShape DEF Places, TypeInv, PlaceType
<1>. QED
  BY <1>2, <1>3, Zenon DEF ExitNext

(* kshmdt reads the descriptor that the record of the attachment names.     *)
LEMMA DtDelShape ==
  ASSUME TypeInv, DetachInv, NEW l \in Lwp, DtDel(l)
  PROVE  LET k == segacct[ProcOf[l]][call[l].addr]
         IN  /\ pc[l] = "dtDel" /\ pc'[l] = "dtWait" /\ call[l].addr \in Addr /\ k \in Desc
             /\ CallIs(l, call[l].op, call[l].slot, k, call[l].id, call[l].addr, call[l].child)
<1>1. pc[l] = "dtDel" /\ pc'[l] = "dtWait"
  BY GotoShape DEF DtDel, Places, WithDesc, Waiting
<1>2. ProcOf[l] \in Proc
  BY ShmAssumption
<1>3. call[l].addr \in Addr /\ segacct[ProcOf[l]][call[l].addr] \in Desc
  BY <1>1, <1>2 DEF DetachInv, TypeInv, DataType
<1>. QED
  BY <1>1, <1>3, SetDesc DEF DtDel

(* shmfork gives the child one attachment that the parent has.              *)
LEMMA ForkAddShape ==
  ASSUME TypeInv, ForkInv, NEW l \in Lwp, ForkAdd(l)
  PROVE  \E a \in Addr :
           /\ segacct[ProcOf[l]][a] \in Desc /\ call[l].child \in Proc /\ segacct[call[l].child][a] = NULL
           /\ Attach(call[l].child, a, segacct[ProcOf[l]][a])
           /\ pc[l] = "fork" /\ pc'[l] = "forkWait"
           /\ CallIs(l, call[l].op, call[l].slot, segacct[ProcOf[l]][a], call[l].id, call[l].addr,
                     call[l].child)
<1>. DEFINE a == Min(Missing(l))
<1>1. ProcOf[l] \in Proc /\ Missing(l) \subseteq Attached(ProcOf[l])
  BY ShmAssumption DEF Missing
<1>2. a \in Missing(l) /\ a \in Addr /\ segacct[ProcOf[l]][a] \in Desc
  BY <1>1, AttachedFacts DEF ForkAdd
<1>3. pc[l] = "fork" /\ pc'[l] = "forkWait"
  BY GotoShape DEF ForkAdd, Places, WithDesc, Waiting
<1>4. call[l].child \in Proc
  BY <1>3 DEF ForkInv, ChildOk
<1>5. segacct[call[l].child][a] = NULL
  BY <1>2 DEF Missing, Attached
<1>6. Attach(call[l].child, a, segacct[ProcOf[l]][a])
  BY DEF ForkAdd
<1>7. CallIs(l, call[l].op, call[l].slot, segacct[ProcOf[l]][a], call[l].id, call[l].addr, call[l].child)
  BY <1>2, SetDesc DEF ForkAdd
<1>. HIDE DEF a
<1>. QED
  BY <1>2, <1>3, <1>4, <1>5, <1>6, <1>7

(* The processes of the LWPs at work are there.                            *)
LEMMA AliveKeeps ==
  ASSUME TypeInv, PlaceInv, ExitInv, NEW l \in Lwp, Call(l) \/ Step(l)
  PROVE  \A m \in Lwp : /\ m # l /\ pc[m] # "idle" => ProcOf[m] \in alive'
                        /\ pc[l] # "idle" /\ pc'[l] # "idle" => ProcOf[l] \in alive'
<1>a. \A m \in Lwp : pc[m] # "idle" => ProcOf[m] \in alive
  BY DEF PlaceInv, PlaceOk
<1>1. CASE Call(l)
  <2>1. alive' = alive
    BY <1>1, Zenon DEF Call
  <2>. QED
    BY <1>a, <2>1
<1>2. CASE WaitBusy(l) \/ Broadcast(l) \/ GetExisting(l) \/ GetWoken(l) \/ GetCheck(l) \/ GetNew(l)
           \/ GetRefuse(l) \/ GetMake(l) \/ GetFail(l)
  BY <1>2, <1>a DEF WaitBusy, Broadcast, GetExisting, GetWoken, GetCheck, GetNew, GetRefuse, GetMake,
                    GetFail
<1>3. CASE ConvLookup(l) \/ ConvTake(l) \/ ConvCheck(l) \/ ConvRelease(l) \/ AtAllowed(l) \/ AtFail(l)
           \/ AtMap(l) \/ AtDone(l) \/ Lock(l) \/ Unlock(l)
  BY <1>3, <1>a DEF ConvLookup, ConvTake, ConvCheck, ConvRelease, AtAllowed, AtFail, AtMap, AtDone,
                    Lock, Unlock
<1>4. CASE Remove(l) \/ RemoveKeep(l) \/ RemoveLast(l) \/ RmMvp(l) \/ Free(l) \/ DtFind(l) \/ DtDel(l)
           \/ DtLast(l) \/ DtKeep(l)
  BY <1>4, <1>a DEF Remove, RemoveKeep, RemoveLast, RmMvp, Free, DtFind, DtDel, DtLast, DtKeep
<1>5. CASE ForkAdd(l) \/ ForkCount(l) \/ ForkDone(l)
  BY <1>5, <1>a DEF ForkAdd, ForkCount, ForkDone
<1>6. CASE ExitNext(l)
  <2>1. Exiting(l)
    BY <1>6, ExitNextShape DEF PlaceInv, OpFits, Exiting
  <2>2. \A m \in Lwp : m # l /\ pc[m] # "idle" => ProcOf[m] # ProcOf[l]
    BY <2>1 DEF ExitInv
  <2>. QED
    BY <1>6, <1>a, <2>2, ExitNextShape
<1>. QED
  BY <1>1, <1>2, <1>3, <1>4, <1>5, <1>6 DEF Step

(* A call that returns leaves nothing behind, and an exit goes on.         *)
LEMMA ReturnKeeps ==
  ASSUME TypeInv, PlaceInv, NEW l \in Lwp, Return(l, pc[l]), pc[l] # "idle",
         pc'[l] # "idle" => ProcOf[l] \in alive'
  PROVE  OpFits(l)' /\ PlaceOk(l)'
<1>1. PlaceOk(l) /\ OpFits(l)
  BY DEF PlaceInv
<1>2. NULL \notin Calls /\ {"get", "fork", "exec", "exit", "rmid", "dt", "at"} \subseteq Calls
  BY PlaceFacts DEF Calls
<1>3. CASE call[l].op \in {"exec", "exit"}
  <2>1. pc'[l] = "exit" /\ call'[l] = [NoCall EXCEPT !.op = call[l].op]
    BY <1>3, ReturnShape
  <2>2. call'[l].op = call[l].op /\ call'[l].child = NULL
    BY <2>1 DEF NoCall
  <2>. QED
    BY <1>1, <1>3, <2>1, <2>2 DEF OpFits, PlaceOk, WithDesc, WithSlot, Taken, Waiting
<1>4. CASE call[l].op \notin {"exec", "exit"}
  <2>1. pc'[l] = "idle" /\ call'[l] = NoCall
    BY <1>4, ReturnShape
  <2>2. call'[l].op = NULL /\ call'[l].child = NULL
    BY <2>1 DEF NoCall
  <2>. QED
    BY <1>2, <2>1, <2>2 DEF OpFits, PlaceOk, WithDesc, WithSlot, Taken, Waiting
<1>. QED
  BY <1>3, <1>4

(* A call stays where it may be.                                           *)
LEMMA PlaceKeeps ==
  ASSUME IInv, NEW l \in Lwp, Call(l) \/ Step(l)
  PROVE  PlaceInv'
<1>a. /\ TypeInv /\ PlaceInv /\ ExitInv /\ DetachInv /\ ForkInv /\ OpFits(l) /\ PlaceOk(l)
  BY DEF IInv, PlaceInv
<1>b. \A m \in Lwp : m # l => OpFits(m)' /\ PlaceOk(m)'
  <2>. SUFFICES ASSUME NEW m \in Lwp, m # l
                PROVE  OpFits(m)' /\ PlaceOk(m)'
    OBVIOUS
  <2>1. pc'[m] = pc[m] /\ call'[m] = call[m] /\ (pc[m] # "idle" => ProcOf[m] \in alive')
    BY <1>a, OnlyMine, AliveKeeps DEF Alone
  <2>. QED
    BY <1>a, <2>1 DEF PlaceInv, OpFits, PlaceOk
<1>c. pc[l] # "idle" /\ pc'[l] # "idle" => ProcOf[l] \in alive'
  BY <1>a, AliveKeeps
<1>d. Calls = {"get", "fork"} \cup Conv \cup Detach
  BY DEF Calls, Conv, Detach
<1>. SUFFICES OpFits(l)' /\ PlaceOk(l)'
  BY <1>b DEF PlaceInv
<1>. USE DEF Taken, Waiting, WithDesc, WithSlot, Places, Conv, Detach
<1>1. CASE Call(l)
  <2>1. alive' = alive
    BY <1>1, Zenon DEF Call
  <2>. QED
    BY <1>1, <1>a, <2>1, CallShape
       DEF OpFits, PlaceOk, NewGet, NewConv, NewDt, NewFork, NewExit, CallIs, Calls
<1>2. CASE WaitBusy(l)
  BY <1>2, <1>a, <1>c DEF WaitBusy, OpFits, PlaceOk
<1>3. CASE Broadcast(l) \/ GetRefuse(l) \/ ConvLookup(l) \/ DtFind(l) \/ DtKeep(l) \/ ForkDone(l)
  <2>1. CASE Return(l, pc[l])
    <3>1. pc[l] # "idle"
      BY <1>3 DEF Broadcast, GetRefuse, ConvLookup, DtFind, DtKeep, ForkDone, Return, Goto
    <3>. QED
      BY <1>a, <1>c, <2>1, <3>1, ReturnKeeps
  <2>2. CASE ~Return(l, pc[l])
    <3>1. CASE Broadcast(l)
      BY <1>a, <1>c, <2>2, <3>1, GotoShape DEF Broadcast, Return, OpFits, PlaceOk, Goto
    <3>2. CASE ConvLookup(l)
      BY <1>a, <1>c, <2>2, <3>2, ConvLookupShape DEF ConvLookup, CallIs, OpFits, PlaceOk, Return, Goto
    <3>3. CASE DtFind(l)
      BY <1>a, <1>c, <2>2, <3>3, GotoShape DEF DtFind, Return, OpFits, PlaceOk, Goto
    <3>. QED
      BY <1>3, <2>2, <3>1, <3>2, <3>3 DEF GetRefuse, DtKeep, ForkDone, Return, Goto
  <2>. QED
    BY <2>1, <2>2
<1>4. CASE GetExisting(l) \/ GetNew(l)
  <2>1. pc[l] = "get"
    BY <1>4 DEF GetExisting, GetNew, Goto
  <2>. QED
    BY <1>4, <1>a, <1>c, <2>1, GetExistingShape, GetNewShape DEF CallIs, OpFits, PlaceOk
<1>5. CASE GetWoken(l) \/ GetCheck(l) \/ GetMake(l) \/ GetFail(l)
  BY <1>5, <1>a, <1>c, <1>d, GotoShape DEF GetWoken, GetCheck, GetMake, GetFail, OpFits, PlaceOk
<1>6. CASE ConvTake(l) \/ ConvCheck(l) \/ ConvRelease(l) \/ AtAllowed(l) \/ AtFail(l)
           \/ AtMap(l) \/ AtDone(l)
  BY <1>6, <1>a, <1>c, <1>d, GotoShape
     DEF ConvTake, ConvCheck, ConvRelease, AtAllowed, AtFail, AtMap, AtDone, OpFits, PlaceOk
<1>7. CASE Lock(l) \/ Unlock(l) \/ Remove(l) \/ RemoveKeep(l) \/ RemoveLast(l) \/ RmMvp(l)
           \/ Free(l) \/ DtLast(l) \/ ForkCount(l)
  BY <1>7, <1>a, <1>c, <1>d, GotoShape
     DEF Lock, Unlock, Remove, RemoveKeep, RemoveLast, RmMvp, Free, DtLast, ForkCount, OpFits, PlaceOk
<1>8. CASE ExitNext(l)
  <2>1. CASE pc'[l] = "idle"
    BY <1>8, <1>a, <2>1, ExitNextShape, PlaceFacts DEF NoCall, OpFits, PlaceOk, Calls
  <2>2. CASE pc'[l] = "dtDel"
    BY <1>8, <1>a, <1>c, <2>2, ExitNextShape DEF CallIs, OpFits, PlaceOk
  <2>. QED
    BY <1>8, <1>a, <2>1, <2>2, ExitNextShape
<1>9. CASE DtDel(l) \/ ForkAdd(l)
  BY <1>9, <1>a, <1>c, DtDelShape, ForkAddShape DEF CallIs, OpFits, PlaceOk
<1>. QED
  BY <1>1, <1>2, <1>3, <1>4, <1>5, <1>6, <1>7, <1>8, <1>9 DEF Step

(* A step of a call is none of an idle LWP, and it remains the same call.  *)
LEMMA StepOp ==
  ASSUME TypeInv, PlaceInv, DetachInv, ForkInv, NEW l \in Lwp, Step(l)
  PROVE  /\ pc[l] # "idle"
         /\ call'[l].op = call[l].op \/ (call'[l].op = NULL /\ pc'[l] = "idle")
         /\ call'[l].child = call[l].child \/ call'[l].child = NULL
<1>0. OpFits(l)
  BY DEF PlaceInv
<1>r. ASSUME NEW from, Return(l, from)
      PROVE  /\ call'[l].op = call[l].op \/ (call'[l].op = NULL /\ pc'[l] = "idle")
             /\ call'[l].child = NULL
  <2>1. \A o : [NoCall EXCEPT !.op = o].op = o /\ [NoCall EXCEPT !.op = o].child = NULL
    BY DEF NoCall
  <2>2. NoCall.op = NULL /\ NoCall.child = NULL
    BY DEF NoCall
  <2>3. \/ call'[l] = [NoCall EXCEPT !.op = call[l].op]
        \/ call'[l] = NoCall /\ pc'[l] = "idle"
    BY <1>r, ReturnShape
  <2>. QED
    BY <2>1, <2>2, <2>3
<1>1. CASE WaitBusy(l) \/ GetWoken(l) \/ GetCheck(l) \/ GetMake(l) \/ GetFail(l)
           \/ ConvTake(l) \/ ConvCheck(l) \/ ConvRelease(l)
  BY <1>1 DEF WaitBusy, GetWoken, GetCheck, GetMake, GetFail, ConvTake, ConvCheck, ConvRelease, Goto
<1>2. CASE AtAllowed(l) \/ AtFail(l) \/ AtMap(l) \/ AtDone(l) \/ Lock(l) \/ Unlock(l) \/ Remove(l)
           \/ RemoveKeep(l) \/ RemoveLast(l) \/ RmMvp(l) \/ Free(l) \/ DtLast(l) \/ ForkCount(l)
  BY <1>2 DEF AtAllowed, AtFail, AtMap, AtDone, Lock, Unlock, Remove, RemoveKeep, RemoveLast, RmMvp,
              Free, DtLast, ForkCount, Goto
<1>3. CASE Broadcast(l) \/ GetRefuse(l) \/ DtKeep(l) \/ ForkDone(l) \/ DtFind(l)
  BY <1>3, <1>r DEF Broadcast, GetRefuse, DtKeep, ForkDone, DtFind, Return, Goto
<1>4. CASE ConvLookup(l)
  BY <1>4, <1>r, ConvLookupShape DEF ConvLookup, CallIs
<1>5. CASE GetExisting(l) \/ GetNew(l)
  <2>1. pc[l] = "get"
    BY <1>5 DEF GetExisting, GetNew, Goto
  <2>. QED
    BY <1>5, <2>1, GetExistingShape, GetNewShape DEF CallIs
<1>6. CASE ExitNext(l)
  BY <1>6, ExitNextShape DEF CallIs, NoCall
<1>7. CASE DtDel(l) \/ ForkAdd(l)
  BY <1>7, DtDelShape, ForkAddShape DEF CallIs
<1>. QED
  BY <1>1, <1>2, <1>3, <1>4, <1>5, <1>6, <1>7 DEF Step

(* A process that execs or exits keeps one LWP at work.                    *)
LEMMA ExitKeeps ==
  ASSUME IInv, NEW l \in Lwp, Call(l) \/ Step(l)
  PROVE  ExitInv'
<1>a. TypeInv /\ PlaceInv /\ ExitInv /\ DetachInv /\ ForkInv
  BY DEF IInv
<1>b. NULL \notin Calls /\ {"exec", "exit"} \subseteq Calls
  BY PlaceFacts, <1>a DEF Calls
<1>. SUFFICES ASSUME NEW x \in Lwp, NEW y \in Lwp, x # y, ProcOf[x] = ProcOf[y], Exiting(x)'
              PROVE  pc'[y] = "idle"
  BY DEF ExitInv
<1>1. \A m \in Lwp : m # l => pc'[m] = pc[m] /\ call'[m] = call[m]
  BY <1>a, OnlyMine DEF Alone
<1>2. CASE x = l
  <2>1. CASE Call(l)
    <3>1. NewExit(l)
      BY <1>a, <1>2, <2>1, CallShape
         DEF NewGet, NewConv, NewDt, NewFork, CallIs, Exiting, Conv
    <3>. QED
      BY <1>1, <1>2, <3>1 DEF NewExit
  <2>2. CASE Step(l)
    <3>1. Exiting(l)
      BY <1>a, <1>b, <1>2, <2>2, StepOp DEF Exiting
    <3>. QED
      BY <1>a, <1>1, <1>2, <3>1 DEF ExitInv
  <2>. QED
    BY <2>1, <2>2
<1>3. CASE x # l
  <2>1. Exiting(x)
    BY <1>1, <1>3 DEF Exiting
  <2>2. pc[y] = "idle"
    BY <1>a, <2>1 DEF ExitInv
  <2>3. y # l
    BY <1>a, <2>1, <2>2, CallShape, StepOp
  <2>. QED
    BY <1>1, <2>2, <2>3
<1>. QED
  BY <1>2, <1>3

-----------------------------------------------------------------------------
(***************************************************************************)
(* SHM_BUSY.                                                               *)

(* What a step does to SHM_BUSY.                                           *)
KeepsBusy(l) == /\ busy' = busy /\ (pc'[l] \in Taken <=> pc[l] \in Taken)
                /\ pc[l] \in Taken => call'[l].desc = call[l].desc
TakesBusy(l) == /\ pc[l] \notin Taken /\ pc'[l] \in Taken
                /\ call'[l].desc \in Desc \ busy /\ busy' = busy \cup {call'[l].desc}
GivesBusy(l) == /\ pc[l] \in Taken /\ pc'[l] \in {"bcast", "bcastGet"}
                /\ call'[l] = call[l] /\ call[l].desc \in Desc /\ busy' = busy \ {call[l].desc}

(* A step takes SHM_BUSY, gives it back or leaves it.                      *)
LEMMA BusyMoves ==
  ASSUME IInv, NEW l \in Lwp, Call(l) \/ Step(l)
  PROVE  KeepsBusy(l) \/ TakesBusy(l) \/ GivesBusy(l)
<1>a. TypeInv /\ PlaceInv /\ DetachInv /\ ForkInv /\ (pc[l] \in WithDesc => call[l].desc \in Desc)
  BY DEF IInv, PlaceInv, PlaceOk
<1>r. ASSUME NEW from, Return(l, from), from \notin Taken, busy' = busy
      PROVE  KeepsBusy(l)
  BY <1>a, <1>r, ReturnShape DEF KeepsBusy, Taken
<1>. USE DEF Taken, Waiting, WithDesc, Places
<1>1. CASE Call(l)
  <2>1. busy' = busy
    BY <1>1, Zenon DEF Call
  <2>. QED
    BY <1>1, <1>a, <2>1, CallShape DEF NewGet, NewConv, NewDt, NewFork, NewExit, KeepsBusy
<1>2. CASE GetCheck(l) \/ GetMake(l) \/ GetFail(l) \/ ConvRelease(l) \/ AtFail(l) \/ AtDone(l)
           \/ Lock(l) \/ Unlock(l) \/ RemoveKeep(l) \/ Free(l)
  <2>1. GivesBusy(l)
    BY <1>2, <1>a, GotoShape DEF GetCheck, GetMake, GetFail, ConvRelease, AtFail, AtDone, Lock, Unlock,
                                 RemoveKeep, Free, GiveBusy, GivesBusy
  <2>. QED
    BY <2>1
<1>3. CASE GetWoken(l) \/ ConvTake(l) \/ DtLast(l)
  <2>1. TakesBusy(l)
    BY <1>3, <1>a, GotoShape DEF GetWoken, ConvTake, DtLast, TakeBusy, TakesBusy
  <2>. QED
    BY <2>1
<1>4. CASE ConvCheck(l)
  BY <1>4, <1>a, GotoShape DEF ConvCheck, GiveBusy, GivesBusy, KeepsBusy
<1>5. CASE WaitBusy(l) \/ AtAllowed(l) \/ AtMap(l) \/ Remove(l) \/ RemoveLast(l) \/ RmMvp(l) \/ ForkCount(l)
  <2>1. KeepsBusy(l)
    BY <1>5, <1>a, GotoShape DEF WaitBusy, AtAllowed, AtMap, Remove, RemoveLast, RmMvp, ForkCount,
                                 KeepsBusy
  <2>. QED
    BY <2>1
<1>6. CASE Broadcast(l) \/ GetRefuse(l) \/ DtFind(l) \/ DtKeep(l) \/ ForkDone(l)
  <2>1. KeepsBusy(l)
    BY <1>6, <1>a, <1>r, GotoShape DEF Broadcast, GetRefuse, DtFind, DtKeep, ForkDone, KeepsBusy
  <2>. QED
    BY <2>1
<1>7. CASE ConvLookup(l)
  <2>1. busy' = busy
    BY <1>7 DEF ConvLookup
  <2>2. CASE ipcd_ent[call[l].slot] = NULL
    BY <1>7, <1>r, <2>1, <2>2 DEF ConvLookup
  <2>3. CASE ipcd_ent[call[l].slot] # NULL
    BY <1>7, <1>a, <2>1, <2>3, ConvLookupShape DEF KeepsBusy
  <2>. QED
    BY <2>2, <2>3
<1>8. CASE GetExisting(l) \/ GetNew(l)
  <2>1. pc[l] = "get"
    BY <1>8 DEF GetExisting, GetNew, Goto
  <2>. QED
    BY <1>8, <1>a, <2>1, GetExistingShape, GetNewShape DEF CallIs, KeepsBusy, TakesBusy
<1>9. CASE ExitNext(l) \/ DtDel(l) \/ ForkAdd(l)
  <2>1. busy' = busy
    BY <1>9 DEF ExitNext, DtDel, ForkAdd
  <2>. QED
    BY <1>9, <1>a, <2>1, ExitNextShape, DtDelShape, ForkAddShape DEF KeepsBusy
<1>. QED
  BY <1>1, <1>2, <1>3, <1>4, <1>5, <1>6, <1>7, <1>8, <1>9 DEF Step

(* SHM_BUSY keeps one holder.                                              *)
LEMMA HoldKeeps ==
  ASSUME IInv, NEW l \in Lwp, Call(l) \/ Step(l)
  PROVE  HoldInv'
<1>a. TypeInv /\ HoldInv /\ busy \subseteq Desc
  BY DEF IInv, TypeInv, DataType
<1>b. \A m \in Lwp : m # l => \A k : HasBusy(m, k)' <=> HasBusy(m, k)
  <2>1. \A m \in Lwp : m # l => pc'[m] = pc[m] /\ call'[m] = call[m]
    BY <1>a, OnlyMine DEF Alone
  <2>. QED
    BY <2>1 DEF HasBusy
<1>c. \A k : /\ HasBusy(l, k) <=> pc[l] \in Taken /\ call[l].desc = k
             /\ HasBusy(l, k)' <=> pc'[l] \in Taken /\ call'[l].desc = k
  BY DEF HasBusy, Taken
<1>1. CASE KeepsBusy(l)
  <2>1. \A m \in Lwp : \A k : HasBusy(m, k)' <=> HasBusy(m, k)
    BY <1>1, <1>b, <1>c DEF KeepsBusy
  <2>. QED
    BY <1>1, <1>a, <2>1 DEF KeepsBusy, HoldInv
<1>2. CASE TakesBusy(l)
  <2>1. \A k : HasBusy(l, k)' <=> k = call'[l].desc
    BY <1>2, <1>c DEF TakesBusy
  <2>2. \A m \in Lwp : ~HasBusy(m, call'[l].desc)
    BY <1>2, <1>a DEF TakesBusy, HoldInv
  <2>3. \A k : ~HasBusy(l, k)
    BY <1>2, <1>c DEF TakesBusy
  <2>4. ASSUME NEW k \in Desc
        PROVE  k \in busy' <=> \E m \in Lwp : HasBusy(m, k)'
    BY <1>2, <1>a, <1>b, <2>1, <2>2, <2>3 DEF TakesBusy, HoldInv
  <2>5. ASSUME NEW k \in Desc, NEW m \in Lwp, NEW n \in Lwp, HasBusy(m, k)', HasBusy(n, k)'
        PROVE  m = n
    BY <1>a, <1>b, <2>1, <2>2, <2>5 DEF HoldInv
  <2>. QED
    BY <2>4, <2>5 DEF HoldInv
<1>3. CASE GivesBusy(l)
  <2>1. \A k : ~HasBusy(l, k)'
    BY <1>3, <1>c DEF GivesBusy, Taken
  <2>2. HasBusy(l, call[l].desc) /\ call[l].desc \in Desc
    BY <1>3, <1>c DEF GivesBusy
  <2>3. \A m \in Lwp : m # l => ~HasBusy(m, call[l].desc)
    BY <1>a, <2>2 DEF HoldInv
  <2>4. ASSUME NEW k \in Desc
        PROVE  k \in busy' <=> \E m \in Lwp : HasBusy(m, k)'
    <3>1. HasBusy(l, k) => k = call[l].desc
      BY <1>c
    <3>2. k \in busy' <=> k \in busy /\ k # call[l].desc
      BY <1>3 DEF GivesBusy
    <3>. QED
      BY <1>a, <1>b, <2>1, <2>3, <3>1, <3>2 DEF HoldInv
  <2>5. ASSUME NEW k \in Desc, NEW m \in Lwp, NEW n \in Lwp, HasBusy(m, k)', HasBusy(n, k)'
        PROVE  m = n
    BY <1>a, <1>b, <2>1, <2>5 DEF HoldInv
  <2>. QED
    BY <2>4, <2>5 DEF HoldInv
<1>. QED
  BY <1>1, <1>2, <1>3, BusyMoves

(* What a step does to who sleeps for SHM_BUSY.                            *)
Sleeps(l) == /\ asleep' = asleep \cup {l} /\ pc[l] \in Waiting \cup {"get"} /\ pc'[l] \in Waiting
             /\ call'[l].desc \in busy /\ busy' = busy
Wakes(l)  == /\ pc[l] \in {"bcast", "bcastGet"} /\ busy' = busy
             /\ asleep' = {m \in asleep : call[m].desc # call[l].desc}
Awake(l)  == asleep' = asleep /\ l \notin asleep /\ pc[l] \notin {"bcast", "bcastGet"}

(* A step goes to sleep, wakes the sleepers, or is that of an LWP awake.   *)
LEMMA SleepMoves ==
  ASSUME IInv, NEW l \in Lwp, Call(l) \/ Step(l)
  PROVE  Sleeps(l) \/ Wakes(l) \/ Awake(l)
<1>a. TypeInv /\ PlaceInv /\ DetachInv /\ ForkInv /\ (l \in asleep => pc[l] \in Waiting)
  BY DEF IInv, WakeInv
<1>. USE DEF Waiting, Goto, Return
<1>1. CASE Call(l)
  <2>1. asleep' = asleep /\ pc[l] = "idle"
    BY <1>1, Zenon DEF Call
  <2>. QED
    BY <1>a, <2>1 DEF Awake
<1>2. CASE WaitBusy(l)
  BY <1>2 DEF WaitBusy, Sleeps
<1>3. CASE Broadcast(l)
  BY <1>3 DEF Broadcast, Wakes
<1>4. CASE GetExisting(l)
  <2>1. pc[l] = "get"
    BY <1>4 DEF GetExisting
  <2>. QED
    BY <1>4, <1>a, <2>1, GetExistingShape DEF CallIs, Sleeps, Awake
<1>5. CASE GetWoken(l) \/ GetCheck(l) \/ GetNew(l) \/ GetRefuse(l) \/ GetMake(l) \/ GetFail(l)
           \/ ConvLookup(l) \/ ConvTake(l) \/ ConvCheck(l) \/ ConvRelease(l)
  BY <1>5, <1>a DEF GetWoken, GetCheck, GetNew, GetRefuse, GetMake, GetFail, ConvLookup, ConvTake,
                    ConvCheck, ConvRelease, Awake
<1>6. CASE AtAllowed(l) \/ AtFail(l) \/ AtMap(l) \/ AtDone(l) \/ Lock(l) \/ Unlock(l) \/ Remove(l)
           \/ RemoveKeep(l) \/ RemoveLast(l) \/ RmMvp(l) \/ Free(l)
  BY <1>6, <1>a DEF AtAllowed, AtFail, AtMap, AtDone, Lock, Unlock, Remove, RemoveKeep, RemoveLast,
                    RmMvp, Free, Awake
<1>7. CASE DtFind(l) \/ ExitNext(l) \/ DtDel(l) \/ DtLast(l) \/ DtKeep(l) \/ ForkAdd(l) \/ ForkCount(l)
           \/ ForkDone(l)
  BY <1>7, <1>a DEF DtFind, ExitNext, DtDel, DtLast, DtKeep, ForkAdd, ForkCount, ForkDone, Awake
<1>. QED
  BY <1>1, <1>2, <1>3, <1>4, <1>5, <1>6, <1>7 DEF Step

(* Who sleeps for SHM_BUSY will be woken.                                  *)
LEMMA WakeKeeps ==
  ASSUME IInv, NEW l \in Lwp, Call(l) \/ Step(l)
  PROVE  WakeInv'
<1>a. TypeInv /\ WakeInv /\ asleep \subseteq Lwp
  BY DEF IInv, TypeInv, PlaceType
<1>b. \A m \in Lwp : m # l => pc'[m] = pc[m] /\ call'[m] = call[m]
  BY <1>a, OnlyMine DEF Alone
<1>c. {"bcast", "bcastGet"} \cap Waiting = {}
  BY DEF Waiting
<1>. SUFFICES ASSUME NEW m \in asleep'
              PROVE  /\ pc'[m] \in Waiting
                     /\ \/ call'[m].desc \in busy'
                        \/ \E n \in Lwp : pc'[n] \in {"bcast", "bcastGet"} /\ call'[n].desc = call'[m].desc
  BY DEF WakeInv, At
<1>d. m \in asleep => /\ pc[m] \in Waiting /\ m \in Lwp
                      /\ \/ call[m].desc \in busy
                         \/ \E n \in Lwp : pc[n] \in {"bcast", "bcastGet"} /\ call[n].desc = call[m].desc
  BY <1>a DEF WakeInv, At
<1>1. CASE Sleeps(l)
  BY <1>1, <1>b, <1>c, <1>d DEF Sleeps, Waiting
<1>2. CASE Wakes(l)
  <2>1. m # l /\ m \in asleep /\ call[m].desc # call[l].desc /\ busy' = busy
    BY <1>2, <1>c, <1>d DEF Wakes
  <2>. QED
    BY <1>b, <1>d, <2>1
<1>3. CASE Awake(l)
  <2>1. m # l /\ m \in asleep
    BY <1>3 DEF Awake
  <2>2. KeepsBusy(l) \/ TakesBusy(l) \/ GivesBusy(l)
    BY BusyMoves
  <2>3. CASE call[m].desc \in busy
    BY <1>b, <1>d, <2>1, <2>2, <2>3 DEF KeepsBusy, TakesBusy, GivesBusy
  <2>4. CASE call[m].desc \notin busy
    BY <1>3, <1>b, <1>d, <2>1, <2>4 DEF Awake
  <2>. QED
    BY <2>3, <2>4
<1>. QED
  BY <1>1, <1>2, <1>3, SleepMoves

-----------------------------------------------------------------------------
(***************************************************************************)
(* The last user.                                                          *)

(* The sets that RefExact counts are finite.                               *)
LEMMA CountFacts ==
  ASSUME TypeInv, NEW k, NEW places
  PROVE  /\ IsFiniteSet(At(k, places)) /\ Cardinality(At(k, places)) \in Nat
         /\ IsFiniteSet(Attachments(k)) /\ Cardinality(Attachments(k)) \in Nat
<1>1. IsFiniteSet(Lwp) /\ IsFiniteSet(Proc \X Addr)
  BY ShmAssumption, FS_Product
<1>2. At(k, places) \subseteq Lwp /\ Attachments(k) \subseteq Proc \X Addr
  BY DEF At, Attachments
<1>3. IsFiniteSet(At(k, places)) /\ IsFiniteSet(Attachments(k))
  BY <1>1, <1>2, FS_Subset
<1>. QED
  BY <1>3, FS_CardinalityType

(* While a fork copies records, the parent has one more than the children. *)
LEMMA ForkersAreFewer ==
  ASSUME IInv, NEW k \in Desc, Plus(k) # {}, \A l \in Plus(k) : pc[l] = "forkWait"
  PROVE  Cardinality(Plus(k)) < Cardinality(Attachments(k))
<1>a. TypeInv /\ PlaceInv /\ ForkInv
  BY DEF IInv
<1>b. \A l \in Plus(k) : l \in Lwp /\ pc[l] = "forkWait" /\ call[l].desc = k
  BY DEF Plus, At
<1>. DEFINE rec(l) == CHOOSE a \in Addr : segacct[call[l].child][a] = k /\ segacct[ProcOf[l]][a] = k
            f == [l \in Plus(k) |-> <<call[l].child, rec(l)>>]
<1>1. \A l \in Plus(k) : /\ rec(l) \in Addr
                         /\ segacct[call[l].child][rec(l)] = k /\ segacct[ProcOf[l]][rec(l)] = k
  BY <1>a, <1>b DEF ForkInv, RecordOk
<1>2. \A l \in Plus(k) : /\ call[l].child \in Proc \ alive /\ ProcOf[l] \in alive /\ ProcOf[l] \in Proc
                         /\ \A m \in Plus(k) : m # l => call[m].child # call[l].child
  BY <1>a, <1>b, ShmAssumption DEF ForkInv, ChildOk, PlaceInv, PlaceOk
<1>. HIDE DEF rec
<1>3. PICK m \in Plus(k) : TRUE
  OBVIOUS
<1>. DEFINE parent == <<ProcOf[m], rec(m)>>
            T == Attachments(k) \ {parent}
<1>4. parent \in Attachments(k)
  BY <1>1, <1>2 DEF Attachments
<1>5. \A l \in Plus(k) : f[l] \in T
  <2>. SUFFICES ASSUME NEW l \in Plus(k)
                PROVE  f[l] \in T
    OBVIOUS
  <2>1. f[l] = <<call[l].child, rec(l)>> /\ f[l] \in Attachments(k)
    BY <1>1, <1>2 DEF Attachments
  <2>2. call[l].child # ProcOf[m]
    BY <1>2
  <2>. QED
    BY <2>1, <2>2
<1>6. \A l, n \in Plus(k) : f[l] = f[n] => l = n
  BY <1>2
<1>7. f \in Injection(Plus(k), T)
  BY <1>5, <1>6 DEF Injection, IsInjective
<1>8. IsFiniteSet(Attachments(k)) /\ Cardinality(Attachments(k)) \in Nat
  BY <1>a, CountFacts
<1>9. IsFiniteSet(T) /\ Cardinality(T) = Cardinality(Attachments(k)) - 1
  BY <1>4, <1>8, FS_RemoveElement
<1>10. Cardinality(Plus(k)) <= Cardinality(T)
  <2>. HIDE DEF T, f
  <2>. QED
    BY <1>7, <1>9, FS_Injection
<1>11. Cardinality(Plus(k)) \in Nat
  BY <1>a, CountFacts DEF Plus
<1>. QED
  BY <1>8, <1>9, <1>10, <1>11

(* Who brings the count from one to nothing is the only one there.         *)
LEMMA TheLastOne ==
  ASSUME IInv, NEW l \in Lwp, refcnt[call[l].desc] = 1, call[l].desc \in Desc,
         pc[l] = "removed" \/ (pc[l] = "dtWait" /\ call[l].desc \notin busy)
  PROVE  LET k == call[l].desc
         IN  /\ Plus(k) = {} /\ Attachments(k) = {} /\ Minus(k) = {l} /\ ~Listed(k)
             /\ k \in allocated /\ ~Unborn(k) /\ ~Dying(k) /\ \A d \in Slot : ipcd_ent[d] # k
<1>. DEFINE k == call[l].desc
<1>a. TypeInv /\ HoldInv /\ DeadInv /\ RefExact
  BY DEF IInv
<1>b. \A m \in Lwp : HasBusy(m, k) => m = l
  BY <1>a DEF HoldInv, HasBusy
<1>1. \A m \in Plus(k) : pc[m] = "forkWait"
  <2>. SUFFICES ASSUME NEW m \in Lwp, pc[m] = "atDone", call[m].desc = k
                PROVE  FALSE
    BY DEF Plus, At
  <2>. QED
    BY <1>b DEF HasBusy
<1>2. l \in Minus(k)
  BY DEF Minus, At
<1>3. Unborn(k) = FALSE
  BY <1>b DEF Unborn, At, HasBusy
<1>4. refcnt[k] + Cardinality(Plus(k))
        = Cardinality(Attachments(k)) + (IF Listed(k) THEN 1 ELSE 0) + Cardinality(Minus(k))
  BY <1>a DEF RefExact, Plus, Minus
<1>5. /\ IsFiniteSet(Plus(k)) /\ Cardinality(Plus(k)) \in Nat
      /\ IsFiniteSet(Minus(k)) /\ Cardinality(Minus(k)) \in Nat
      /\ IsFiniteSet(Attachments(k)) /\ Cardinality(Attachments(k)) \in Nat
  BY <1>a, CountFacts DEF Plus, Minus
<1>6. Cardinality(Minus(k)) >= 1
  BY <1>2, <1>5, FS_EmptySet
<1>7. Plus(k) = {}
  <2>. SUFFICES ASSUME Plus(k) # {}
                PROVE  FALSE
    OBVIOUS
  <2>1. Cardinality(Plus(k)) < Cardinality(Attachments(k))
    BY <1>1, ForkersAreFewer
  <2>. HIDE DEF k
  <2>. QED
    BY <1>4, <1>5, <1>6, <2>1 DEF k
<1>8. Cardinality(Plus(k)) = 0
  BY <1>7, FS_EmptySet
<1>9. Cardinality(Attachments(k)) = 0 /\ ~Listed(k) /\ Cardinality(Minus(k)) = 1
  BY <1>4, <1>5, <1>6, <1>8
<1>10. Attachments(k) = {}
  BY <1>5, <1>9, FS_EmptySet
<1>11. Minus(k) = {l}
  <2>1. PICK x : Minus(k) = {x}
    BY <1>5, <1>9, FS_Singleton
  <2>. QED
    BY <1>2, <2>1
<1>12. ~Dead(k)
  BY <1>a, <1>2 DEF DeadInv
<1>13. \A d \in Slot : ipcd_ent[d] # k
  BY <1>3, <1>9 DEF Listed, Unborn, At
<1>. QED
  BY <1>7, <1>9, <1>10, <1>11, <1>12, <1>13 DEF Dead

-----------------------------------------------------------------------------
(***************************************************************************)
(* Slots and identifiers.                                                  *)

(* A step that leaves the directory alone, and where it may lead.          *)
SlotQuiet(l) ==
  /\ ipcd_ent' = ipcd_ent /\ ipcd_seq' = ipcd_seq /\ allocated' = allocated
  /\ pc'[l] = "getMake" => pc[l] = "getMake" /\ call'[l] = call[l]
  /\ pc'[l] \in {"removed", "rmMvp", "free"} =>
        /\ call'[l] = call[l]
        /\ pc[l] \in {"removed", "rmMvp", "free"} \/ SlotOk(l)'
  /\ pc'[l] \in {"ready", "atMap", "atDone"} =>
        call'[l] = call[l] /\ (pc[l] \in {"ready", "atMap", "atDone"} \/ Valid(l))

(* Every step is quiet about the slots or is one of the four that change them.*)
LEMMA SlotMoves ==
  ASSUME IInv, NEW l \in Lwp, Call(l) \/ Step(l)
  PROVE  SlotQuiet(l) \/ GetNew(l) \/ GetFail(l) \/ Remove(l) \/ Free(l)
<1>a. TypeInv /\ PlaceInv /\ DetachInv /\ ForkInv
  BY DEF IInv
<1>. USE DEF Places, WithDesc, Taken, Waiting
<1>1. CASE Call(l)
  <2>1. UNCHANGED <<ipcd_ent, ipcd_seq, allocated>>
    BY <1>1, Zenon DEF Call
  <2>. QED
    BY <1>1, <1>a, <2>1, CallShape DEF NewGet, NewConv, NewDt, NewFork, NewExit, SlotQuiet
<1>2. CASE WaitBusy(l) \/ GetWoken(l) \/ GetCheck(l) \/ GetMake(l) \/ ConvTake(l) \/ ConvRelease(l)
           \/ AtFail(l) \/ AtDone(l) \/ Lock(l) \/ Unlock(l) \/ RemoveKeep(l) \/ ForkCount(l)
  <2>1. pc'[l] \notin {"getMake", "removed", "rmMvp", "free", "ready", "atMap", "atDone"}
    BY <1>2, <1>a, GotoShape DEF WaitBusy, GetWoken, GetCheck, GetMake, ConvTake, ConvRelease, AtFail,
                                 AtDone, Lock, Unlock, RemoveKeep, ForkCount
  <2>2. UNCHANGED <<ipcd_ent, ipcd_seq, allocated>>
    BY <1>2 DEF WaitBusy, GetWoken, GetCheck, GetMake, ConvTake, ConvRelease, AtFail, AtDone, Lock,
                Unlock, RemoveKeep, ForkCount
  <2>. QED
    BY <2>1, <2>2 DEF SlotQuiet
<1>3. CASE ConvCheck(l)
  BY <1>3, <1>a, GotoShape DEF ConvCheck, SlotQuiet
<1>4. CASE AtAllowed(l) \/ AtMap(l) \/ RemoveLast(l) \/ RmMvp(l)
  BY <1>4, <1>a, GotoShape DEF AtAllowed, AtMap, RemoveLast, RmMvp, SlotQuiet
<1>5. CASE DtLast(l)
  <2>1. /\ pc[l] = "dtWait" /\ pc'[l] = "rmMvp" /\ call' = call /\ refcnt[call[l].desc] = 1
        /\ call[l].desc \notin busy /\ ipcd_ent' = ipcd_ent /\ ipcd_seq' = ipcd_seq
        /\ allocated' = allocated
    BY <1>5, <1>a, GotoShape DEF DtLast, TakeBusy
  <2>2. call[l].desc \in Desc
    BY <1>a, <2>1 DEF PlaceInv, PlaceOk
  <2>3. call[l].desc \in allocated /\ \A d \in Slot : ipcd_ent[d] # call[l].desc
    BY <2>1, <2>2, TheLastOne
  <2>. QED
    BY <2>1, <2>3 DEF SlotQuiet, SlotOk
<1>6. CASE Broadcast(l) \/ GetRefuse(l) \/ DtFind(l) \/ DtKeep(l) \/ ForkDone(l)
  <2>3. \A from : Return(l, from) => pc'[l] \in {"exit", "idle"}
    BY <1>a, ReturnShape
  <2>4. DtFind(l) => pc'[l] \in {"exit", "idle", "dtDel"}
    BY <1>a, <2>3, GotoShape DEF DtFind
  <2>5. Broadcast(l) => pc'[l] \in {"exit", "idle", "get"}
    BY <1>a, <2>3, GotoShape DEF Broadcast
  <2>1. pc'[l] \notin {"getMake", "removed", "rmMvp", "free", "ready", "atMap", "atDone"}
    BY <1>6, <2>3, <2>4, <2>5 DEF GetRefuse, DtKeep, ForkDone
  <2>2. UNCHANGED <<ipcd_ent, ipcd_seq, allocated>>
    BY <1>6 DEF Broadcast, GetRefuse, DtFind, DtKeep, ForkDone
  <2>. QED
    BY <2>1, <2>2 DEF SlotQuiet
<1>7. CASE ConvLookup(l)
  <2>1. pc'[l] \notin {"getMake", "removed", "rmMvp", "free", "ready", "atMap", "atDone"}
    BY <1>7, <1>a, ConvLookupShape, ReturnShape DEF ConvLookup
  <2>. QED
    BY <1>7, <2>1 DEF ConvLookup, SlotQuiet
<1>8. CASE GetExisting(l)
  BY <1>8, <1>a, GetExistingShape DEF GetExisting, SlotQuiet
<1>9. CASE ExitNext(l) \/ DtDel(l) \/ ForkAdd(l)
  <2>1. pc'[l] \notin {"getMake", "removed", "rmMvp", "free", "ready", "atMap", "atDone"}
    BY <1>9, <1>a, ExitNextShape, DtDelShape, ForkAddShape
  <2>. QED
    BY <1>9, <2>1 DEF ExitNext, DtDel, ForkAdd, SlotQuiet
<1>. QED
  BY <1>1, <1>2, <1>3, <1>4, <1>5, <1>6, <1>7, <1>8, <1>9 DEF Step

(* Nobody else works on the descriptor whose SHM_BUSY an LWP has.          *)
LEMMA OneHolder ==
  ASSUME IInv, NEW l \in Lwp, NEW m \in Lwp, l # m, pc[l] \in Taken, pc[m] \in Taken
  PROVE  call[m].desc # call[l].desc /\ call[l].desc \in Desc /\ call[m].desc \in Desc
BY DEF IInv, HoldInv, HasBusy, Taken, PlaceInv, PlaceOk, WithDesc

(* A descriptor keeps one slot at most.                                    *)
LEMMA SlotKeeps ==
  ASSUME IInv, NEW l \in Lwp, Call(l) \/ Step(l)
  PROVE  SlotInv'
<1>a. TypeInv /\ PlaceInv /\ SlotInv /\ IdHolds /\ NULL \notin Desc /\ NULL \notin allocated
      /\ ipcd_ent \in [Slot -> Desc \cup {NULL}]
  BY ShmAssumption DEF IInv, TypeInv, DataType
<1>b. \A m \in Lwp : m # l => pc'[m] = pc[m] /\ call'[m] = call[m]
  BY <1>a, OnlyMine DEF Alone
<1>c. \A m \in Lwp : SlotOk(m)
  BY <1>a DEF SlotInv
<1>1. CASE SlotQuiet(l)
  <2>1. ASSUME NEW m \in Lwp
        PROVE  SlotOk(m)'
    <3>1. CASE m = l
      BY <1>1, <1>c, <3>1 DEF SlotQuiet, SlotOk
    <3>2. CASE m # l
      BY <1>1, <1>b, <1>c, <3>2 DEF SlotQuiet, SlotOk
    <3>. QED
      BY <3>1, <3>2
  <2>. QED
    BY <1>1, <1>a, <2>1 DEF SlotInv, SlotQuiet
<1>2. CASE GetNew(l)
  <2>1. PICK d \in Slot, k \in Desc :
           /\ k \notin allocated /\ k \notin busy /\ ipcd_ent[d] = NULL
           /\ ipcd_ent' = [ipcd_ent EXCEPT ![d] = k]
           /\ allocated' = allocated \cup {k} /\ busy' = busy \cup {k}
           /\ pc[l] = "get" /\ pc'[l] = "getMake"
           /\ CallIs(l, call[l].op, d, k, call[l].id, call[l].addr, call[l].child)
    BY <1>2, <1>a, GetNewShape
  <2>2. \A e \in Slot : ipcd_ent[e] # k /\ ipcd_ent'[e] = IF e = d THEN k ELSE ipcd_ent[e]
    BY <1>a, <2>1 DEF SlotInv
  <2>3. ASSUME NEW m \in Lwp
        PROVE  SlotOk(m)'
    <3>1. CASE m = l
      BY <2>1, <2>2, <3>1 DEF CallIs, SlotOk
    <3>2. CASE m # l
      <4>1. pc[m] = "getMake" => call[m].slot \in Slot /\ call[m].slot # d
        BY <1>a, <1>c, <2>1 DEF PlaceInv, PlaceOk, WithSlot, WithDesc, Taken, SlotOk
      <4>. QED
        BY <1>b, <1>c, <2>1, <2>2, <3>2, <4>1 DEF SlotOk
    <3>. QED
      BY <3>1, <3>2
  <2>4. ASSUME NEW e \in Slot, NEW g \in Slot, ipcd_ent'[e] # NULL, ipcd_ent'[e] = ipcd_ent'[g]
        PROVE  e = g
    BY <1>a, <2>2, <2>4 DEF SlotInv
  <2>5. \A e \in Slot : ipcd_ent'[e] # NULL => ipcd_ent'[e] \in allocated'
    BY <1>a, <2>1, <2>2 DEF SlotInv
  <2>. QED
    BY <2>3, <2>4, <2>5 DEF SlotInv
<1>3. CASE GetFail(l) \/ Remove(l)
  <2>. DEFINE s == call[l].slot
              k == call[l].desc
  <2>1. /\ s \in Slot /\ k \in Desc /\ ipcd_ent[s] = k /\ k \in allocated /\ call' = call
        /\ ipcd_ent' = [ipcd_ent EXCEPT ![s] = NULL] /\ pc[l] \in {"getMake", "ready"}
    BY <1>3, <1>a, <1>c DEF GetFail, Remove, Goto, PlaceInv, PlaceOk, WithSlot, WithDesc, Taken, SlotInv,
                            SlotOk, IdHolds, Valid
  <2>2. \A e \in Slot : /\ ipcd_ent'[e] = IF e = s THEN NULL ELSE ipcd_ent[e]
                        /\ e # s => ipcd_ent[e] # k
    BY <1>a, <2>1 DEF SlotInv
  <2>3. \/ allocated' = allocated \ {k} /\ pc'[l] = "bcast"
        \/ allocated' = allocated /\ pc'[l] = "removed"
    BY <1>3, <1>a, GotoShape DEF GetFail, Remove, Places, WithDesc, Taken
  <2>4. ASSUME NEW m \in Lwp
        PROVE  SlotOk(m)'
    <3>1. CASE m = l
      BY <1>a, <2>1, <2>2, <2>3, <3>1 DEF SlotOk
    <3>2. CASE m # l
      <4>1. pc[m] \in Taken => call[m].desc # k
        BY <2>1, <3>2, OneHolder DEF Taken
      <4>2. pc[m] = "getMake" => call[m].slot \in Slot /\ call[m].slot # s
        BY <1>a, <1>c, <2>1, <4>1 DEF PlaceInv, PlaceOk, WithSlot, SlotOk, Taken
      <4>. QED
        BY <1>a, <1>b, <1>c, <2>1, <2>2, <2>3, <3>2, <4>1, <4>2
           DEF SlotOk, PlaceInv, PlaceOk, WithDesc, Taken
    <3>. QED
      BY <3>1, <3>2
  <2>5. ASSUME NEW e \in Slot, NEW g \in Slot, ipcd_ent'[e] # NULL, ipcd_ent'[e] = ipcd_ent'[g]
        PROVE  e = g
    BY <1>a, <2>2, <2>5 DEF SlotInv
  <2>6. \A e \in Slot : ipcd_ent'[e] # NULL => ipcd_ent'[e] \in allocated'
    BY <1>a, <2>2, <2>3 DEF SlotInv
  <2>. QED
    BY <2>4, <2>5, <2>6 DEF SlotInv
<1>4. CASE Free(l)
  <2>1. /\ pc[l] = "free" /\ pc'[l] = "bcast" /\ call' = call /\ ipcd_ent' = ipcd_ent
        /\ allocated' = allocated \ {call[l].desc}
    BY <1>4, <1>a, GotoShape DEF Free, Places, WithDesc
  <2>2. \A d \in Slot : ipcd_ent[d] # call[l].desc
    BY <1>c, <2>1 DEF SlotOk
  <2>3. ASSUME NEW m \in Lwp
        PROVE  SlotOk(m)'
    <3>1. CASE m = l
      BY <2>1, <3>1 DEF SlotOk
    <3>2. CASE m # l
      <4>1. pc[m] \in Taken => call[m].desc # call[l].desc
        BY <2>1, <3>2, OneHolder DEF Taken
      <4>. QED
        BY <1>b, <1>c, <2>1, <3>2, <4>1 DEF SlotOk, Taken
    <3>. QED
      BY <3>1, <3>2
  <2>. QED
    BY <1>a, <2>1, <2>2, <2>3 DEF SlotInv
<1>. QED
  BY <1>1, <1>2, <1>3, <1>4, SlotMoves

(* The identifier of who has been let through keeps its segment.           *)
LEMMA IdKeeps ==
  ASSUME IInv, NEW l \in Lwp, Call(l) \/ Step(l)
  PROVE  IdHolds'
<1>a. TypeInv /\ PlaceInv /\ SlotInv /\ IdHolds /\ NULL \notin Desc
      /\ ipcd_ent \in [Slot -> Desc \cup {NULL}] /\ ipcd_seq \in [Slot -> 0..SeqMax]
  BY ShmAssumption DEF IInv, TypeInv, DataType
<1>b. \A m \in Lwp : m # l => pc'[m] = pc[m] /\ call'[m] = call[m]
  BY <1>a, OnlyMine DEF Alone
<1>. SUFFICES ASSUME NEW m \in Lwp, pc'[m] \in {"ready", "atMap", "atDone"}
              PROVE  Valid(m)'
  BY DEF IdHolds
<1>1. CASE SlotQuiet(l)
  <2>1. CASE m = l
    BY <1>1, <1>a, <2>1 DEF SlotQuiet, IdHolds, Valid
  <2>2. CASE m # l
    BY <1>1, <1>a, <1>b, <2>2 DEF SlotQuiet, IdHolds, Valid
  <2>. QED
    BY <2>1, <2>2
<1>2. CASE GetNew(l) \/ GetFail(l) \/ Remove(l) \/ Free(l)
  <2>1. pc'[l] \in {"getMake", "bcast", "removed"}
    BY <1>2, <1>a, GotoShape DEF GetNew, GetFail, Remove, Free, Places, WithDesc, Taken
  <2>2. m # l /\ pc[m] \in {"ready", "atMap", "atDone"} /\ call'[m] = call[m] /\ Valid(m)
    BY <1>a, <1>b, <2>1 DEF IdHolds
  <2>3. call[m].slot \in Slot /\ call[m].desc \in Desc
    BY <1>a, <2>2 DEF PlaceInv, PlaceOk, WithSlot, WithDesc, Taken
  <2>4. CASE GetNew(l)
    <3>1. PICK d \in Slot, k \in Desc : /\ ipcd_ent[d] = NULL /\ ipcd_ent' = [ipcd_ent EXCEPT ![d] = k]
                                        /\ allocated' = allocated \cup {k}
      BY <1>a, <2>4, GetNewShape
    <3>2. call[m].slot # d
      BY <1>a, <2>2, <2>3, <3>1 DEF Valid
    <3>3. ipcd_seq' = ipcd_seq
      BY <2>4 DEF GetNew
    <3>. QED
      BY <1>a, <2>2, <2>3, <3>1, <3>2, <3>3 DEF Valid
  <2>5. CASE GetFail(l) \/ Remove(l) \/ Free(l)
    <3>1. pc[l] \in {"getMake", "ready", "free"}
      BY <2>5 DEF GetFail, Remove, Free, Goto
    <3>2. call[m].desc # call[l].desc
      BY <2>2, <3>1, OneHolder DEF Taken
    <3>3. pc[l] \in {"getMake", "ready"} => /\ ipcd_ent[call[l].slot] = call[l].desc
                                            /\ call[l].slot \in Slot
      BY <1>a DEF SlotInv, SlotOk, IdHolds, Valid, PlaceInv, PlaceOk, WithSlot
    <3>4. pc[l] \in {"getMake", "ready"} => call[m].slot # call[l].slot
      BY <2>2, <3>2, <3>3 DEF Valid
    <3>. QED
      BY <1>a, <2>2, <2>3, <2>5, <3>1, <3>2, <3>3, <3>4 DEF GetFail, Remove, Free, Goto, Valid
  <2>. QED
    BY <1>2, <2>4, <2>5
<1>. QED
  BY <1>1, <1>2, SlotMoves

-----------------------------------------------------------------------------
(***************************************************************************)
(* Records and forks.                                                      *)

(* Three steps change a record.                                            *)
LEMMA RecordMoves ==
  ASSUME NEW l \in Lwp, Call(l) \/ Step(l)
  PROVE  segacct' = segacct \/ AtMap(l) \/ DtDel(l) \/ ForkAdd(l)
<1>1. CASE Call(l)
  BY <1>1, Zenon DEF Call
<1>2. CASE WaitBusy(l) \/ Broadcast(l) \/ GetExisting(l) \/ GetWoken(l) \/ GetCheck(l) \/ GetNew(l)
           \/ GetRefuse(l) \/ GetMake(l) \/ GetFail(l)
  BY <1>2 DEF WaitBusy, Broadcast, GetExisting, GetWoken, GetCheck, GetNew, GetRefuse, GetMake, GetFail,
              descVars
<1>3. CASE ConvLookup(l) \/ ConvTake(l) \/ ConvCheck(l) \/ ConvRelease(l) \/ AtAllowed(l) \/ AtFail(l)
           \/ AtDone(l) \/ Lock(l) \/ Unlock(l)
  BY <1>3 DEF ConvLookup, ConvTake, ConvCheck, ConvRelease, AtAllowed, AtFail, AtDone, Lock, Unlock
<1>4. CASE Remove(l) \/ RemoveKeep(l) \/ RemoveLast(l) \/ RmMvp(l) \/ Free(l) \/ DtFind(l) \/ ExitNext(l)
           \/ DtLast(l) \/ DtKeep(l) \/ ForkCount(l) \/ ForkDone(l)
  BY <1>4 DEF Remove, RemoveKeep, RemoveLast, RmMvp, Free, DtFind, ExitNext, DtLast, DtKeep, ForkCount,
              ForkDone
<1>. QED
  BY <1>1, <1>2, <1>3, <1>4 DEF Step

(* A record is added where there was none.                                 *)
RecordAdded(p, a, k) ==
  /\ segacct[p][a] = NULL
  /\ \A q \in Proc, b \in Addr : segacct'[q][b] = IF q = p /\ b = a THEN k ELSE segacct[q][b]
RecordGone(p, a) ==
  \A q \in Proc, b \in Addr : segacct'[q][b] = IF q = p /\ b = a THEN NULL ELSE segacct[q][b]

(* shmat adds a record of the process that has no LWP in a fork.           *)
LEMMA AtMapShape ==
  ASSUME TypeInv, PlaceInv, NEW l \in Lwp, AtMap(l)
  PROVE  /\ pc[l] = "atMap" /\ pc'[l] = "atDone" /\ call' = call /\ call[l].desc \in Desc
         /\ \A m \in Lwp : ProcOf[m] = ProcOf[l] => pc[m] \notin {"fork", "forkWait"}
         /\ \E a \in Addr : RecordAdded(ProcOf[l], a, call[l].desc)
<1>1. pc[l] = "atMap" /\ pc'[l] = "atDone" /\ call' = call
  BY GotoShape DEF AtMap, Places, WithDesc, Taken
<1>2. ProcOf[l] \in Proc /\ call[l].desc \in Desc
  BY <1>1, ShmAssumption DEF PlaceInv, PlaceOk, WithDesc, Taken
<1>3. PICK a \in Addr \ Attached(ProcOf[l]) : Attach(ProcOf[l], a, call[l].desc)
  BY DEF AtMap
<1>4. \A q \in Proc, b \in Addr :
        segacct'[q][b] = IF q = ProcOf[l] /\ b = a THEN call[l].desc ELSE segacct[q][b]
  BY <1>2, <1>3, AttachShape
<1>5. segacct[ProcOf[l]][a] = NULL
  BY <1>3 DEF Attached
<1>. QED
  BY <1>1, <1>2, <1>4, <1>5 DEF AtMap, AsFree, RecordAdded

(* shmdt deletes one, of a process that has no LWP in a fork.              *)
LEMMA DtDelRecord ==
  ASSUME TypeInv, DetachInv, NEW l \in Lwp, DtDel(l)
  PROVE  /\ RecordGone(ProcOf[l], call[l].addr)
         /\ \A m \in Lwp : ProcOf[m] = ProcOf[l] => pc[m] \notin {"fork", "forkWait"}
<1>1. ProcOf[l] \in Proc
  BY ShmAssumption
<1>2. Attach(ProcOf[l], call[l].addr, NULL)
  BY DEF DtDel
<1>. QED
  BY <1>1, <1>2, AttachShape DEF DtDel, AsFree, RecordGone

(* shmfork adds one of the child.                                          *)
LEMMA ForkAddRecord ==
  ASSUME TypeInv, ForkInv, NEW l \in Lwp, ForkAdd(l)
  PROVE  \E a \in Addr : /\ RecordAdded(call[l].child, a, call'[l].desc)
                         /\ segacct[ProcOf[l]][a] = call'[l].desc /\ call'[l].desc \in Desc
                         /\ call'[l].child = call[l].child /\ call[l].child \in Proc
                         /\ pc[l] = "fork" /\ pc'[l] = "forkWait"
<1>1. PICK a \in Addr :
           /\ segacct[ProcOf[l]][a] \in Desc /\ call[l].child \in Proc /\ segacct[call[l].child][a] = NULL
           /\ Attach(call[l].child, a, segacct[ProcOf[l]][a])
           /\ pc[l] = "fork" /\ pc'[l] = "forkWait"
           /\ CallIs(l, call[l].op, call[l].slot, segacct[ProcOf[l]][a], call[l].id, call[l].addr,
                     call[l].child)
  BY ForkAddShape
<1>2. call'[l].desc = segacct[ProcOf[l]][a] /\ call'[l].child = call[l].child
  BY <1>1 DEF CallIs
<1>3. RecordAdded(call[l].child, a, call'[l].desc)
  BY <1>1, <1>2, AttachShape DEF RecordAdded
<1>. QED
  BY <1>1, <1>2, <1>3

(* The record that shmdt found stays.                                      *)
LEMMA DetachKeeps ==
  ASSUME IInv, NEW l \in Lwp, Call(l) \/ Step(l)
  PROVE  DetachInv'
<1>a. TypeInv /\ PlaceInv /\ DetachInv /\ ForkInv /\ NULL \notin Desc
  BY ShmAssumption DEF IInv
<1>b. \A m \in Lwp : m # l => pc'[m] = pc[m] /\ call'[m] = call[m]
  BY <1>a, OnlyMine DEF Alone
<1>. SUFFICES ASSUME NEW m \in Lwp, pc'[m] = "dtDel"
              PROVE  call'[m].addr \in Addr /\ segacct'[ProcOf[m]][call'[m].addr] # NULL
  BY DEF DetachInv
<1>p. ProcOf[m] \in Proc
  BY ShmAssumption
<1>1. CASE m = l
  <2>1. CASE DtFind(l)
    <3>1. CASE Return(l, "dt")
      BY <1>a, <1>1, <3>1, ReturnShape
    <3>2. CASE Goto(l, "dt", "dtDel") /\ UNCHANGED call /\ call[l].addr \in Attached(ProcOf[l])
      BY <1>1, <2>1, <3>2 DEF DtFind, Attached
    <3>. QED
      BY <2>1, <3>1, <3>2 DEF DtFind
  <2>2. CASE ExitNext(l)
    BY <1>a, <1>1, <2>2, ExitNextShape DEF CallIs, ExitNext
  <2>3. CASE ~DtFind(l) /\ ~ExitNext(l)
    <3>r. \A from : Return(l, from) => pc'[l] # "dtDel"
      BY <1>a, ReturnShape
    <3>1. ~Call(l)
      BY <1>1, <1>a, CallShape DEF NewGet, NewConv, NewDt, NewFork, NewExit
    <3>2. pc'[l] # "dtDel"
      <4>. USE DEF Places, WithDesc, Taken, Waiting
      <4>1. CASE WaitBusy(l) \/ GetWoken(l) \/ GetCheck(l) \/ GetNew(l) \/ GetMake(l) \/ GetFail(l)
                 \/ ConvTake(l) \/ ConvCheck(l) \/ ConvRelease(l) \/ AtAllowed(l) \/ AtFail(l)
                 \/ AtMap(l) \/ AtDone(l)
        BY <4>1, <1>a, GotoShape DEF WaitBusy, GetWoken, GetCheck, GetNew, GetMake, GetFail, ConvTake,
                                     ConvCheck, ConvRelease, AtAllowed, AtFail, AtMap, AtDone
      <4>2. CASE Lock(l) \/ Unlock(l) \/ Remove(l) \/ RemoveKeep(l) \/ RemoveLast(l) \/ RmMvp(l)
                 \/ Free(l) \/ DtDel(l) \/ DtLast(l) \/ ForkAdd(l) \/ ForkCount(l)
        BY <4>2, <1>a, GotoShape DEF Lock, Unlock, Remove, RemoveKeep, RemoveLast, RmMvp, Free, DtDel,
                                     DtLast, ForkAdd, ForkCount
      <4>3. CASE GetRefuse(l) \/ DtKeep(l) \/ ForkDone(l) \/ ConvLookup(l) \/ Broadcast(l)
        BY <4>3, <1>a, <3>r, GotoShape DEF GetRefuse, DtKeep, ForkDone, ConvLookup, Broadcast
      <4>4. CASE GetExisting(l)
        BY <4>4, <1>a, GetExistingShape
      <4>. QED
        BY <2>3, <3>1, <4>1, <4>2, <4>3, <4>4 DEF Step
    <3>. QED
      BY <1>1, <3>2
  <2>. QED
    BY <2>1, <2>2, <2>3
<1>2. CASE m # l
  <2>1. pc[m] = "dtDel" /\ call'[m] = call[m] /\ call[m].addr \in Addr
        /\ segacct[ProcOf[m]][call[m].addr] # NULL
    BY <1>a, <1>b, <1>2 DEF DetachInv
  <2>2. CASE segacct' = segacct
    BY <2>1, <2>2
  <2>3. CASE AtMap(l)
    BY <1>a, <1>p, <2>1, <2>3, AtMapShape DEF RecordAdded
  <2>4. CASE ForkAdd(l)
    BY <1>a, <1>p, <2>1, <2>4, ForkAddRecord DEF RecordAdded
  <2>5. CASE DtDel(l)
    <3>1. pc[l] = "dtDel"
      BY <1>a, <2>5, DtDelShape
    <3>2. \A n \in {l, m} : call[n].op \in Detach /\ call[n].op \in Ops[n]
      BY <1>a, <2>1, <3>1 DEF PlaceInv, OpFits, PlaceOk
    <3>3. ProcOf[l] # ProcOf[m]
      BY <1>2, <3>2, ShmAssumption DEF Detach
    <3>. QED
      BY <1>a, <1>p, <2>1, <2>5, <3>3, DtDelRecord DEF RecordGone
  <2>. QED
    BY <2>2, <2>3, <2>4, <2>5, RecordMoves
<1>. QED
  BY <1>1, <1>2

(* A step leaves the children of the forks alone, but for its own.         *)
LEMMA ForkMoves ==
  ASSUME IInv, NEW l \in Lwp, Call(l) \/ Step(l)
  PROVE  /\ pc'[l] \in {"fork", "forkWait"} =>
              \/ Call(l) /\ NewFork(l)
              \/ /\ pc[l] \in {"fork", "forkWait"} /\ call'[l].child = call[l].child
                 /\ pc'[l] = "forkWait" => call'[l] = call[l] \/ ForkAdd(l)
                 /\ pc'[l] = "forkWait" /\ pc[l] = "fork" => ForkAdd(l)
         /\ alive' \subseteq alive
            \/ (pc[l] = "fork" /\ pc'[l] \in {"exit", "idle"} /\ alive' = alive \cup {call[l].child})
         /\ call'[l].child = NULL \/ call'[l].child = call[l].child \/ (Call(l) /\ NewFork(l))
<1>a. TypeInv /\ PlaceInv /\ DetachInv /\ ForkInv
  BY DEF IInv
<1>r. \A from : Return(l, from) => pc[l] = from /\ pc'[l] \in {"exit", "idle"}
  BY <1>a, ReturnShape
<1>. USE DEF Places, WithDesc, Taken, Waiting
<1>1. CASE Call(l)
  <2>1. alive' = alive
    BY <1>1, Zenon DEF Call
  <2>2. NewFork(l) \/ (pc'[l] \notin {"fork", "forkWait"} /\ call'[l].child = NULL)
    BY <1>1, <1>a, CallShape DEF NewGet, NewConv, NewDt, NewExit, CallIs
  <2>. QED
    BY <1>1, <2>1, <2>2
<1>2. CASE Step(l)
  <2>0. call'[l].child = call[l].child \/ call'[l].child = NULL
    BY <1>2, <1>a, StepOp
  <2>1. CASE WaitBusy(l) \/ GetWoken(l) \/ GetCheck(l) \/ GetNew(l) \/ GetMake(l) \/ GetFail(l)
             \/ ConvTake(l) \/ ConvCheck(l) \/ ConvRelease(l) \/ AtAllowed(l) \/ AtFail(l)
             \/ AtMap(l) \/ AtDone(l)
    BY <2>0, <2>1, <1>a, GotoShape
       DEF WaitBusy, GetWoken, GetCheck, GetNew, GetMake, GetFail, ConvTake, ConvCheck, ConvRelease,
           AtAllowed, AtFail, AtMap, AtDone
  <2>2. CASE Lock(l) \/ Unlock(l) \/ Remove(l) \/ RemoveKeep(l) \/ RemoveLast(l) \/ RmMvp(l)
             \/ Free(l) \/ DtDel(l) \/ DtLast(l) \/ ForkCount(l)
    BY <2>0, <2>2, <1>a, GotoShape
       DEF Lock, Unlock, Remove, RemoveKeep, RemoveLast, RmMvp, Free, DtDel, DtLast, ForkCount
  <2>3. CASE GetRefuse(l) \/ DtKeep(l) \/ ForkDone(l) \/ ConvLookup(l) \/ Broadcast(l) \/ DtFind(l)
    <3>1. pc'[l] \notin {"fork", "forkWait"}
      BY <2>3, <1>a, <1>r, GotoShape DEF GetRefuse, DtKeep, ForkDone, ConvLookup, Broadcast, DtFind
    <3>2. alive' \subseteq alive
          \/ (pc[l] = "fork" /\ pc'[l] \in {"exit", "idle"} /\ alive' = alive \cup {call[l].child})
      BY <2>3, <1>r DEF GetRefuse, DtKeep, ForkDone, ConvLookup, Broadcast, DtFind
    <3>. QED
      BY <2>0, <3>1, <3>2
  <2>4. CASE GetExisting(l)
    BY <2>0, <2>4, <1>a, GetExistingShape DEF GetExisting
  <2>5. CASE ExitNext(l)
    BY <2>0, <2>5, <1>a, ExitNextShape
  <2>6. CASE ForkAdd(l)
    BY <2>0, <2>6, <1>a, ForkAddRecord DEF ForkAdd
  <2>. QED
    BY <1>2, <2>1, <2>2, <2>3, <2>4, <2>5, <2>6 DEF Step
<1>. QED
  BY <1>1, <1>2

(* A fork keeps its child and the record it has to count.                  *)
LEMMA ForkKeeps ==
  ASSUME IInv, NEW l \in Lwp, Call(l) \/ Step(l)
  PROVE  ForkInv'
<1>a. TypeInv /\ PlaceInv /\ DetachInv /\ ForkInv /\ NULL \notin Desc
  BY ShmAssumption DEF IInv
<1>b. \A m \in Lwp : m # l => pc'[m] = pc[m] /\ call'[m] = call[m]
  BY <1>a, OnlyMine DEF Alone
<1>c. \A m \in Lwp : pc[m] \in {"fork", "forkWait"} =>
        /\ call[m].child \in Proc \ alive /\ call[m].child # NULL /\ ProcOf[m] \in alive
        /\ \A n \in Lwp : n # m => call[n].child # call[m].child
  BY <1>a DEF ForkInv, ChildOk, PlaceInv, PlaceOk
<1>d. pc[l] \notin {"fork", "forkWait"} => call[l].child = NULL \/ call[l].op = "fork"
  BY <1>a DEF PlaceInv, PlaceOk
<1>e. NewFork(l) => \E c \in Proc \ alive : /\ \A m \in Lwp : call[m].child # c
                                            /\ call'[l].child = c
  BY DEF NewFork, CallIs
<1>f. ASSUME Call(l), NewFork(l)
      PROVE  alive' \subseteq alive /\ call[l].child = NULL
  <2>1. alive' = alive
    BY <1>f, Zenon DEF Call
  <2>. QED
    BY <1>a, <1>f, <2>1, CallShape DEF PlaceInv, OpFits, NoCall
<1>. SUFFICES ASSUME NEW m \in Lwp, pc'[m] \in {"fork", "forkWait"}
              PROVE  ChildOk(m)' /\ (pc'[m] = "forkWait" => RecordOk(m)')
  BY DEF ForkInv
<1>1. CASE m # l
  <2>1. pc[m] \in {"fork", "forkWait"} /\ pc'[m] = pc[m] /\ call'[m] = call[m]
    BY <1>b, <1>1
  <2>2. ChildOk(m)'
    <3>1. call[m].child \notin alive'
      BY <1>1, <1>c, <2>1, ForkMoves
    <3>2. call'[l].child # call[m].child
      BY <1>1, <1>c, <1>e, <2>1, ForkMoves
    <3>. QED
      BY <1>b, <1>c, <2>1, <3>1, <3>2 DEF ChildOk
  <2>3. ASSUME pc[m] = "forkWait"
        PROVE  RecordOk(m)'
    <3>1. PICK a \in Addr : /\ segacct[call[m].child][a] = call[m].desc
                            /\ segacct[ProcOf[m]][a] = call[m].desc
      BY <1>a, <2>3 DEF ForkInv, RecordOk
    <3>2. call[m].desc # NULL /\ ProcOf[m] \in Proc /\ call[m].child \in Proc
      BY <1>a, <1>c, <2>3, ShmAssumption DEF PlaceInv, PlaceOk, WithDesc, Waiting
    <3>3. segacct'[call[m].child][a] = call[m].desc /\ segacct'[ProcOf[m]][a] = call[m].desc
      <4>1. CASE segacct' = segacct
        BY <3>1, <4>1
      <4>2. CASE AtMap(l)
        BY <1>a, <3>1, <3>2, <4>2, AtMapShape DEF RecordAdded
      <4>3. CASE ForkAdd(l)
        BY <1>a, <3>1, <3>2, <4>3, ForkAddRecord DEF RecordAdded
      <4>4. CASE DtDel(l)
        <5>1. ProcOf[m] # ProcOf[l]
          BY <1>a, <2>3, <4>4, DtDelRecord
        <5>2. ProcOf[l] \in alive
          BY <1>a, <4>4, DtDelShape DEF PlaceInv, PlaceOk
        <5>3. call[m].child # ProcOf[l]
          BY <1>c, <2>3, <5>2
        <5>. QED
          BY <1>a, <3>1, <3>2, <4>4, <5>1, <5>3, DtDelRecord DEF RecordGone
      <4>. QED
        BY <4>1, <4>2, <4>3, <4>4, RecordMoves
    <3>. QED
      BY <2>1, <3>3 DEF RecordOk
  <2>. QED
    BY <2>1, <2>2, <2>3
<1>2. CASE m = l
  <2>1. CASE Call(l) /\ NewFork(l)
    <3>1. pc'[l] = "fork"
      BY <2>1 DEF NewFork
    <3>2. PICK c \in Proc \ alive : (\A n \in Lwp : call[n].child # c) /\ call'[l].child = c
      BY <1>e, <2>1
    <3>3. c # NULL
      BY <1>f, <2>1, <3>2
    <3>. QED
      BY <1>2, <1>b, <1>f, <2>1, <3>1, <3>2, <3>3 DEF ChildOk
  <2>2. CASE ~(Call(l) /\ NewFork(l))
    <3>1. /\ pc[l] \in {"fork", "forkWait"} /\ call'[l].child = call[l].child
          /\ pc'[l] = "forkWait" => call'[l] = call[l] \/ ForkAdd(l)
          /\ pc'[l] = "forkWait" /\ pc[l] = "fork" => ForkAdd(l)
          /\ alive' \subseteq alive
      BY <1>2, <2>2, ForkMoves
    <3>2. ChildOk(l)'
      BY <1>b, <1>c, <3>1 DEF ChildOk
    <3>3. CASE ForkAdd(l)
      <4>1. PICK a \in Addr : /\ RecordAdded(call[l].child, a, call'[l].desc)
                              /\ segacct[ProcOf[l]][a] = call'[l].desc
                              /\ call'[l].child = call[l].child /\ call[l].child \in Proc
        BY <1>a, <3>3, ForkAddRecord
      <4>2. ProcOf[l] # call[l].child /\ ProcOf[l] \in Proc
        BY <1>c, <3>1, ShmAssumption
      <4>3. segacct'[call'[l].child][a] = call'[l].desc /\ segacct'[ProcOf[l]][a] = call'[l].desc
        BY <4>1, <4>2 DEF RecordAdded
      <4>. QED
        BY <1>2, <3>2, <4>3 DEF RecordOk
    <3>4. CASE ~ForkAdd(l)
      <4>1. CASE pc'[l] = "forkWait"
        <5>1. pc[l] = "forkWait" /\ call'[l] = call[l] /\ RecordOk(l)
          BY <1>a, <3>1, <3>4, <4>1 DEF ForkInv
        <5>2. segacct' = segacct
          BY <1>a, <3>4, <5>1, RecordMoves, AtMapShape, DtDelShape
        <5>. QED
          BY <1>2, <3>2, <5>1, <5>2 DEF RecordOk
      <4>. QED
        BY <1>2, <3>2, <4>1
    <3>. QED
      BY <3>3, <3>4
  <2>. QED
    BY <2>1, <2>2
<1>. QED
  BY <1>1, <1>2

-----------------------------------------------------------------------------
(***************************************************************************)
(* The counts.                                                             *)

One(c) == IF c THEN 1 ELSE 0

(* A step changes a set of LWPs by its own LWP.                            *)
LEMMA AtMoves ==
  ASSUME TypeInv, NEW l \in Lwp, Alone(l), NEW k, NEW P
  PROVE  At(k, P)' = (At(k, P) \ {l}) \cup (IF pc'[l] \in P /\ call'[l].desc = k THEN {l} ELSE {})
BY DEF Alone, At

(* A step changes the number of LWPs at a place by its own LWP at most.     *)
LEMMA AtCount ==
  ASSUME TypeInv, NEW l \in Lwp, Alone(l), NEW k, NEW P
  PROVE  /\ Cardinality(At(k, P)') \in Nat /\ Cardinality(At(k, P)) \in Nat
         /\ Cardinality(At(k, P)') = Cardinality(At(k, P)) - One(pc[l] \in P /\ call[l].desc = k)
                                       + One(pc'[l] \in P /\ call'[l].desc = k)
<1>1. IsFiniteSet(At(k, P)) /\ Cardinality(At(k, P)) \in Nat
  BY CountFacts
<1>. DEFINE S == At(k, P) \ {l}
<1>2. l \in At(k, P) <=> pc[l] \in P /\ call[l].desc = k
  BY DEF At
<1>3. IsFiniteSet(S) /\ Cardinality(S) = Cardinality(At(k, P)) - One(pc[l] \in P /\ call[l].desc = k)
  BY <1>1, <1>2, FS_RemoveElement DEF One
<1>4. l \notin S /\ Cardinality(S) \in Nat
  BY <1>3, FS_CardinalityType
<1>5. CASE pc'[l] \in P /\ call'[l].desc = k
  <2>1. At(k, P)' = S \cup {l}
    BY <1>5, AtMoves
  <2>. HIDE DEF S
  <2>2. Cardinality(S \cup {l}) = Cardinality(S) + 1
    BY <1>3, <1>4, FS_AddElement
  <2>. QED
    BY <1>1, <1>3, <1>4, <1>5, <2>1, <2>2 DEF One
<1>6. CASE ~(pc'[l] \in P /\ call'[l].desc = k)
  <2>1. At(k, P)' = S
    BY <1>6, AtMoves
  <2>. HIDE DEF S
  <2>. QED
    BY <1>1, <1>3, <1>4, <1>6, <2>1 DEF One
<1>. QED
  BY <1>5, <1>6

(* A record more is an attachment more.                                    *)
LEMMA AddedCount ==
  ASSUME TypeInv, NEW p \in Proc, NEW a \in Addr, NEW j \in Desc, RecordAdded(p, a, j), NEW k \in Desc
  PROVE  /\ Attachments(k)' = IF k = j THEN Attachments(k) \cup {<<p, a>>} ELSE Attachments(k)
         /\ Cardinality(Attachments(k)') = Cardinality(Attachments(k)) + One(k = j)
<1>1. k # NULL /\ <<p, a>> \notin Attachments(k)
  BY ShmAssumption DEF RecordAdded, Attachments
<1>2. ASSUME NEW q \in Proc, NEW b \in Addr
      PROVE  <<q, b>> \in Attachments(k)' <=> <<q, b>> \in Attachments(k) \/ (k = j /\ q = p /\ b = a)
  BY <1>1 DEF RecordAdded, Attachments
<1>3. Attachments(k) \subseteq Proc \X Addr /\ Attachments(k)' \subseteq Proc \X Addr
  BY DEF Attachments
<1>4. Attachments(k)' = IF k = j THEN Attachments(k) \cup {<<p, a>>} ELSE Attachments(k)
  <2>. HIDE DEF Attachments
  <2>. QED
    BY <1>2, <1>3
<1>5. IsFiniteSet(Attachments(k)) /\ Cardinality(Attachments(k)) \in Nat
  BY CountFacts
<1>6. Cardinality(Attachments(k) \cup {<<p, a>>}) = Cardinality(Attachments(k)) + 1
  BY <1>1, <1>5, FS_AddElement
<1>. QED
  BY <1>4, <1>5, <1>6 DEF One

(* A record less is an attachment less.                                    *)
LEMMA GoneCount ==
  ASSUME TypeInv, NEW p \in Proc, NEW a \in Addr, RecordGone(p, a), NEW k \in Desc
  PROVE  /\ Attachments(k)' = IF k = segacct[p][a] THEN Attachments(k) \ {<<p, a>>} ELSE Attachments(k)
         /\ Cardinality(Attachments(k)') = Cardinality(Attachments(k)) - One(k = segacct[p][a])
<1>1. k # NULL /\ (<<p, a>> \in Attachments(k) <=> k = segacct[p][a])
  BY ShmAssumption DEF Attachments
<1>2. ASSUME NEW q \in Proc, NEW b \in Addr
      PROVE  <<q, b>> \in Attachments(k)' <=> <<q, b>> \in Attachments(k) /\ ~(q = p /\ b = a)
  BY <1>1 DEF RecordGone, Attachments
<1>3. Attachments(k) \subseteq Proc \X Addr /\ Attachments(k)' \subseteq Proc \X Addr
  BY DEF Attachments
<1>4. Attachments(k)' = IF k = segacct[p][a] THEN Attachments(k) \ {<<p, a>>} ELSE Attachments(k)
  <2>. HIDE DEF Attachments
  <2>. QED
    BY <1>1, <1>2, <1>3
<1>5. IsFiniteSet(Attachments(k)) /\ Cardinality(Attachments(k)) \in Nat
  BY CountFacts
<1>6. k = segacct[p][a] =>
        Cardinality(Attachments(k) \ {<<p, a>>}) = Cardinality(Attachments(k)) - 1
  BY <1>1, <1>5, FS_RemoveElement
<1>. QED
  BY <1>4, <1>5, <1>6 DEF One

(* shmget leaves the place where it makes a segment in two ways.           *)
LEMMA MakeMoves ==
  ASSUME TypeInv, NEW l \in Lwp, Call(l) \/ Step(l), pc[l] = "getMake"
  PROVE  GetMake(l) \/ GetFail(l)
<1>1. CASE Call(l)
  BY <1>1, Zenon DEF Call
<1>2. CASE Step(l)
  BY <1>2 DEF Step, WaitBusy, Broadcast, GetExisting, GetWoken, GetCheck, GetNew, GetRefuse,
     ConvLookup, ConvTake, ConvCheck, ConvRelease, AtAllowed, AtFail, AtMap, AtDone, Lock, Unlock,
     Remove, RemoveKeep, RemoveLast, RmMvp, Free, DtFind, ExitNext, DtDel, DtLast, DtKeep, ForkAdd,
     ForkCount, ForkDone, Goto, Return
<1>. QED
  BY <1>1, <1>2

(* Only a new segment gets an identifier, and only IPC_RMID takes one.     *)
LEMMA ListedMoves ==
  ASSUME IInv, NEW l \in Lwp, Call(l) \/ Step(l), NEW k \in Desc
  PROVE  /\ ~GetMake(l) /\ ~Remove(l) => (Listed(k)' <=> Listed(k))
         /\ GetMake(l) => /\ k # call[l].desc => (Listed(k)' <=> Listed(k))
                          /\ k = call[l].desc => ~Listed(k) /\ Listed(k)'
         /\ Remove(l) => /\ k # call[l].desc => (Listed(k)' <=> Listed(k))
                         /\ k = call[l].desc => Listed(k) /\ ~Listed(k)'
<1>a. TypeInv /\ PlaceInv /\ SlotInv /\ IdHolds /\ NULL \notin Desc
      /\ ipcd_ent \in [Slot -> Desc \cup {NULL}]
  BY ShmAssumption DEF IInv, TypeInv, DataType
<1>b. \A m \in Lwp : m # l => pc'[m] = pc[m] /\ call'[m] = call[m]
  BY <1>a, OnlyMine DEF Alone
<1>. DEFINE InSlot(j) == \E d \in Slot : ipcd_ent[d] = j
            InSlotNext(j) == \E d \in Slot : ipcd_ent'[d] = j
            Making(j) == \E m \in Lwp : pc[m] = "getMake" /\ call[m].desc = j
            MakingNext(j) == \E m \in Lwp : pc'[m] = "getMake" /\ call'[m].desc = j
<1>c. (Listed(k) <=> InSlot(k) /\ ~Making(k)) /\ (Listed(k)' <=> InSlotNext(k) /\ ~MakingNext(k))
  BY DEF Listed
<1>d. pc[l] \in Taken => \A m \in Lwp : m # l /\ pc[m] = "getMake" => call[m].desc # call[l].desc
  BY OneHolder DEF Taken
<1>1. CASE GetMake(l)
  <2>1. /\ pc[l] = "getMake" /\ pc'[l] = "bcast" /\ call' = call /\ ipcd_ent' = ipcd_ent
    BY <1>1, <1>a, GotoShape DEF GetMake, Places, WithDesc
  <2>2. InSlot(call[l].desc)
    BY <1>a, <2>1 DEF SlotInv, SlotOk, PlaceInv, PlaceOk, WithSlot
  <2>3. InSlotNext(k) <=> InSlot(k)
    BY <2>1
  <2>4. Making(call[l].desc) /\ ~MakingNext(call[l].desc)
    BY <1>b, <1>d, <2>1 DEF Taken
  <2>5. k # call[l].desc => (MakingNext(k) <=> Making(k))
    BY <1>b, <2>1
  <2>6. ~Remove(l)
    BY <2>1 DEF Remove, Goto
  <2>. HIDE DEF InSlot, InSlotNext, Making, MakingNext
  <2>. QED
    BY <1>1, <1>c, <2>2, <2>3, <2>4, <2>5, <2>6
<1>2. CASE Remove(l)
  <2>1. /\ pc[l] = "ready" /\ pc'[l] = "removed" /\ call' = call
        /\ ipcd_ent' = [ipcd_ent EXCEPT ![call[l].slot] = NULL]
        /\ ipcd_ent[call[l].slot] = call[l].desc /\ call[l].slot \in Slot /\ call[l].desc \in Desc
    BY <1>2, <1>a, GotoShape DEF Remove, Places, WithDesc, Taken, IdHolds, Valid, PlaceInv, PlaceOk,
                                 WithSlot
  <2>2. InSlot(call[l].desc) /\ ~InSlotNext(call[l].desc)
    BY <1>a, <2>1 DEF SlotInv
  <2>3. k # call[l].desc => (InSlotNext(k) <=> InSlot(k))
    BY <1>a, <2>1
  <2>4. ~Making(call[l].desc)
    BY <1>d, <2>1 DEF Taken
  <2>5. MakingNext(k) <=> Making(k)
    BY <1>b, <2>1
  <2>6. ~GetMake(l)
    BY <2>1 DEF GetMake, Goto
  <2>. HIDE DEF InSlot, InSlotNext, Making, MakingNext
  <2>. QED
    BY <1>2, <1>c, <2>2, <2>3, <2>4, <2>5, <2>6
<1>3. CASE GetNew(l)
  <2>1. PICK d \in Slot, j \in Desc :
           /\ j \notin allocated /\ j \notin busy /\ ipcd_ent[d] = NULL
           /\ ipcd_ent' = [ipcd_ent EXCEPT ![d] = j]
           /\ pc[l] = "get" /\ pc'[l] = "getMake" /\ call'[l].desc = j
    BY <1>3, <1>a, GetNewShape DEF CallIs
  <2>2. ~InSlot(j)
    BY <1>a, <2>1 DEF SlotInv
  <2>3. MakingNext(j)
    BY <2>1
  <2>4. k # j => (InSlotNext(k) <=> InSlot(k))
    BY <1>a, <2>1
  <2>5. k # j => (MakingNext(k) <=> Making(k))
    BY <1>b, <2>1
  <2>6. ~GetMake(l) /\ ~Remove(l)
    BY <2>1 DEF GetMake, Remove, Goto
  <2>. HIDE DEF InSlot, InSlotNext, Making, MakingNext
  <2>. QED
    BY <1>c, <2>2, <2>3, <2>4, <2>5, <2>6
<1>4. CASE GetFail(l)
  <2>1. /\ pc[l] = "getMake" /\ pc'[l] = "bcast" /\ call' = call
        /\ ipcd_ent' = [ipcd_ent EXCEPT ![call[l].slot] = NULL]
        /\ ipcd_ent[call[l].slot] = call[l].desc /\ call[l].slot \in Slot /\ call[l].desc \in Desc
    BY <1>4, <1>a, GotoShape DEF GetFail, Places, WithDesc, Taken, SlotInv, SlotOk, PlaceInv, PlaceOk,
                                 WithSlot
  <2>2. Making(call[l].desc) /\ ~InSlotNext(call[l].desc)
    BY <1>a, <2>1 DEF SlotInv
  <2>3. k # call[l].desc => (InSlotNext(k) <=> InSlot(k))
    BY <1>a, <2>1
  <2>4. k # call[l].desc => (MakingNext(k) <=> Making(k))
    BY <1>b, <2>1
  <2>5. ~GetMake(l) /\ ~Remove(l)
    <3>1. GetMake(l) => ipcd_ent' = ipcd_ent
      BY DEF GetMake
    <3>. QED
      BY <1>a, <2>1, <3>1 DEF Remove, Goto
  <2>. HIDE DEF InSlot, InSlotNext, Making, MakingNext
  <2>. QED
    BY <1>c, <2>2, <2>3, <2>4, <2>5
<1>5. CASE ~GetMake(l) /\ ~Remove(l) /\ ~GetNew(l) /\ ~GetFail(l)
  <2>1. pc[l] # "getMake"
    BY <1>5, <1>a, MakeMoves
  <2>2. ipcd_ent' = ipcd_ent /\ pc'[l] # "getMake"
    <3>1. CASE SlotQuiet(l)
      BY <2>1, <3>1 DEF SlotQuiet
    <3>2. CASE Free(l)
      BY <1>a, <3>2, GotoShape DEF Free, Places, WithDesc
    <3>. QED
      BY <1>5, <3>1, <3>2, SlotMoves
  <2>3. (InSlotNext(k) <=> InSlot(k)) /\ (MakingNext(k) <=> Making(k))
    BY <1>b, <2>1, <2>2
  <2>. HIDE DEF InSlot, InSlotNext, Making, MakingNext
  <2>. QED
    BY <1>5, <1>c, <2>3
<1>. QED
  BY <1>1, <1>2, <1>3, <1>4, <1>5

(* The steps that change what RefExact counts.                             *)
Counting(l) ==
  \/ AtMap(l) \/ AtDone(l) \/ Remove(l) \/ RemoveKeep(l) \/ RemoveLast(l)
  \/ DtDel(l) \/ DtLast(l) \/ DtKeep(l) \/ ForkAdd(l) \/ ForkCount(l)

(* What the other steps leave alone.                                       *)
CountQuiet(l) ==
  /\ segacct' = segacct
  /\ refcnt' = refcnt \/ (GetMake(l) /\ refcnt' = [refcnt EXCEPT ![call[l].desc] = 1])
  /\ \/ pc'[l] = pc[l] /\ call'[l] = call[l]
     \/ /\ pc[l] \notin {"atDone", "forkWait", "dtWait", "removed"}
        /\ pc'[l] \notin {"atDone", "forkWait", "dtWait", "removed"}

(* Every step but those of Counting is quiet about the count.               *)
LEMMA CountMoves ==
  ASSUME IInv, NEW l \in Lwp, Call(l) \/ Step(l), ~Counting(l)
  PROVE  CountQuiet(l)
<1>a. TypeInv /\ PlaceInv /\ DetachInv /\ ForkInv
  BY DEF IInv
<1>r. \A from : Return(l, from) => pc[l] = from /\ pc'[l] \in {"exit", "idle"}
  BY <1>a, ReturnShape
<1>s. segacct' = segacct
  BY RecordMoves DEF Counting
<1>. USE DEF Places, WithDesc, Taken, Waiting
<1>1. CASE Call(l)
  <2>1. refcnt' = refcnt
    BY <1>1, Zenon DEF Call, descVars
  <2>. QED
    BY <1>1, <1>a, <1>s, <2>1, CallShape DEF NewGet, NewConv, NewDt, NewFork, NewExit, CountQuiet
<1>2. CASE WaitBusy(l)
  BY <1>2, <1>s DEF WaitBusy, descVars, CountQuiet
<1>3. CASE Broadcast(l) \/ GetRefuse(l) \/ DtFind(l) \/ ForkDone(l)
  <2>1. pc[l] \notin {"atDone", "forkWait", "dtWait", "removed"}
    BY <1>3, <1>r DEF Broadcast, GetRefuse, DtFind, ForkDone, Goto
  <2>2. pc'[l] \notin {"atDone", "forkWait", "dtWait", "removed"}
    BY <1>3, <1>a, <1>r, GotoShape DEF Broadcast, GetRefuse, DtFind, ForkDone
  <2>3. refcnt' = refcnt
    BY <1>3 DEF Broadcast, GetRefuse, DtFind, ForkDone, descVars
  <2>. QED
    BY <1>s, <2>1, <2>2, <2>3 DEF CountQuiet
<1>4. CASE GetWoken(l) \/ GetCheck(l) \/ GetNew(l) \/ GetMake(l) \/ GetFail(l) \/ ConvTake(l)
           \/ ConvCheck(l) \/ ConvRelease(l) \/ AtAllowed(l) \/ AtFail(l)
  <2>1. /\ pc[l] \notin {"atDone", "forkWait", "dtWait", "removed"}
        /\ pc'[l] \notin {"atDone", "forkWait", "dtWait", "removed"}
    BY <1>4, <1>a, GotoShape DEF GetWoken, GetCheck, GetNew, GetMake, GetFail, ConvTake, ConvCheck,
                                 ConvRelease, AtAllowed, AtFail
  <2>2. refcnt' = refcnt \/ (GetMake(l) /\ refcnt' = [refcnt EXCEPT ![call[l].desc] = 1])
    BY <1>4 DEF GetWoken, GetCheck, GetNew, GetMake, GetFail, ConvTake, ConvCheck, ConvRelease,
                AtAllowed, AtFail, descVars
  <2>. QED
    BY <1>s, <2>1, <2>2 DEF CountQuiet
<1>5. CASE Lock(l) \/ Unlock(l) \/ RmMvp(l) \/ Free(l)
  BY <1>5, <1>a, <1>s, GotoShape DEF Lock, Unlock, RmMvp, Free, CountQuiet
<1>6. CASE GetExisting(l)
  <2>1. pc[l] = "get" /\ refcnt' = refcnt
    BY <1>6 DEF GetExisting, Goto, descVars
  <2>. QED
    BY <1>6, <1>a, <1>s, <2>1, GetExistingShape DEF CountQuiet
<1>7. CASE ConvLookup(l)
  <2>1. pc[l] = "conv" /\ refcnt' = refcnt
    BY <1>7 DEF ConvLookup, descVars
  <2>. QED
    BY <1>7, <1>a, <1>r, <1>s, <2>1, ConvLookupShape DEF ConvLookup, CountQuiet
<1>8. CASE ExitNext(l)
  BY <1>8, <1>a, <1>s, ExitNextShape DEF ExitNext, descVars, CountQuiet
<1>. QED
  BY <1>1, <1>2, <1>3, <1>4, <1>5, <1>6, <1>7, <1>8 DEF Step, Counting

(* Where the counting steps lead.                                          *)
LEMMA CountingShape ==
  ASSUME IInv, NEW l \in Lwp, Counting(l)
  PROVE  /\ pc[l] # "getMake" /\ pc'[l] # "getMake" /\ ~GetMake(l)
         /\ AtDone(l) => pc[l] = "atDone" /\ pc'[l] = "bcast" /\ call' = call /\ segacct' = segacct
         /\ Remove(l) => pc[l] = "ready" /\ pc'[l] = "removed" /\ call' = call /\ segacct' = segacct
         /\ RemoveKeep(l) => pc[l] = "removed" /\ pc'[l] = "bcast" /\ call' = call /\ segacct' = segacct
         /\ RemoveLast(l) => pc[l] = "removed" /\ pc'[l] = "rmMvp" /\ call' = call /\ segacct' = segacct
         /\ DtLast(l) => pc[l] = "dtWait" /\ pc'[l] = "rmMvp" /\ call' = call /\ segacct' = segacct
         /\ DtKeep(l) => pc[l] = "dtWait" /\ pc'[l] \in {"idle", "exit"} /\ segacct' = segacct
         /\ ForkCount(l) => pc[l] = "forkWait" /\ pc'[l] = "fork" /\ call' = call /\ segacct' = segacct
         /\ AtMap(l) => pc[l] = "atMap" /\ pc'[l] = "atDone"
         /\ DtDel(l) => pc[l] = "dtDel" /\ pc'[l] = "dtWait"
         /\ ForkAdd(l) => pc[l] = "fork" /\ pc'[l] = "forkWait"
<1>a. TypeInv
  BY DEF IInv
<1>. USE DEF Places, WithDesc, Taken, Waiting
<1>1. /\ AtDone(l) => pc[l] = "atDone" /\ pc'[l] = "bcast" /\ call' = call /\ segacct' = segacct
      /\ Remove(l) => pc[l] = "ready" /\ pc'[l] = "removed" /\ call' = call /\ segacct' = segacct
      /\ RemoveKeep(l) => pc[l] = "removed" /\ pc'[l] = "bcast" /\ call' = call /\ segacct' = segacct
      /\ RemoveLast(l) => pc[l] = "removed" /\ pc'[l] = "rmMvp" /\ call' = call /\ segacct' = segacct
  BY <1>a, GotoShape DEF AtDone, Remove, RemoveKeep, RemoveLast
<1>2. /\ DtLast(l) => pc[l] = "dtWait" /\ pc'[l] = "rmMvp" /\ call' = call /\ segacct' = segacct
      /\ DtKeep(l) => pc[l] = "dtWait" /\ pc'[l] \in {"idle", "exit"} /\ segacct' = segacct
      /\ ForkCount(l) => pc[l] = "forkWait" /\ pc'[l] = "fork" /\ call' = call /\ segacct' = segacct
  <2>1. \A from : Return(l, from) => pc[l] = from /\ pc'[l] \in {"idle", "exit"}
    BY <1>a, ReturnShape
  <2>. QED
    BY <1>a, <2>1, GotoShape DEF DtLast, DtKeep, ForkCount
<1>3. /\ AtMap(l) => pc[l] = "atMap" /\ pc'[l] = "atDone"
      /\ DtDel(l) => pc[l] = "dtDel" /\ pc'[l] = "dtWait"
      /\ ForkAdd(l) => pc[l] = "fork" /\ pc'[l] = "forkWait"
  BY <1>a, GotoShape DEF AtMap, DtDel, ForkAdd
<1>. QED
  BY <1>1, <1>2, <1>3 DEF Counting, GetMake, Goto

(* An LWP with SHM_BUSY past shmconv works on a segment that is in use.    *)
LEMMA ReadyIsAlive ==
  ASSUME IInv, NEW l \in Lwp, pc[l] \in {"ready", "atMap", "atDone"}
  PROVE  call[l].desc \in Desc /\ ~Dead(call[l].desc)
<1>1. call[l].desc \in Desc /\ call[l].desc \in allocated
  BY DEF IInv, IdHolds, Valid, PlaceInv, PlaceOk, WithDesc, Taken
<1>2. \A m \in Lwp : pc[m] \in {"getMake", "rmMvp", "free"} => call[m].desc # call[l].desc
  BY OneHolder DEF Taken
<1>. QED
  BY <1>1, <1>2 DEF Dead, Unborn, Dying, At

(* Only the last user comes to release the memory.                         *)
LEMMA DyingMoves ==
  ASSUME IInv, NEW l \in Lwp, Call(l) \/ Step(l), pc'[l] \in {"rmMvp", "free"}
  PROVE  RemoveLast(l) \/ DtLast(l) \/ RmMvp(l)
<1>a. TypeInv /\ PlaceInv /\ DetachInv /\ ForkInv
  BY DEF IInv
<1>r. \A from : Return(l, from) => pc'[l] \in {"exit", "idle"}
  BY <1>a, ReturnShape
<1>. USE DEF Places, WithDesc, Taken, Waiting
<1>2. CASE Call(l)
  BY <1>2, <1>a, CallShape DEF NewGet, NewConv, NewDt, NewFork, NewExit
<1>3. CASE WaitBusy(l) \/ GetWoken(l) \/ GetCheck(l) \/ GetNew(l) \/ GetMake(l) \/ GetFail(l)
           \/ ConvTake(l) \/ ConvCheck(l) \/ ConvRelease(l) \/ AtAllowed(l) \/ AtFail(l)
           \/ AtMap(l) \/ AtDone(l)
  BY <1>3, <1>a, GotoShape
     DEF WaitBusy, GetWoken, GetCheck, GetNew, GetMake, GetFail, ConvTake, ConvCheck, ConvRelease,
         AtAllowed, AtFail, AtMap, AtDone
<1>4. CASE Lock(l) \/ Unlock(l) \/ Remove(l) \/ RemoveKeep(l) \/ Free(l) \/ DtDel(l) \/ ForkAdd(l)
           \/ ForkCount(l)
  BY <1>4, <1>a, GotoShape DEF Lock, Unlock, Remove, RemoveKeep, Free, DtDel, ForkAdd, ForkCount
<1>5. CASE GetRefuse(l) \/ DtKeep(l) \/ ForkDone(l) \/ ConvLookup(l) \/ Broadcast(l) \/ DtFind(l)
  BY <1>5, <1>a, <1>r, GotoShape DEF GetRefuse, DtKeep, ForkDone, ConvLookup, Broadcast, DtFind
<1>6. CASE GetExisting(l) \/ ExitNext(l)
  BY <1>6, <1>a, GetExistingShape, ExitNextShape
<1>. QED
  BY <1>2, <1>3, <1>4, <1>5, <1>6 DEF Step

(* A descriptor dies when its last user goes.                              *)
LEMMA DeadMoves ==
  ASSUME IInv, NEW l \in Lwp, Call(l) \/ Step(l), NEW k \in Desc, Dead(k)'
  PROVE  Dead(k) \/ (k = call[l].desc /\ (RemoveLast(l) \/ DtLast(l)))
<1>a. TypeInv /\ PlaceInv /\ SlotInv
  BY DEF IInv
<1>b. \A m \in Lwp : m # l => pc'[m] = pc[m] /\ call'[m] = call[m]
  BY <1>a, OnlyMine DEF Alone
<1>1. CASE GetNew(l)
  <2>1. PICK d \in Slot, j \in Desc : /\ j \notin allocated /\ allocated' = allocated \cup {j}
                                      /\ pc'[l] = "getMake" /\ call'[l].desc = j
    BY <1>1, <1>a, GetNewShape DEF CallIs
  <2>. QED
    BY <1>b, <2>1 DEF Dead, Unborn, Dying, At
<1>2. CASE GetFail(l) \/ Free(l)
  <2>1. /\ pc[l] \in {"getMake", "free"} /\ pc'[l] = "bcast" /\ call' = call
        /\ allocated' = allocated \ {call[l].desc}
    BY <1>2, <1>a, GotoShape DEF GetFail, Free, Places, WithDesc
  <2>. QED
    BY <1>b, <2>1 DEF Dead, Unborn, Dying, At
<1>3. CASE Remove(l)
  <2>1. pc'[l] = "removed" /\ allocated' = allocated
    BY <1>3, <1>a, GotoShape DEF Remove, Places, WithDesc, Taken
  <2>. QED
    BY <1>b, <2>1 DEF Dead, Unborn, Dying, At
<1>4. CASE SlotQuiet(l)
  <2>1. CASE RemoveLast(l) \/ DtLast(l)
    <3>1. pc'[l] = "rmMvp" /\ call' = call /\ allocated' = allocated
      BY <2>1, <1>4, <1>a, GotoShape DEF RemoveLast, DtLast, Places, WithDesc, Taken, SlotQuiet
    <3>. QED
      BY <1>b, <2>1, <3>1 DEF Dead, Unborn, Dying, At
  <2>2. CASE ~RemoveLast(l) /\ ~DtLast(l)
    <3>1. pc'[l] \in {"rmMvp", "free"} => pc[l] \in {"rmMvp", "free"} /\ call'[l] = call[l]
      <4>1. pc'[l] \in {"rmMvp", "free"} => pc[l] = "rmMvp" /\ call'[l] = call[l]
        BY <2>2, DyingMoves DEF RmMvp, Goto
      <4>. QED
        BY <4>1
    <3>. QED
      BY <1>b, <1>4, <3>1 DEF SlotQuiet, Dead, Unborn, Dying, At
  <2>. QED
    BY <2>1, <2>2
<1>. QED
  BY <1>1, <1>2, <1>3, <1>4, SlotMoves

(* What is dead stays without a user.                                      *)
LEMMA DeadKeeps ==
  ASSUME IInv, NEW l \in Lwp, Call(l) \/ Step(l)
  PROVE  DeadInv'
<1>a. TypeInv /\ PlaceInv /\ DetachInv /\ ForkInv /\ DeadInv /\ NULL \notin Desc
  BY ShmAssumption DEF IInv
<1>b. Alone(l) /\ ProcOf[l] \in Proc
  BY <1>a, OnlyMine, ShmAssumption
<1>. SUFFICES ASSUME NEW k \in Desc, Dead(k)'
              PROVE  Attachments(k)' = {} /\ Plus(k)' = {} /\ Minus(k)' = {}
  BY DEF DeadInv
<1>c. /\ Plus(k)' = (Plus(k) \ {l})
                      \cup (IF pc'[l] \in {"atDone", "forkWait"} /\ call'[l].desc = k THEN {l} ELSE {})
      /\ Minus(k)' = (Minus(k) \ {l})
                      \cup (IF pc'[l] \in {"dtWait", "removed"} /\ call'[l].desc = k THEN {l} ELSE {})
  BY <1>a, <1>b, AtMoves DEF Plus, Minus
<1>1. CASE k = call[l].desc /\ (RemoveLast(l) \/ DtLast(l))
  <2>1. /\ pc'[l] = "rmMvp" /\ call' = call /\ segacct' = segacct
        /\ pc[l] = "removed" \/ (pc[l] = "dtWait" /\ call[l].desc \notin busy)
        /\ refcnt[call[l].desc] = 1
    BY <1>1, <1>a, CountingShape DEF Counting, RemoveLast, DtLast, TakeBusy
  <2>2. Plus(k) = {} /\ Attachments(k) = {} /\ Minus(k) = {l}
    BY <1>1, <2>1, TheLastOne
  <2>3. Attachments(k)' = {}
    BY <2>1, <2>2 DEF Attachments
  <2>. QED
    BY <1>c, <2>1, <2>2, <2>3
<1>2. CASE Dead(k)
  <2>1. Attachments(k) = {} /\ Plus(k) = {} /\ Minus(k) = {}
    BY <1>2, <1>a DEF DeadInv
  <2>2. ASSUME NEW q \in Proc, NEW b \in Addr
        PROVE  segacct[q][b] # k
    <3>1. <<q, b>> \in Proc \X Addr /\ <<q, b>> \notin Attachments(k)
      BY <2>1
    <3>. QED
      BY <3>1 DEF Attachments
  <2>3. Attachments(k)' = {} /\ (pc'[l] \in {"atDone", "forkWait"} => call'[l].desc # k)
        /\ (pc'[l] \in {"dtWait", "removed"} => call'[l].desc # k)
    <3>1. CASE ~Counting(l)
      <4>1. CountQuiet(l)
        BY <3>1, CountMoves
      <4>2. l \notin Plus(k) /\ l \notin Minus(k)
        BY <2>1
      <4>3. /\ pc[l] \in {"atDone", "forkWait"} => call[l].desc # k
            /\ pc[l] \in {"dtWait", "removed"} => call[l].desc # k
        BY <4>2 DEF Plus, Minus, At
      <4>. QED
        BY <2>1, <4>1, <4>3 DEF CountQuiet, Attachments
    <3>2. CASE AtMap(l)
      <4>1. PICK a \in Addr : RecordAdded(ProcOf[l], a, call[l].desc)
        BY <1>a, <3>2, AtMapShape
      <4>2. call[l].desc \in Desc /\ call[l].desc # k /\ call' = call /\ pc'[l] = "atDone"
        BY <1>2, <1>a, <3>2, AtMapShape, ReadyIsAlive
      <4>. QED
        BY <1>a, <1>b, <2>1, <4>1, <4>2, AddedCount
    <3>3. CASE ForkAdd(l)
      <4>1. PICK a \in Addr : /\ RecordAdded(call[l].child, a, call'[l].desc)
                              /\ segacct[ProcOf[l]][a] = call'[l].desc /\ call'[l].desc \in Desc
                              /\ call[l].child \in Proc /\ pc'[l] = "forkWait"
        BY <1>a, <3>3, ForkAddRecord
      <4>2. call'[l].desc # k
        BY <1>b, <2>2, <4>1
      <4>. QED
        BY <1>a, <2>1, <4>1, <4>2, AddedCount
    <3>4. CASE DtDel(l)
      <4>1. /\ call[l].addr \in Addr /\ call'[l].desc = segacct[ProcOf[l]][call[l].addr]
            /\ pc'[l] = "dtWait"
        BY <1>a, <3>4, DtDelShape DEF CallIs
      <4>2. Attachments(k)' = {}
        BY <1>a, <1>b, <2>1, <3>4, <4>1, DtDelRecord, GoneCount
      <4>. QED
        BY <1>b, <2>2, <4>1, <4>2
    <3>5. CASE Remove(l)
      <4>1. pc[l] = "ready" /\ call' = call /\ segacct' = segacct /\ pc'[l] = "removed"
        BY <3>5, CountingShape DEF Counting
      <4>2. call[l].desc # k
        BY <1>2, <4>1, ReadyIsAlive
      <4>. QED
        BY <2>1, <4>1, <4>2 DEF Attachments
    <3>6. CASE AtDone(l) \/ RemoveKeep(l) \/ RemoveLast(l) \/ DtLast(l) \/ DtKeep(l) \/ ForkCount(l)
      <4>1. segacct' = segacct /\ pc'[l] \notin {"atDone", "forkWait", "dtWait", "removed"}
        BY <3>6, CountingShape DEF Counting
      <4>. QED
        BY <2>1, <4>1 DEF Attachments
    <3>. QED
      BY <3>1, <3>2, <3>3, <3>4, <3>5, <3>6 DEF Counting
  <2>. QED
    BY <1>c, <2>1, <2>3
<1>. QED
  BY <1>1, <1>2, DeadMoves

(* The count stays exact.                                                  *)
LEMMA RefKeeps ==
  ASSUME IInv, NEW l \in Lwp, Call(l) \/ Step(l)
  PROVE  RefExact'
<1>a. TypeInv /\ PlaceInv /\ DetachInv /\ ForkInv /\ DeadInv /\ RefExact /\ NULL \notin Desc
      /\ refcnt \in [Desc -> Nat]
  BY ShmAssumption DEF IInv, TypeInv, DataType
<1>b. Alone(l) /\ ProcOf[l] \in Proc
  BY <1>a, OnlyMine, ShmAssumption
<1>. SUFFICES ASSUME NEW k \in Desc
              PROVE  refcnt'[k] + Cardinality(Plus(k)')
                       = Cardinality(Attachments(k)') + One(Listed(k)') + Cardinality(Minus(k)')
  BY DEF RefExact, Plus, Minus, One
<1>1. refcnt[k] + Cardinality(Plus(k)) = Cardinality(Attachments(k)) + One(Listed(k)) + Cardinality(Minus(k))
  BY <1>a DEF RefExact, Plus, Minus, One
<1>2. /\ Cardinality(Plus(k)) \in Nat /\ Cardinality(Minus(k)) \in Nat
      /\ Cardinality(Attachments(k)) \in Nat /\ refcnt[k] \in Nat
  BY <1>a, CountFacts DEF Plus, Minus
<1>3. /\ Cardinality(Plus(k)') = Cardinality(Plus(k))
             - One(pc[l] \in {"atDone", "forkWait"} /\ call[l].desc = k)
             + One(pc'[l] \in {"atDone", "forkWait"} /\ call'[l].desc = k)
      /\ Cardinality(Minus(k)') = Cardinality(Minus(k))
             - One(pc[l] \in {"dtWait", "removed"} /\ call[l].desc = k)
             + One(pc'[l] \in {"dtWait", "removed"} /\ call'[l].desc = k)
  BY <1>a, <1>b, AtCount DEF Plus, Minus
<1>4. CASE ~Counting(l)
  <2>1. CountQuiet(l)
    BY <1>4, CountMoves
  <2>2. Cardinality(Plus(k)') = Cardinality(Plus(k)) /\ Cardinality(Minus(k)') = Cardinality(Minus(k))
    BY <1>2, <1>3, <2>1 DEF CountQuiet, One
  <2>3. Cardinality(Attachments(k)') = Cardinality(Attachments(k))
    BY <2>1 DEF CountQuiet, Attachments
  <2>4. CASE GetMake(l) /\ k = call[l].desc
    <3>1. ~Listed(k) /\ Listed(k)'
      BY <2>4, ListedMoves
    <3>2. pc[l] = "getMake" /\ refcnt' = [refcnt EXCEPT ![k] = 1]
      BY <2>4 DEF GetMake, Goto
    <3>3. Dead(k)
      BY <2>4, <3>2 DEF Dead, Unborn, At
    <3>4. Cardinality(Plus(k)) = 0 /\ Cardinality(Minus(k)) = 0 /\ Cardinality(Attachments(k)) = 0
      BY <1>a, <3>3, FS_EmptySet DEF DeadInv
    <3>. QED
      BY <1>a, <2>2, <2>3, <3>1, <3>2, <3>4 DEF One
  <2>5. CASE ~(GetMake(l) /\ k = call[l].desc)
    <3>1. Listed(k)' <=> Listed(k)
      BY <1>4, <2>5, ListedMoves DEF Counting
    <3>2. refcnt'[k] = refcnt[k]
      BY <1>a, <2>1, <2>5 DEF CountQuiet
    <3>. QED
      BY <1>1, <2>2, <2>3, <3>1, <3>2 DEF One
  <2>. QED
    BY <2>4, <2>5
<1>5. CASE Counting(l)
  <2>0. ~GetMake(l)
    BY <1>5, CountingShape
  <2>1. ~Remove(l) => (Listed(k)' <=> Listed(k))
    BY <2>0, ListedMoves
  <2>2. CASE AtMap(l)
    <3>1. pc[l] = "atMap" /\ pc'[l] = "atDone" /\ call' = call /\ call[l].desc \in Desc
      BY <1>a, <2>2, AtMapShape
    <3>2. Cardinality(Attachments(k)') = Cardinality(Attachments(k)) + One(k = call[l].desc)
      BY <1>a, <1>b, <2>2, <3>1, AtMapShape, AddedCount
    <3>3. refcnt'[k] = refcnt[k] /\ ~Remove(l)
      BY <2>2, <3>1 DEF AtMap, Remove, Goto, descVars
    <3>. QED
      BY <1>1, <1>2, <1>3, <2>1, <3>1, <3>2, <3>3 DEF One
  <2>3. CASE ForkAdd(l)
    <3>1. PICK a \in Addr : /\ RecordAdded(call[l].child, a, call'[l].desc) /\ call'[l].desc \in Desc
                            /\ call[l].child \in Proc /\ pc[l] = "fork" /\ pc'[l] = "forkWait"
      BY <1>a, <2>3, ForkAddRecord
    <3>2. Cardinality(Attachments(k)') = Cardinality(Attachments(k)) + One(k = call'[l].desc)
      BY <1>a, <3>1, AddedCount
    <3>3. refcnt'[k] = refcnt[k] /\ ~Remove(l)
      BY <2>3, <3>1 DEF ForkAdd, Remove, Goto, descVars
    <3>. QED
      BY <1>1, <1>2, <1>3, <2>1, <3>1, <3>2, <3>3 DEF One
  <2>4. CASE DtDel(l)
    <3>1. /\ pc[l] = "dtDel" /\ pc'[l] = "dtWait" /\ call[l].addr \in Addr
          /\ call'[l].desc = segacct[ProcOf[l]][call[l].addr]
      BY <1>a, <2>4, DtDelShape DEF CallIs
    <3>2. Cardinality(Attachments(k)') = Cardinality(Attachments(k)) - One(k = call'[l].desc)
      BY <1>a, <1>b, <2>4, <3>1, DtDelRecord, GoneCount
    <3>3. refcnt'[k] = refcnt[k] /\ ~Remove(l)
      BY <2>4, <3>1 DEF DtDel, Remove, Goto, descVars
    <3>. QED
      BY <1>1, <1>2, <1>3, <2>1, <3>1, <3>2, <3>3 DEF One
  <2>5. CASE Remove(l)
    <3>1. pc[l] = "ready" /\ pc'[l] = "removed" /\ call' = call /\ segacct' = segacct
      BY <1>5, <2>5, CountingShape
    <3>2. refcnt'[k] = refcnt[k]
      BY <2>5 DEF Remove, descVars
    <3>3. Cardinality(Attachments(k)') = Cardinality(Attachments(k))
      BY <3>1 DEF Attachments
    <3>4. One(Listed(k)') = One(Listed(k)) - One(k = call[l].desc)
      BY <2>5, ListedMoves DEF One
    <3>5. One(Listed(k)) \in Nat
      BY DEF One
    <3>. QED
      BY <1>1, <1>2, <1>3, <3>1, <3>2, <3>3, <3>4, <3>5 DEF One
  <2>6. CASE AtDone(l) \/ ForkCount(l)
    <3>1. /\ pc[l] \in {"atDone", "forkWait"} /\ pc'[l] \in {"bcast", "fork"} /\ call' = call
          /\ segacct' = segacct
      BY <1>5, <2>6, CountingShape
    <3>2. call[l].desc \in Desc /\ refcnt' = [refcnt EXCEPT ![call[l].desc] = @ + 1]
      BY <1>a, <2>6, <3>1 DEF AtDone, ForkCount, PlaceInv, PlaceOk, WithDesc, Taken, Waiting
    <3>3. refcnt'[k] = refcnt[k] + One(k = call[l].desc)
      BY <1>a, <1>2, <3>2 DEF One
    <3>4. Cardinality(Attachments(k)') = Cardinality(Attachments(k))
      BY <3>1 DEF Attachments
    <3>5. ~Remove(l)
      BY <3>1 DEF Remove, Goto
    <3>. QED
      BY <1>1, <1>2, <1>3, <2>1, <3>1, <3>3, <3>4, <3>5 DEF One
  <2>7. CASE RemoveKeep(l) \/ RemoveLast(l) \/ DtLast(l) \/ DtKeep(l)
    <3>1. /\ pc[l] \in {"removed", "dtWait"} /\ pc'[l] \in {"bcast", "rmMvp", "idle", "exit"}
          /\ segacct' = segacct
      BY <1>5, <2>7, CountingShape
    <3>2. call[l].desc \in Desc
      BY <1>a, <3>1 DEF PlaceInv, PlaceOk, WithDesc, Taken, Waiting
    <3>3. refcnt'[k] = refcnt[k] - One(k = call[l].desc)
      BY <1>a, <1>2, <2>7, <3>2 DEF RemoveKeep, RemoveLast, DtLast, DtKeep, One
    <3>4. Cardinality(Attachments(k)') = Cardinality(Attachments(k))
      BY <3>1 DEF Attachments
    <3>5. ~Remove(l)
      BY <3>1 DEF Remove, Goto
    <3>. QED
      BY <1>1, <1>2, <1>3, <2>1, <3>1, <3>3, <3>4, <3>5 DEF One
  <2>. QED
    BY <1>5, <2>2, <2>3, <2>4, <2>5, <2>6, <2>7 DEF Counting
<1>. QED
  BY <1>4, <1>5

(* The steps that make or release memory, or that come to do so.           *)
LEMMA MemoryMoves ==
  ASSUME IInv, NEW l \in Lwp, Call(l) \/ Step(l),
         ~GetNew(l), ~GetMake(l), ~GetFail(l), ~RmMvp(l), ~Free(l)
  PROVE  /\ memory' = memory /\ allocated' = allocated
         /\ pc[l] \notin {"getMake", "free"} /\ pc'[l] \notin {"getMake", "free"}
<1>a. TypeInv
  BY DEF IInv
<1>1. memory' = memory
  <2>1. CASE Call(l)
    BY <2>1, Zenon DEF Call, descVars
  <2>2. CASE WaitBusy(l) \/ Broadcast(l) \/ GetExisting(l) \/ GetWoken(l) \/ GetCheck(l) \/ GetRefuse(l)
             \/ ConvLookup(l) \/ ConvTake(l) \/ ConvCheck(l) \/ ConvRelease(l)
    BY <2>2 DEF WaitBusy, Broadcast, GetExisting, GetWoken, GetCheck, GetRefuse, ConvLookup, ConvTake,
                ConvCheck, ConvRelease, descVars
  <2>3. CASE AtAllowed(l) \/ AtFail(l) \/ AtMap(l) \/ AtDone(l) \/ Lock(l) \/ Unlock(l) \/ Remove(l)
             \/ RemoveKeep(l) \/ RemoveLast(l)
    BY <2>3 DEF AtAllowed, AtFail, AtMap, AtDone, Lock, Unlock, Remove, RemoveKeep, RemoveLast, descVars
  <2>4. CASE DtFind(l) \/ ExitNext(l) \/ DtDel(l) \/ DtLast(l) \/ DtKeep(l) \/ ForkAdd(l) \/ ForkCount(l)
             \/ ForkDone(l)
    BY <2>4 DEF DtFind, ExitNext, DtDel, DtLast, DtKeep, ForkAdd, ForkCount, ForkDone, descVars
  <2>. QED
    BY <2>1, <2>2, <2>3, <2>4 DEF Step
<1>2. pc[l] # "getMake"
  BY <1>a, MakeMoves
<1>3. pc[l] # "free"
  <2>1. CASE Call(l)
    BY <2>1, <1>a, CallShape DEF IInv
  <2>2. CASE Step(l)
    BY <2>2 DEF Step, WaitBusy, Broadcast, GetExisting, GetWoken, GetCheck, GetNew, GetRefuse, GetMake,
       GetFail, ConvLookup, ConvTake, ConvCheck, ConvRelease, AtAllowed, AtFail, AtMap, AtDone, Lock,
       Unlock, Remove, RemoveKeep, RemoveLast, RmMvp, DtFind, ExitNext, DtDel, DtLast, DtKeep, ForkAdd,
       ForkCount, ForkDone, Goto, Return
  <2>. QED
    BY <2>1, <2>2
<1>4. SlotQuiet(l) \/ Remove(l)
  BY SlotMoves
<1>5. allocated' = allocated
  BY <1>4 DEF SlotQuiet, Remove
<1>6. pc'[l] # "getMake"
  BY <1>a, <1>2, <1>4, GotoShape DEF SlotQuiet, Remove, Places, WithDesc, Taken
<1>7. pc'[l] # "free"
  <2>1. RemoveLast(l) \/ DtLast(l) => pc'[l] = "rmMvp"
    BY <1>a, CountingShape DEF Counting
  <2>. QED
    BY <2>1, DyingMoves
<1>. QED
  BY <1>1, <1>2, <1>3, <1>5, <1>6, <1>7

(* Only SHM_LOCK puts a segment in core, and shm_rm_mvp takes it out.      *)
LEMMA LockMoves ==
  ASSUME IInv, NEW l \in Lwp, Call(l) \/ Step(l)
  PROVE  /\ asp' \subseteq asp \/ (Lock(l) /\ asp' = asp \cup {call[l].desc})
         /\ RmMvp(l) => asp' = asp \ {call[l].desc}
<1>0. RmMvp(l) => asp' = asp \ {call[l].desc}
  <2>1. call[l].desc \in asp => lkcnt[call[l].desc] > 0
    BY DEF IInv, LockedInv
  <2>. QED
    BY <2>1 DEF RmMvp
<1>1. CASE Call(l)
  <2>1. asp' = asp
    BY <1>1, Zenon DEF Call, descVars
  <2>. QED
    BY <1>0, <2>1
<1>2. CASE Lock(l) \/ Unlock(l) \/ RmMvp(l)
  BY <1>0, <1>2 DEF Lock, Unlock
<1>3. CASE WaitBusy(l) \/ Broadcast(l) \/ GetExisting(l) \/ GetWoken(l) \/ GetCheck(l) \/ GetNew(l)
           \/ GetRefuse(l) \/ GetMake(l) \/ GetFail(l) \/ ConvLookup(l) \/ ConvTake(l) \/ ConvCheck(l)
           \/ ConvRelease(l)
  <2>1. asp' = asp
    BY <1>3 DEF WaitBusy, Broadcast, GetExisting, GetWoken, GetCheck, GetNew, GetRefuse, GetMake, GetFail,
                ConvLookup, ConvTake, ConvCheck, ConvRelease, descVars
  <2>. QED
    BY <1>0, <2>1
<1>4. CASE AtAllowed(l) \/ AtFail(l) \/ AtMap(l) \/ AtDone(l) \/ Remove(l) \/ RemoveKeep(l)
           \/ RemoveLast(l) \/ Free(l)
  <2>1. asp' = asp
    BY <1>4 DEF AtAllowed, AtFail, AtMap, AtDone, Remove, RemoveKeep, RemoveLast, Free, descVars
  <2>. QED
    BY <1>0, <2>1
<1>5. CASE DtFind(l) \/ ExitNext(l) \/ DtDel(l) \/ DtLast(l) \/ DtKeep(l) \/ ForkAdd(l) \/ ForkCount(l)
           \/ ForkDone(l)
  <2>1. asp' = asp
    BY <1>5 DEF DtFind, ExitNext, DtDel, DtLast, DtKeep, ForkAdd, ForkCount, ForkDone, descVars
  <2>. QED
    BY <1>0, <2>1
<1>. QED
  BY <1>1, <1>2, <1>3, <1>4, <1>5 DEF Step

(* A segment that is made and not yet released has its memory.             *)
HasMemory(k) == k \in allocated /\ ~Unborn(k) /\ At(k, {"free"}) = {}

(* Memory is made once and released once.                                  *)
LEMMA MemoryKeeps ==
  ASSUME IInv, NEW l \in Lwp, Call(l) \/ Step(l)
  PROVE  MemoryInv'
<1>a. TypeInv /\ PlaceInv /\ SlotInv /\ MemoryInv /\ IdHolds /\ memory \in [Desc -> Int]
  BY DEF IInv, TypeInv, DataType
<1>b. \A m \in Lwp : m # l => pc'[m] = pc[m] /\ call'[m] = call[m]
  BY <1>a, OnlyMine DEF Alone
<1>c. \A j \in Desc : memory[j] = One(HasMemory(j)) /\ (j \in asp => HasMemory(j))
  BY <1>a DEF MemoryInv, HasMemory, One
<1>. SUFFICES ASSUME NEW k \in Desc
              PROVE  memory'[k] = One(HasMemory(k)') /\ (k \in asp' => HasMemory(k)')
  BY DEF MemoryInv, HasMemory, One
<1>1. pc[l] \in Taken => /\ call[l].desc \in Desc
                         /\ \A m \in Lwp : m # l /\ pc[m] \in Taken => call[m].desc # call[l].desc
  BY <1>a, OneHolder DEF PlaceInv, PlaceOk, WithDesc
<1>2. CASE GetNew(l)
  <2>1. PICK d \in Slot, j \in Desc : /\ j \notin allocated /\ allocated' = allocated \cup {j}
                                      /\ pc[l] = "get" /\ pc'[l] = "getMake" /\ call'[l].desc = j
    BY <1>2, <1>a, GetNewShape DEF CallIs
  <2>2. memory' = memory /\ asp' = asp
    BY <1>2 DEF GetNew
  <2>3. HasMemory(k)' <=> HasMemory(k)
    BY <1>b, <2>1 DEF HasMemory, Unborn, At
  <2>. QED
    BY <1>c, <2>2, <2>3 DEF One
<1>3. CASE GetMake(l)
  <2>1. /\ pc[l] = "getMake" /\ pc'[l] = "bcast" /\ call' = call /\ allocated' = allocated /\ asp' = asp
        /\ memory' = [memory EXCEPT ![call[l].desc] = @ + 1]
    BY <1>3, <1>a, GotoShape DEF GetMake, Places, WithDesc
  <2>2. call[l].desc \in allocated
    BY <1>a, <1>1, <2>1, ShmAssumption DEF SlotInv, SlotOk, PlaceInv, PlaceOk, WithSlot, Taken
  <2>3. CASE k = call[l].desc
    <3>1. ~HasMemory(k) /\ HasMemory(k)'
      BY <1>1, <1>b, <2>1, <2>2, <2>3 DEF HasMemory, Unborn, At, Taken
    <3>. QED
      BY <1>a, <1>c, <2>1, <2>3, <3>1 DEF One
  <2>4. CASE k # call[l].desc
    <3>1. HasMemory(k)' <=> HasMemory(k)
      BY <1>b, <2>1, <2>4 DEF HasMemory, Unborn, At
    <3>. QED
      BY <1>a, <1>c, <2>1, <2>4, <3>1 DEF One
  <2>. QED
    BY <2>3, <2>4
<1>4. CASE GetFail(l) \/ Free(l)
  <2>1. /\ pc[l] \in {"getMake", "free"} /\ pc'[l] = "bcast" /\ call' = call
        /\ allocated' = allocated \ {call[l].desc} /\ memory' = memory /\ asp' = asp
    BY <1>4, <1>a, GotoShape DEF GetFail, Free, Places, WithDesc, descVars
  <2>2. HasMemory(k)' <=> HasMemory(k)
    BY <1>b, <2>1 DEF HasMemory, Unborn, At
  <2>. QED
    BY <1>c, <2>1, <2>2 DEF One
<1>5. CASE RmMvp(l)
  <2>1. /\ pc[l] = "rmMvp" /\ pc'[l] = "free" /\ call' = call /\ allocated' = allocated
        /\ memory' = [memory EXCEPT ![call[l].desc] = @ - 1] /\ asp' = asp \ {call[l].desc}
    BY <1>5, <1>a, GotoShape, LockMoves DEF RmMvp, Places, WithDesc, Taken
  <2>2. call[l].desc \in allocated
    BY <1>a, <2>1 DEF SlotInv, SlotOk
  <2>3. CASE k = call[l].desc
    <3>1. HasMemory(k) /\ ~HasMemory(k)'
      BY <1>1, <1>b, <2>1, <2>2, <2>3 DEF HasMemory, Unborn, At, Taken
    <3>. QED
      BY <1>a, <1>c, <2>1, <2>3, <3>1 DEF One
  <2>4. CASE k # call[l].desc
    <3>1. HasMemory(k)' <=> HasMemory(k)
      BY <1>b, <2>1, <2>4 DEF HasMemory, Unborn, At
    <3>. QED
      BY <1>a, <1>c, <2>1, <2>4, <3>1 DEF One
  <2>. QED
    BY <2>3, <2>4
<1>6. CASE ~GetNew(l) /\ ~GetMake(l) /\ ~GetFail(l) /\ ~RmMvp(l) /\ ~Free(l)
  <2>1. /\ memory' = memory /\ allocated' = allocated
        /\ pc[l] \notin {"getMake", "free"} /\ pc'[l] \notin {"getMake", "free"}
    BY <1>6, MemoryMoves
  <2>2. HasMemory(k)' <=> HasMemory(k)
    BY <1>b, <2>1 DEF HasMemory, Unborn, At
  <2>3. ASSUME Lock(l), k = call[l].desc
        PROVE  HasMemory(k)
    <3>1. pc[l] = "ready" /\ k \in allocated
      BY <1>a, <2>3 DEF Lock, Goto, IdHolds, Valid
    <3>. QED
      BY <1>1, <2>3, <3>1 DEF HasMemory, Unborn, At, Taken
  <2>4. k \in asp' => HasMemory(k)
    BY <1>c, <2>3, LockMoves
  <2>. QED
    BY <1>c, <2>1, <2>2, <2>4 DEF One
<1>. QED
  BY <1>2, <1>3, <1>4, <1>5, <1>6

(* Steps other than these two locking ones, RmMvp and Free leave the count *)
(* and the locks in core alone.                                            *)
LEMMA LockQuiet ==
  ASSUME NEW l \in Lwp, Call(l) \/ Step(l), ~Lock(l), ~Unlock(l), ~RmMvp(l), ~Free(l)
  PROVE  lkcnt' = lkcnt /\ asp' = asp
<1>1. CASE Call(l)
  BY <1>1, Zenon DEF Call, descVars
<1>2. CASE WaitBusy(l) \/ Broadcast(l) \/ GetExisting(l) \/ GetWoken(l) \/ GetCheck(l) \/ GetNew(l)
           \/ GetRefuse(l) \/ GetMake(l) \/ GetFail(l) \/ ConvLookup(l) \/ ConvTake(l) \/ ConvCheck(l)
           \/ ConvRelease(l)
  BY <1>2 DEF WaitBusy, Broadcast, GetExisting, GetWoken, GetCheck, GetNew, GetRefuse, GetMake, GetFail,
              ConvLookup, ConvTake, ConvCheck, ConvRelease, descVars
<1>3. CASE AtAllowed(l) \/ AtFail(l) \/ AtMap(l) \/ AtDone(l) \/ Remove(l) \/ RemoveKeep(l)
           \/ RemoveLast(l)
  BY <1>3 DEF AtAllowed, AtFail, AtMap, AtDone, Remove, RemoveKeep, RemoveLast, descVars
<1>4. CASE DtFind(l) \/ ExitNext(l) \/ DtDel(l) \/ DtLast(l) \/ DtKeep(l) \/ ForkAdd(l) \/ ForkCount(l)
           \/ ForkDone(l)
  BY <1>4 DEF DtFind, ExitNext, DtDel, DtLast, DtKeep, ForkAdd, ForkCount, ForkDone, descVars
<1>. QED
  BY <1>1, <1>2, <1>3, <1>4 DEF Step

(* SHM_UNLOCK takes away the lock in core with the last count, and the     *)
(* memory has gone, with its lock, when shmdealloc clears the count.       *)
LEMMA LockedKeeps ==
  ASSUME IInv, NEW l \in Lwp, Call(l) \/ Step(l)
  PROVE  LockedInv'
<1>. DEFINE k == call[l].desc
<1>a. /\ lkcnt \in [Desc -> Nat] /\ asp \subseteq Desc
      /\ \A j \in asp : lkcnt[j] > 0
  BY DEF IInv, TypeInv, DataType, LockedInv
<1>b. pc[l] \in Taken => k \in Desc
  BY DEF IInv, PlaceInv, PlaceOk, WithDesc
<1>1. CASE Lock(l)
  <2>1. k \in Desc /\ lkcnt' = [lkcnt EXCEPT ![k] = @ + 1] /\ asp' = asp \cup {k}
    BY <1>1, <1>b DEF Lock, Goto, Taken
  <2>. QED
    BY <1>a, <2>1 DEF LockedInv
<1>2. CASE Unlock(l)
  <2>1. /\ k \in Desc /\ lkcnt[k] > 0 /\ lkcnt' = [lkcnt EXCEPT ![k] = @ - 1]
        /\ asp' = IF lkcnt[k] = 1 THEN asp \ {k} ELSE asp
    BY <1>2, <1>b DEF Unlock, Goto, Taken
  <2>. QED
    BY <1>a, <2>1 DEF LockedInv
<1>3. CASE RmMvp(l)
  <2>1. lkcnt' = lkcnt /\ asp' \subseteq asp
    BY <1>3 DEF RmMvp
  <2>. QED
    BY <1>a, <2>1 DEF LockedInv
<1>4. CASE Free(l)
  <2>1. k \in Desc /\ pc[l] = "free" /\ lkcnt' = [lkcnt EXCEPT ![k] = 0] /\ asp' = asp
    BY <1>4, <1>b DEF Free, Goto, Taken
  <2>2. At(k, {"free"}) # {}
    BY <2>1 DEF At
  <2>3. k \notin asp
    BY <2>1, <2>2 DEF IInv, MemoryInv
  <2>. QED
    BY <1>a, <2>1, <2>3 DEF LockedInv
<1>5. CASE ~Lock(l) /\ ~Unlock(l) /\ ~RmMvp(l) /\ ~Free(l)
  <2>1. lkcnt' = lkcnt /\ asp' = asp
    BY <1>5, LockQuiet
  <2>. QED
    BY <1>a, <2>1 DEF LockedInv
<1>. QED
  BY <1>1, <1>2, <1>3, <1>4, <1>5

-----------------------------------------------------------------------------
(***************************************************************************)
(* The theorems.                                                           *)

(* The invariant holds at the start: nothing is there.                     *)
LEMMA InitHolds ==
  ASSUME Init
  PROVE  IInv
<1>1. NoCall \in CallRec /\ NoCall.op = NULL /\ NoCall.child = NULL
  BY DEF NoCall, CallRec
<1>2. NULL \notin Calls /\ NULL \notin Desc /\ SeqMax \in Nat /\ First \subseteq Proc
  BY ShmAssumption
<1>3. \A l \in Lwp : pc[l] = "idle" /\ call[l] = NoCall
  BY DEF Init
<1>4. TypeInv
  BY <1>1, <1>2 DEF Init, TypeInv, DataType, PlaceType, Places
<1>5. PlaceInv
  BY <1>1, <1>2, <1>3 DEF PlaceInv, OpFits, PlaceOk, Calls, WithDesc, WithSlot, Taken, Waiting
<1>6. ExitInv /\ HoldInv /\ WakeInv
  BY <1>1, <1>2, <1>3 DEF Init, ExitInv, HoldInv, HasBusy, WakeInv
<1>7. SlotInv /\ IdHolds /\ DetachInv /\ ForkInv
  BY <1>3 DEF Init, SlotInv, SlotOk, IdHolds, DetachInv, ForkInv
<1>8. \A k \in Desc : /\ Attachments(k) = {} /\ Plus(k) = {} /\ Minus(k) = {} /\ ~Listed(k)
                      /\ refcnt[k] = 0 /\ memory[k] = 0
  BY <1>2, <1>3 DEF Init, Attachments, Plus, Minus, At, Listed
<1>9. DeadInv /\ RefExact
  BY <1>8, FS_EmptySet DEF DeadInv, RefExact, Plus, Minus
<1>10. MemoryInv /\ LockedInv
  BY <1>8 DEF Init, MemoryInv, LockedInv
<1>. QED
  BY <1>4, <1>5, <1>6, <1>7, <1>9, <1>10 DEF IInv

(* A step that changes nothing keeps it.                                   *)
LEMMA StutterKeeps ==
  ASSUME IInv, UNCHANGED vars
  PROVE  IInv'
<1>. USE DEF vars, descVars
<1>1. TypeInv' /\ ExitInv' /\ HoldInv'
  BY DEF IInv, TypeInv, DataType, PlaceType, ExitInv, Exiting, HoldInv, HasBusy
<1>2. PlaceInv'
  BY DEF IInv, PlaceInv, OpFits, PlaceOk
<1>3. WakeInv' /\ SlotInv' /\ IdHolds'
  BY DEF IInv, WakeInv, At, SlotInv, SlotOk, IdHolds, Valid
<1>4. DetachInv' /\ ForkInv'
  BY DEF IInv, DetachInv, ForkInv, ChildOk, RecordOk
<1>5. \A k, P : At(k, P)' = At(k, P) /\ Attachments(k)' = Attachments(k) /\ (Listed(k)' <=> Listed(k))
  BY DEF At, Attachments, Listed
<1>6. DeadInv'
  BY <1>5 DEF IInv, DeadInv, Dead, Unborn, Dying, Plus, Minus
<1>7. RefExact'
  BY <1>5 DEF IInv, RefExact
<1>8. MemoryInv' /\ LockedInv'
  BY <1>5 DEF IInv, MemoryInv, Unborn, LockedInv
<1>. QED
  BY <1>1, <1>2, <1>3, <1>4, <1>6, <1>7, <1>8 DEF IInv

(* The inductive invariant: the places of the LWPs, the one holder of      *)
(* SHM_BUSY, the slots, the records and the counts fit together.           *)
THEOREM Invariance == Spec => []IInv
<1>1. Init => IInv
  BY InitHolds
<1>2. IInv /\ [Next]_vars => IInv'
  <2>. SUFFICES ASSUME IInv, [Next]_vars
                PROVE  IInv'
    OBVIOUS
  <2>1. ASSUME NEW l \in Lwp, Call(l) \/ Step(l)
        PROVE  IInv'
    <3>1. TypeInv'
      BY <2>1, DataKeeps, PlaceTypeKeeps DEF IInv, TypeInv
    <3>. QED
      BY <2>1, <3>1, PlaceKeeps, ExitKeeps, HoldKeeps, WakeKeeps, SlotKeeps, IdKeeps, DetachKeeps,
         ForkKeeps, DeadKeeps, RefKeeps, MemoryKeeps, LockedKeeps DEF IInv
  <2>2. CASE UNCHANGED vars
    BY <2>2, StutterKeeps
  <2>. QED
    BY <2>1, <2>2 DEF Next
<1>. QED
  BY <1>1, <1>2, PTL DEF Spec

(* A segment lives as long as it is in use: kshm_refcnt is the number of   *)
(* its attachments and its identifier, whatever shmat, shmdt, shmfork,     *)
(* shmexit and IPC_RMID do at a time, and its memory is there as long and  *)
(* is released once.                                                       *)
THEOREM SegmentsLiveAsLongAsUsed == Spec => []SegmentExact
<1>1. IInv => SegmentExact
  <2>. SUFFICES ASSUME IInv
                PROVE  SegmentExact
    OBVIOUS
  <2>1. ASSUME NEW k \in Desc, Attachments(k) # {} \/ Listed(k)
        PROVE  k \in allocated /\ ~Unborn(k) /\ At(k, {"free"}) = {}
    <3>1. CASE Attachments(k) # {}
      <4>1. ~Dead(k)
        BY <3>1 DEF IInv, DeadInv
      <4>. QED
        BY <4>1 DEF Dead, Dying, At
    <3>2. CASE Listed(k)
      <4>1. PICK d \in Slot : ipcd_ent[d] = k
        BY <3>2 DEF Listed
      <4>2. k \in allocated /\ At(k, {"free"}) = {}
        BY <4>1, ShmAssumption DEF IInv, SlotInv, SlotOk, At
      <4>. QED
        BY <3>2, <4>2 DEF Listed, Unborn, At
    <3>. QED
      BY <2>1, <3>1, <3>2
  <2>2. MemoryExact
    BY <2>1 DEF IInv, MemoryInv, MemoryExact
  <2>. QED
    BY <2>2 DEF IInv, SegmentExact
<1>. QED
  BY <1>1, Invariance, PTL

(* An LWP that shmconv let through works on the segment its identifier     *)
(* names until it gives SHM_BUSY back.                                     *)
THEOREM TheIdentifierHolds == Spec => []IdHolds
<1>1. IInv => IdHolds
  BY DEF IInv
<1>. QED
  BY <1>1, Invariance, PTL

(* SHM_BUSY has one holder, and no broadcast of kshm_sv is lost: who       *)
(* sleeps for it has a holder or a broadcast to come.                      *)
THEOREM BusyIsExact == Spec => []BusyExact
<1>1. IInv => BusyExact
  <2>. SUFFICES ASSUME IInv
                PROVE  BusyExact
    OBVIOUS
  <2>1. ASSUME NEW k \in Desc
        PROVE  Cardinality({l \in Lwp : HasBusy(l, k)}) = (IF k \in busy THEN 1 ELSE 0)
    <3>. DEFINE S == {l \in Lwp : HasBusy(l, k)}
    <3>1. CASE k \in busy
      <4>1. PICK l \in Lwp : HasBusy(l, k)
        BY <3>1 DEF IInv, HoldInv
      <4>2. S = {l}
        BY <4>1 DEF IInv, HoldInv
      <4>. QED
        BY <3>1, <4>2, FS_Singleton
    <3>2. CASE k \notin busy
      <4>1. S = {}
        BY <3>2 DEF IInv, HoldInv
      <4>. QED
        BY <3>2, <4>1, FS_EmptySet
    <3>. QED
      BY <3>1, <3>2
  <2>. QED
    BY <2>1 DEF IInv, WakeInv, BusyExact
<1>. QED
  BY <1>1, Invariance, PTL

=============================================================================
