---------------------------- MODULE EngineProofs ----------------------------
(***************************************************************************)
(* Proofs about Engine: the last engine stays, an engine that a driver is  *)
(* bound to stays, and a call is woken by the engine it asked, for every   *)
(* number of processors and LWPs.  The timeout may find a processor        *)
(* anywhere on its way; what is proved holds until a processor answers     *)
(* after its call was over, from when on TLC shows each of the three fail. *)
(***************************************************************************)
EXTENDS Engine, FiniteSetTheorems, TLAPS

-----------------------------------------------------------------------------
(* The inductive invariant.                                                *)

(* The steps of a call that holds onoff_mutex, by what it is about.        *)
OnSteps  == {"onClear", "onStart", "onWait", "onWoken", "onDone"}
OffSteps == {"offWait", "offWoken"}
Inside   == OnSteps \cup OffSteps \cup {"onTest", "offTest", "offCommit"}

(* The steps at which the processor of the call may be on its way.         *)
Started  == {"onWait", "onWoken", "onDone"}

Flags == E_NOWAY \cup {"E_DRIVERBOUND"}

CpuStates == {"reset", "selfinit", "bad", "dead", "joining", "online", "up", "leaving", "offline",
              "signalled", "stopped"}

(* A call at one of the steps S is about the engine e.                     *)
Busy(e, S) == \E l \in Lwp : pc[l] \in S /\ arg[l] = e

TypeInv ==
  /\ onoffMutex \in Lwp \cup {None}
  /\ e_flags \in [Cpu -> SUBSET Flags]
  /\ nonline \in Int /\ online_engno \in Cpu /\ eng_wait \in BOOLEAN
  /\ timer \in {"off", "set", "store", "signal"}
  /\ failing \in [eng : Cpu, flags : SUBSET Flags]
  /\ tbl \in [by : {"nobody", "cpu", "test", "driver"}, eng : Cpu, flags : SUBSET Flags]
  /\ cpu \in [Cpu -> CpuStates] /\ self \in [Cpu -> Cpu]
  /\ pc \in [Lwp -> Inside \cup {"idle", "online", "offline"}]
  /\ arg \in [Lwp -> Cpu]
  /\ bound \subseteq Cpu

(* Only the holder of onoff_mutex is inside.                               *)
MutexInv == \A l \in Lwp : pc[l] \in Inside <=> onoffMutex = l

(* A processor takes itself for the engine it is, and its state says       *)
(* which call it is about and what its flags are.  E_BAD says nothing but  *)
(* that nobody changes the engine again: online_failure, which sets it     *)
(* without a lock, may have undone the other flags.                        *)
CpuOk(c) ==
  /\ self[c] = c
  /\ Coming(c) => Busy(c, Started) /\ "E_SHUTDOWN" \notin e_flags[c]
  /\ cpu[c] = "joining" => tbl.by = "cpu" /\ tbl.eng = c
  /\ cpu[c] \in {"leaving", "offline"} => Busy(c, {"offWait"})
  /\ cpu[c] = "bad" => "E_BAD" \in e_flags[c]
  /\ cpu[c] = "dead" =>
       "E_SHUTDOWN" \notin e_flags[c] /\ ("E_BAD" \in e_flags[c] \/ Busy(c, {"onWait"}))
  /\ cpu[c] \in {"leaving", "offline", "signalled", "stopped"} => "E_BAD" \notin e_flags[c]
  /\ "E_BAD" \notin e_flags[c] =>
       (cpu[c] \in {"online", "up", "leaving"} <=> "E_OFFLINE" \notin e_flags[c])
  /\ cpu[c] \in {"up", "leaving"} =>
       ("E_SHUTDOWN" \in e_flags[c] <=> Busy(c, {"offWait"}))
  /\ c \in bound =>
       /\ cpu[c] \in {"online", "up"} /\ "E_SHUTDOWN" \notin e_flags[c]
       /\ "E_BAD" \in e_flags[c] \/ "E_DRIVERBOUND" \in e_flags[c]

CpuInv == \A c \in Cpu : CpuOk(c)

(* Who holds eng_tbl_mutex, and what a flag that is loaded says of those   *)
(* that are there.                                                         *)
TblInv ==
  /\ tbl.by # "nobody" => "E_SHUTDOWN" \notin e_flags[tbl.eng]
  /\ tbl.by = "cpu" => cpu[tbl.eng] = "joining" /\ "E_SHUTDOWN" \notin tbl.flags
  /\ tbl.by \in {"test", "driver"} => cpu[tbl.eng] \in {"online", "up"}
  /\ tbl.by = "driver" =>
       /\ "E_SHUTDOWN" \notin tbl.flags
       /\ "E_BAD" \in tbl.flags => "E_BAD" \in e_flags[tbl.eng]
       /\ "E_OFFLINE" \in tbl.flags => "E_BAD" \in tbl.flags

(* A processor that has not come and is known not to.                      *)
GivenUp(e) ==
  cpu[e] \in {"reset", "selfinit", "joining", "bad", "dead"} => "E_BAD" \in e_flags[e]

(* What a call knows of the engine it is about.                            *)
CallOk(l) ==
  /\ pc[l] \in {"onClear", "onStart"} =>
       /\ cpu[arg[l]] \in {"signalled", "stopped"}
       /\ "E_SHUTDOWN" \notin e_flags[arg[l]]
  /\ pc[l] \in {"onStart", "onWait", "onWoken", "onDone"} => online_engno = arg[l]
  /\ pc[l] = "onStart" => ~eng_wait
  /\ pc[l] \in Started =>
       cpu[arg[l]] \in {"reset", "selfinit", "joining", "bad", "dead", "online", "up"}
  /\ pc[l] = "onWait" /\ eng_wait => GivenUp(arg[l])
  /\ pc[l] \in {"onWoken", "onDone"} => GivenUp(arg[l])
  /\ pc[l] = "offCommit" => cpu[arg[l]] = "up" /\ "E_BAD" \notin e_flags[arg[l]]
  /\ pc[l] = "offWait" =>
       /\ cpu[arg[l]] \in {"up", "leaving", "offline", "signalled", "stopped"}
       /\ "E_BAD" \notin e_flags[arg[l]]
       /\ eng_wait => cpu[arg[l]] \in {"signalled", "stopped"}
  /\ pc[l] = "offWoken" => cpu[arg[l]] \in {"signalled", "stopped"}

CallInv == \A l \in Lwp : CallOk(l)

(* The callout is there only while the call that has set it has not        *)
(* cancelled it, and works on the engine of that call.                     *)
TimerInv ==
  /\ timer # "off" => Busy(online_engno, {"onWait", "onWoken"})
  /\ timer = "store" => failing.eng = online_engno /\ "E_SHUTDOWN" \notin failing.flags
  /\ timer = "signal" => GivenUp(online_engno)

(* The engines nonline may count: those that dispatch, without one that is *)
(* coming and not counted yet, with one that is going and still counted.   *)
Backed == {e \in Cpu : Busy(e, OffSteps) \/ (Dispatches(e) /\ ~Busy(e, OnSteps))}

CountInv ==
  /\ nonline >= 1 /\ nonline <= Cardinality(Backed)
  /\ \A l \in Lwp : pc[l] \in OffSteps \cup {"offCommit"} => nonline >= 2

(* What is known as long as no processor has answered after its call.      *)
Known == CpuInv /\ TblInv /\ CallInv /\ TimerInv /\ CountInv

Good == TypeInv /\ MutexInv /\ Known

IInv == TypeInv /\ MutexInv /\ (late \/ Known)

-----------------------------------------------------------------------------
(* Lemmas about the operators.                                             *)

(* Which engine is Busy, when l is the only LWP that can be inside.        *)
BusyOnly(l) ==
  \A e \in Cpu :
    /\ Busy(e, {"onWait"}) <=> pc[l] = "onWait" /\ arg[l] = e
    /\ Busy(e, Started) <=> pc[l] \in Started /\ arg[l] = e
    /\ Busy(e, {"offWait"}) <=> pc[l] = "offWait" /\ arg[l] = e
    /\ Busy(e, {"onWait", "onWoken"}) <=> pc[l] \in {"onWait", "onWoken"} /\ arg[l] = e
    /\ Busy(e, OnSteps) <=> pc[l] \in OnSteps /\ arg[l] = e
    /\ Busy(e, OffSteps) <=> pc[l] \in OffSteps /\ arg[l] = e

(* Nobody but the holder of onoff_mutex is inside.                         *)
LEMMA HolderIsBusy ==
  ASSUME MutexInv, NEW l \in Lwp, onoffMutex \in {l, None}
  PROVE  BusyOnly(l)
<1>1. \A m \in Lwp : pc[m] \in Inside => m = l
  BY EngineAssumption DEF MutexInv
<1>. QED
  BY <1>1 DEF BusyOnly, Busy, Inside, Started, OnSteps, OffSteps

(* The same after a step.                                                  *)
LEMMA HolderIsBusyNext ==
  ASSUME MutexInv', NEW l \in Lwp, onoffMutex' \in {l, None}
  PROVE  BusyOnly(l)'
<1>1. \A m \in Lwp : pc'[m] \in Inside => m = l
  BY EngineAssumption DEF MutexInv
<1>. QED
  BY <1>1 DEF BusyOnly, Busy, Inside, Started, OnSteps, OffSteps

(* A step of an LWP, other than a new call, finds onoff_mutex free or its  *)
(* own and leaves it so.                                                   *)
LEMMA StepOfHolder ==
  ASSUME TypeInv, MutexInv, NEW l \in Lwp, LwpStep(l)
  PROVE  onoffMutex \in {l, None} /\ onoffMutex' \in {l, None}
<1>1. CASE Lock(l)
  BY <1>1 DEF Lock
<1>2. CASE Wait(l) \/ OnTest(l) \/ OnClear(l) \/ OnStart(l) \/ Untimeout(l)
           \/ OffTest(l) \/ OffCommit(l)
  <2>1. pc[l] \in Inside /\ UNCHANGED onoffMutex
    BY <1>2 DEF Wait, OnTest, OnClear, OnStart, Untimeout, OffTest, OffCommit, Goto, Inside,
                OnSteps, OffSteps
  <2>. QED
    BY <2>1 DEF MutexInv
<1>3. CASE OnRefuse(l) \/ OnDone(l) \/ OffRefuse(l) \/ OffBusy(l) \/ OffDone(l)
  <2>1. pc[l] \in Inside /\ onoffMutex' = None
    BY <1>3 DEF OnRefuse, OnDone, OffRefuse, OffBusy, OffDone, Return, Goto, Inside,
                OnSteps, OffSteps
  <2>. QED
    BY <2>1 DEF MutexInv
<1>. QED
  BY <1>1, <1>2, <1>3 DEF LwpStep

(* An engine that dispatches is one whose processor runs it and that has   *)
(* not been asked to go.                                                   *)
LEMMA DispatchesIsUp ==
  ASSUME TypeInv, CpuInv, NEW e \in Cpu
  PROVE  Dispatches(e) <=> /\ cpu[e] \in {"online", "up"}
                             /\ "E_BAD" \notin e_flags[e] /\ "E_SHUTDOWN" \notin e_flags[e]
<1>1. Dispatches(e) <=> e_flags[e] \cap E_NOWAY = {} /\ cpu[e] \in {"online", "up"}
  BY DEF Dispatches, CpuInv, CpuOk
<1>2. cpu[e] \in {"online", "up"} /\ "E_BAD" \notin e_flags[e] => "E_OFFLINE" \notin e_flags[e]
  BY DEF CpuInv, CpuOk
<1>3. e_flags[e] \cap E_NOWAY = {} <=>
        /\ "E_OFFLINE" \notin e_flags[e] /\ "E_BAD" \notin e_flags[e]
        /\ "E_SHUTDOWN" \notin e_flags[e]
  BY DEF E_NOWAY
<1>. QED
  BY <1>1, <1>2, <1>3

(* The same after a step.                                                  *)
LEMMA DispatchesIsUpNext ==
  ASSUME TypeInv', CpuInv', NEW e \in Cpu
  PROVE  Dispatches(e)' <=> /\ cpu'[e] \in {"online", "up"}
                             /\ "E_BAD" \notin e_flags'[e] /\ "E_SHUTDOWN" \notin e_flags'[e]
<1>1. Dispatches(e)' <=> e_flags'[e] \cap E_NOWAY = {} /\ cpu'[e] \in {"online", "up"}
  BY DEF Dispatches, CpuInv, CpuOk
<1>2. cpu'[e] \in {"online", "up"} /\ "E_BAD" \notin e_flags'[e] => "E_OFFLINE" \notin e_flags'[e]
  BY DEF CpuInv, CpuOk
<1>3. e_flags'[e] \cap E_NOWAY = {} <=>
        /\ "E_OFFLINE" \notin e_flags'[e] /\ "E_BAD" \notin e_flags'[e]
        /\ "E_SHUTDOWN" \notin e_flags'[e]
  BY DEF E_NOWAY
<1>. QED
  BY <1>1, <1>2, <1>3

(* nonline is bounded by the number of a finite set of engines.            *)
LEMMA BackedFinite ==
  /\ IsFiniteSet(Backed) /\ Cardinality(Backed) \in Nat
  /\ IsFiniteSet(Backed') /\ Cardinality(Backed') \in Nat
<1>1. Backed \subseteq Cpu /\ Backed' \subseteq Cpu
  BY DEF Backed
<1>. QED
  BY <1>1, EngineAssumption, FS_Subset, FS_CardinalityType DEF EngineAssumption

-----------------------------------------------------------------------------
(* The invariant holds at first.                                           *)
LEMMA InitInv == Init => IInv
<1>. SUFFICES ASSUME Init PROVE IInv
  OBVIOUS
<1>. USE EngineAssumption DEF EngineAssumption
<1>1. TypeInv
  <2>1. e_flags \in [Cpu -> SUBSET Flags] /\ cpu \in [Cpu -> CpuStates] /\ self \in [Cpu -> Cpu]
    BY DEF Init, Flags, CpuStates, E_NOWAY
  <2>2. /\ failing \in [eng : Cpu, flags : SUBSET Flags]
        /\ tbl \in [by : {"nobody", "cpu", "test", "driver"}, eng : Cpu, flags : SUBSET Flags]
    BY DEF Init, Nothing, Free
  <2>3. pc \in [Lwp -> Inside \cup {"idle", "online", "offline"}] /\ arg \in [Lwp -> Cpu]
    BY DEF Init
  <2>4. /\ onoffMutex \in Lwp \cup {None} /\ nonline \in Int /\ online_engno \in Cpu
        /\ timer \in {"off", "set", "store", "signal"}
    BY DEF Init
  <2>5. eng_wait \in BOOLEAN
    BY DEF Init
  <2>6. bound \subseteq Cpu
    BY DEF Init
  <2>. QED
    BY <2>1, <2>2, <2>3, <2>4, <2>5, <2>6 DEF TypeInv
<1>2. MutexInv
  BY DEF Init, MutexInv, Inside, OnSteps, OffSteps
<1>3. \A e \in Cpu : ~Busy(e, {"offWait"})
  BY DEF Init, Busy
<1>4. CpuInv
  BY <1>3 DEF Init, CpuInv, CpuOk, Coming, E_NOWAY
<1>8. TblInv
  BY DEF Init, TblInv, Free
<1>5. CallInv
  BY DEF Init, CallInv, CallOk, Started
<1>6. TimerInv
  BY DEF Init, TimerInv
<1>7. CountInv
  <2>1. BOOTENG \in Backed
    <3>1. Dispatches(BOOTENG)
      BY DEF Init, Dispatches, E_NOWAY
    <3>2. ~Busy(BOOTENG, OnSteps)
      BY DEF Init, Busy, OnSteps
    <3>. QED
      BY <3>1, <3>2 DEF Backed
  <2>2. Cardinality(Backed) # 0
    BY <2>1, BackedFinite, FS_EmptySet
  <2>. QED
    BY <2>2, BackedFinite DEF Init, CountInv, OffSteps
<1>. QED
  BY <1>1, <1>2, <1>4, <1>5, <1>6, <1>7, <1>8 DEF IInv, Known

-----------------------------------------------------------------------------
(* Every step keeps the invariant.                                         *)

(* The steps of the processors and of the callout, and of drivers.         *)
OtherStep == Timer \/ DriverStep \/ \E c \in Cpu : CpuStep(c) \/ DisableOffline(c)

(* None of them touches an LWP, onoff_mutex, nonline or online_engno.      *)
LEMMA OtherFrame == OtherStep => UNCHANGED <<onoffMutex, nonline, online_engno, lwpVars, late>>
  BY DEF OtherStep, history, DriverStep, DisableLoad, DisableStore, Timer, Fire, FailStore, FailSignal, CpuStep, Start, Hang, DetectBad, SignalBad,
         Disponline, SignalOnline, OfflineSelf, Dispoffline, SignalOffline, Stop, DisableOffline, Run

(* Every step is by an LWP that holds onoff_mutex or takes it, a new call, *)
(* or one of the others.                                                   *)
LEMMA StepCases ==
  ASSUME [Next]_vars
  PROVE  \/ \E l \in Lwp : LwpStep(l)
         \/ \E l \in Lwp, e \in Cpu, op \in {"online", "offline"} : Call(l, e, op)
         \/ OtherStep
         \/ UNCHANGED vars
  BY DEF Next, OtherStep

(* A processor that answers late once has done so for good.                *)
LEMMA LateStays == [Next]_vars /\ ~late' => ~late
<1>. SUFFICES ASSUME [Next]_vars, late PROVE late'
  OBVIOUS
<1>1. ASSUME NEW l \in Lwp, LwpStep(l) PROVE late'
  BY <1>1 DEF LwpStep, Lock, Wait, OnRefuse, OnTest, OnClear, OnStart, Untimeout, OnDone, NoteLate,
       OffRefuse, OffTest, OffBusy, OffCommit, OffDone, history
<1>2. ASSUME NEW l \in Lwp, NEW e \in Cpu, NEW op \in {"online", "offline"}, Call(l, e, op)
      PROVE  late'
  BY <1>2 DEF Call, history
<1>. QED
  BY <1>1, <1>2, OtherFrame, StepCases DEF vars, history

(* Every step keeps the types.                                             *)
LEMMA TypeNext == TypeInv /\ [Next]_vars => TypeInv'
<1>. SUFFICES ASSUME TypeInv, [Next]_vars PROVE TypeInv'
  OBVIOUS
<1>. USE DEF TypeInv, toVars, history
<1>1. ASSUME NEW l \in Lwp, LwpStep(l) PROVE TypeInv'
  <2>. USE EngineAssumption DEF EngineAssumption, Goto, Return, NoteLate, cpuVars, Inside, OnSteps, OffSteps
  <2>1. CASE Lock(l) \/ Wait(l)
    BY <2>1 DEF Lock, Wait
  <2>2. CASE OnRefuse(l)
    BY <2>2 DEF OnRefuse
  <2>9. CASE OnClear(l)
    BY <2>9 DEF OnClear
  <2>8. CASE OnTest(l)
    BY <2>8 DEF OnTest, SetFlags
  <2>3. CASE OnStart(l) \/ Untimeout(l)
    BY <2>3 DEF OnStart, Untimeout, CpuStates
  <2>4. CASE OnDone(l)
    BY <2>4 DEF OnDone
  <2>5. CASE OffRefuse(l) \/ OffTest(l) \/ OffBusy(l)
    BY <2>5 DEF OffRefuse, OffTest, OffBusy
  <2>6. CASE OffCommit(l)
    BY <2>6 DEF OffCommit, SetFlags, Flags, E_NOWAY
  <2>7. CASE OffDone(l)
    BY <2>7 DEF OffDone
  <2>. QED
    BY <1>1, <2>1, <2>2, <2>3, <2>4, <2>5, <2>6, <2>7, <2>8, <2>9 DEF LwpStep
<1>2. ASSUME NEW l \in Lwp, NEW e \in Cpu, NEW op \in {"online", "offline"}, Call(l, e, op)
      PROVE  TypeInv'
  BY <1>2 DEF Call, cpuVars
<1>3. CASE Timer
  <2>1. CASE Fire
    BY <2>1 DEF Fire, cpuVars, lwpVars
  <2>2. CASE FailStore
    <3>1. failing.eng \in Cpu /\ failing.flags \cup {"E_BAD"} \in SUBSET Flags
      BY DEF Flags, E_NOWAY
    <3>2. failing' \in [eng : Cpu, flags : SUBSET Flags]
      BY <2>2, EngineAssumption DEF FailStore, Nothing, EngineAssumption
    <3>. QED
      BY <2>2, <3>1, <3>2 DEF FailStore, SetFlags, cpuVars, lwpVars
  <2>3. CASE FailSignal
    BY <2>3 DEF FailSignal, cpuVars, lwpVars
  <2>. QED
    BY <1>3, <2>1, <2>2, <2>3 DEF Timer
<1>4. ASSUME NEW c \in Cpu, CpuStep(c) PROVE TypeInv'
  <2>. USE DEF Run, cpuVars, lwpVars, CpuStates
  <2>1. CASE Start(c)
    BY <2>1 DEF Start
  <2>2. CASE Hang(c) \/ SignalBad(c) \/ SignalOnline(c)
    BY <2>2 DEF Hang, SignalBad, SignalOnline
  <2>3. CASE OfflineSelf(c) \/ SignalOffline(c) \/ Stop(c)
    BY <2>3 DEF OfflineSelf, SignalOffline, Stop
  <2>4. CASE DetectBad(c) \/ Dispoffline(c)
    BY <2>4 DEF DetectBad, Dispoffline, SetFlags, Flags, E_NOWAY
  <2>5. CASE Disponline(c)
    <3>1. Free \in [by : {"nobody", "cpu", "test", "driver"}, eng : Cpu, flags : SUBSET Flags]
      BY EngineAssumption DEF EngineAssumption, Free
    <3>. QED
      BY <2>5, <3>1 DEF Disponline, TblTake, TblStore, SetFlags
  <2>. QED
    BY <1>4, <2>1, <2>2, <2>3, <2>4, <2>5 DEF CpuStep
<1>5. ASSUME NEW e \in Cpu, DisableOffline(e) PROVE TypeInv'
  BY <1>5 DEF DisableOffline, cpuVars, lwpVars
<1>6. CASE DriverStep
  <2>1. CASE DisableLoad
    BY <2>1 DEF DisableLoad, cpuVars, lwpVars
  <2>2. CASE DisableStore
    <3>1. Free \in [by : {"nobody", "cpu", "test", "driver"}, eng : Cpu, flags : SUBSET Flags]
      BY EngineAssumption DEF EngineAssumption, Free
    <3>2. tbl.eng \in Cpu /\ (tbl.flags \ {}) \cup {"E_DRIVERBOUND"} \in SUBSET Flags
      BY DEF Flags
    <3>. QED
      BY <2>2, <3>1, <3>2 DEF DisableStore, TblStore, SetFlags, cpuVars, lwpVars
  <2>. QED
    BY <1>6, <2>1, <2>2 DEF DriverStep
<1>7. CASE UNCHANGED vars
  BY <1>7 DEF vars, cpuVars, lwpVars
<1>. QED
  BY <1>1, <1>2, <1>3, <1>4, <1>5, <1>6, <1>7, StepCases DEF OtherStep

(* Every step keeps onoff_mutex with the LWP that is inside.               *)
LEMMA MutexNext == TypeInv /\ MutexInv /\ [Next]_vars => MutexInv'
<1>. SUFFICES ASSUME TypeInv, MutexInv, [Next]_vars PROVE MutexInv'
  OBVIOUS
<1>. USE EngineAssumption DEF EngineAssumption
<1>1. ASSUME NEW l \in Lwp, LwpStep(l) PROVE MutexInv'
  <2>1. CASE Lock(l)
    BY <2>1 DEF Lock, Goto, MutexInv, TypeInv, Inside
  <2>2. CASE Wait(l) \/ OnTest(l) \/ OnClear(l) \/ OnStart(l) \/ Untimeout(l)
             \/ OffTest(l) \/ OffCommit(l)
    <3>1. /\ pc[l] \in Inside /\ UNCHANGED onoffMutex
          /\ \E to \in Inside : pc' = [pc EXCEPT ![l] = to]
      BY <2>2 DEF Wait, OnTest, OnClear, OnStart, Untimeout, OffTest, OffCommit, Goto, Inside,
                  OnSteps, OffSteps
    <3>. QED
      BY <3>1 DEF MutexInv, TypeInv
  <2>3. CASE OnRefuse(l) \/ OnDone(l) \/ OffRefuse(l) \/ OffBusy(l) \/ OffDone(l)
    <3>1. pc[l] \in Inside /\ onoffMutex' = None /\ pc' = [pc EXCEPT ![l] = "idle"]
      BY <2>3 DEF OnRefuse, OnDone, OffRefuse, OffBusy, OffDone, Return, Goto, Inside,
                  OnSteps, OffSteps
    <3>. QED
      BY <3>1 DEF MutexInv, TypeInv, Inside, OnSteps, OffSteps
  <2>. QED
    BY <1>1, <2>1, <2>2, <2>3 DEF LwpStep
<1>2. ASSUME NEW l \in Lwp, NEW e \in Cpu, NEW op \in {"online", "offline"}, Call(l, e, op)
      PROVE  MutexInv'
  BY <1>2 DEF Call, MutexInv, TypeInv, Inside, OnSteps, OffSteps
<1>3. CASE OtherStep
  BY <1>3, OtherFrame DEF lwpVars, MutexInv
<1>4. CASE UNCHANGED vars
  BY <1>4 DEF vars, lwpVars, MutexInv
<1>. QED
  BY <1>1, <1>2, <1>3, <1>4, StepCases

(* What the steps of the others leave of the engines that are Busy.        *)
LEMMA BusyKept ==
  ASSUME UNCHANGED <<pc, arg>>, NEW e
  PROVE  /\ Busy(e, {"onWait"})' <=> Busy(e, {"onWait"})
         /\ Busy(e, Started)' <=> Busy(e, Started)
         /\ Busy(e, {"offWait"})' <=> Busy(e, {"offWait"})
         /\ Busy(e, {"onWait", "onWoken"})' <=> Busy(e, {"onWait", "onWoken"})
         /\ Busy(e, OnSteps)' <=> Busy(e, OnSteps)
         /\ Busy(e, OffSteps)' <=> Busy(e, OffSteps)
  BY DEF Busy, Started, OnSteps, OffSteps

(* A new call is not about an engine yet.                                  *)
LEMMA BusyNotByCall ==
  ASSUME TypeInv, NEW l \in Lwp, NEW a \in Cpu, NEW op \in {"online", "offline"}, Call(l, a, op),
         NEW e
  PROVE  /\ Busy(e, {"onWait"})' <=> Busy(e, {"onWait"})
         /\ Busy(e, Started)' <=> Busy(e, Started)
         /\ Busy(e, {"offWait"})' <=> Busy(e, {"offWait"})
         /\ Busy(e, {"onWait", "onWoken"})' <=> Busy(e, {"onWait", "onWoken"})
         /\ Busy(e, OnSteps)' <=> Busy(e, OnSteps)
         /\ Busy(e, OffSteps)' <=> Busy(e, OffSteps)
<1>1. pc[l] = "idle" /\ pc'[l] \in {"online", "offline"}
  BY DEF Call, TypeInv
<1>2. \A m \in Lwp \ {l} : pc'[m] = pc[m] /\ arg'[m] = arg[m]
  BY DEF Call, TypeInv
<1>. QED
  BY <1>1, <1>2 DEF Busy, Started, OnSteps, OffSteps

(* A step of the callout or of a processor finds at most one LWP inside.   *)
LEMMA InsideIsOnly ==
  ASSUME MutexInv, NEW m \in Lwp, pc[m] \in Inside
  PROVE  BusyOnly(m)
  BY HolderIsBusy DEF MutexInv

(* A call keeps what is known of each processor.                           *)
LEMMA CpuNextLwp ==
  ASSUME Good, ~late', TypeInv', MutexInv', NEW l \in Lwp, LwpStep(l), NEW c \in Cpu
  PROVE  CpuOk(c)'
<1>1. BusyOnly(l) /\ BusyOnly(l)'
  BY StepOfHolder, HolderIsBusy, HolderIsBusyNext DEF Good
<1>2. CpuOk(c) /\ CallOk(l) /\ TypeInv /\ TblInv
  BY DEF Good, Known, CpuInv, CallInv
<1>. USE <1>1, <1>2 DEF CpuOk, BusyOnly, Coming, Started
<1>3. CASE Lock(l)
  BY <1>3 DEF Lock, Goto, TypeInv, cpuVars, history
<1>4. CASE Wait(l)
  BY <1>4 DEF Wait, Goto, TypeInv, cpuVars, history, CallOk, GivenUp
<1>5. CASE OnRefuse(l)
  BY <1>5 DEF OnRefuse, Return, TypeInv, cpuVars, history
<1>6. CASE OnTest(l)
  BY <1>6 DEF OnTest, Goto, SetFlags, TypeInv, cpuVars, history
<1>7. CASE OnClear(l)
  BY <1>7 DEF OnClear, Goto, TypeInv, cpuVars, history
<1>8. CASE OnStart(l)
  BY <1>8 DEF OnStart, Goto, TypeInv, cpuVars, history, CallOk
<1>9. CASE Untimeout(l)
  BY <1>9 DEF Untimeout, Goto, TypeInv, cpuVars, history
<1>10. CASE OnDone(l)
  BY <1>10 DEF OnDone, NoteLate, Return, TypeInv, cpuVars
<1>11. CASE OffRefuse(l)
  BY <1>11 DEF OffRefuse, Return, TypeInv, cpuVars, history
<1>12. CASE OffTest(l)
  BY <1>12 DEF OffTest, Goto, TypeInv, cpuVars, history
<1>13. CASE OffBusy(l)
  BY <1>13 DEF OffBusy, Return, TypeInv, cpuVars, history
<1>14. CASE OffCommit(l)
  BY <1>14 DEF OffCommit, Goto, SetFlags, TypeInv, cpuVars, history, CallOk
<1>15. CASE OffDone(l)
  BY <1>15 DEF OffDone, Return, TypeInv, cpuVars, history, CallOk
<1>. QED
  BY <1>3, <1>4, <1>5, <1>6, <1>7, <1>8, <1>9, <1>10, <1>11, <1>12, <1>13, <1>14, <1>15 DEF LwpStep

(* A processor that is starting is the one online_engno names.             *)
LEMMA StartsItself ==
  ASSUME CallInv, CpuInv, NEW c \in Cpu, Coming(c)
  PROVE  online_engno = c
<1>1. Busy(c, Started)
  BY DEF CpuInv, CpuOk
<1>. QED
  BY <1>1 DEF Busy, Started, CallInv, CallOk

(* No engine is asked to come and to go at once.                           *)
LEMMA OneWay ==
  ASSUME MutexInv, NEW c \in Cpu
  PROVE  ~(Busy(c, Started) /\ Busy(c, {"offWait"}))
<1>1. SUFFICES ASSUME Busy(c, Started), Busy(c, {"offWait"}) PROVE FALSE
  OBVIOUS
<1>2. PICK m \in Lwp : pc[m] \in Started
  BY <1>1 DEF Busy
<1>3. BusyOnly(m)
  BY <1>2, InsideIsOnly DEF Started, Inside, OnSteps
<1>. QED
  BY <1>1, <1>2, <1>3 DEF BusyOnly, Started

(* A step of a processor keeps what is known of each processor.            *)
LEMMA CpuNextCpu ==
  ASSUME Good, TypeInv', NEW c \in Cpu, CpuStep(c), NEW e \in Cpu
  PROVE  CpuOk(e)'
<1>1. CpuOk(e) /\ CpuOk(c) /\ TypeInv /\ TblInv
  BY DEF Good, Known, CpuInv
<1>2. pc' = pc /\ arg' = arg
  BY OtherFrame DEF OtherStep, lwpVars
<1>3. /\ Busy(e, {"onWait"})' <=> Busy(e, {"onWait"})
      /\ Busy(e, Started)' <=> Busy(e, Started)
      /\ Busy(e, {"offWait"})' <=> Busy(e, {"offWait"})
  BY <1>2, BusyKept
<1>4. ~(Busy(c, Started) /\ Busy(c, {"offWait"}))
  BY OneWay DEF Good
<1>5. cpu[c] \in {"reset", "selfinit"} => online_engno = c
  BY StartsItself DEF Good, Known, Coming
<1>. USE <1>1, <1>3, <1>4, <1>5 DEF CpuOk, Coming, Run, TypeInv, history
<1>6. CASE Start(c)
  BY <1>6 DEF Start
<1>7. CASE Hang(c)
  <2>1. Busy(c, Started) => Busy(c, {"onWait"}) \/ "E_BAD" \in e_flags[c]
    BY <1>7 DEF Hang, Good, Known, CallInv, CallOk, GivenUp, Busy, Started
  <2>. QED
    BY <1>7, <2>1 DEF Hang
<1>8. CASE DetectBad(c)
  BY <1>8 DEF DetectBad, SetFlags
<1>9. CASE SignalBad(c)
  BY <1>9 DEF SignalBad
<1>10. CASE Disponline(c)
  <2>1. CASE cpu[c] = "selfinit"
    BY <1>10, <2>1 DEF Disponline, TblTake, TblStore, Free
  <2>2. CASE cpu[c] = "joining"
    <3>1. tbl.eng = c /\ "E_SHUTDOWN" \notin tbl.flags
      BY <2>2 DEF TblInv
    <3>2. /\ cpu' = [cpu EXCEPT ![c] = "online"]
          /\ e_flags' = [e_flags EXCEPT ![c] = tbl.flags \ {"E_OFFLINE"}]
          /\ UNCHANGED <<self, bound>>
      BY <1>10, <2>2, <3>1 DEF Disponline, TblStore, SetFlags
    <3>. QED
      BY <2>2, <3>1, <3>2
  <2>. QED
    BY <1>10, <2>1, <2>2 DEF Disponline
<1>11. CASE SignalOnline(c)
  BY <1>11 DEF SignalOnline
<1>12. CASE OfflineSelf(c)
  <2>1. Busy(c, {"offWait"}) => "E_BAD" \notin e_flags[c]
    BY DEF Good, Known, CallInv, CallOk, Busy
  <2>. QED
    BY <1>12, <2>1 DEF OfflineSelf
<1>13. CASE Dispoffline(c)
  BY <1>13 DEF Dispoffline, SetFlags
<1>14. CASE SignalOffline(c)
  BY <1>14 DEF SignalOffline
<1>15. CASE Stop(c)
  BY <1>15 DEF Stop
<1>. QED
  BY <1>6, <1>7, <1>8, <1>9, <1>10, <1>11, <1>12, <1>13, <1>14, <1>15 DEF CpuStep

(* The callout works on an engine that is asked to come.                   *)
LEMMA FailsTheTarget ==
  ASSUME Good, timer # "off"
  PROVE  /\ online_engno \in Cpu /\ Busy(online_engno, Started)
         /\ cpu[online_engno] \in {"reset", "selfinit", "joining", "bad", "dead", "online", "up"}
<1>1. PICK l \in Lwp : pc[l] \in {"onWait", "onWoken"} /\ arg[l] = online_engno
  BY DEF Good, Known, TimerInv, Busy
<1>2. CallOk(l) /\ online_engno \in Cpu
  BY DEF Good, Known, CallInv, TypeInv
<1>. QED
  BY <1>1, <1>2 DEF CallOk, Busy, Started

(* The callout keeps what is known of each processor: it leaves E_BAD with *)
(* whatever else it may undo.                                              *)
LEMMA CpuNextTimer ==
  ASSUME Good, TypeInv', Timer, NEW e \in Cpu
  PROVE  CpuOk(e)'
<1>1. /\ Busy(e, {"onWait"})' <=> Busy(e, {"onWait"})
      /\ Busy(e, Started)' <=> Busy(e, Started)
      /\ Busy(e, {"offWait"})' <=> Busy(e, {"offWait"})
  BY OtherFrame, BusyKept DEF OtherStep, lwpVars
<1>2. CpuOk(e) /\ TypeInv
  BY DEF Good, Known, CpuInv
<1>3. CASE Fire \/ FailSignal
  BY <1>1, <1>2, <1>3 DEF Fire, FailSignal, CpuOk, Coming, cpuVars, history
<1>4. CASE FailStore
  <2>1. timer = "store" /\ failing.eng = online_engno /\ "E_SHUTDOWN" \notin failing.flags
    BY <1>4 DEF FailStore, Good, Known, TimerInv
  <2>2. /\ e_flags' = [e_flags EXCEPT ![online_engno] = failing.flags \cup {"E_BAD"}]
        /\ UNCHANGED <<cpu, self, tbl, bound>>
    BY <1>4, <2>1 DEF FailStore, SetFlags, cpuVars, history
  <2>3. /\ online_engno \in Cpu /\ Busy(online_engno, Started)
        /\ cpu[online_engno] \in {"reset", "selfinit", "joining", "bad", "dead", "online", "up"}
    BY <2>1, FailsTheTarget
  <2>4. ~(Busy(e, Started) /\ Busy(e, {"offWait"}))
    BY OneWay DEF Good
  <2>5. CASE e # online_engno
    BY <1>1, <1>2, <2>2, <2>5 DEF CpuOk, Coming, TypeInv
  <2>6. CASE e = online_engno
    <3>1. e_flags'[e] = failing.flags \cup {"E_BAD"}
      BY <1>2, <2>2, <2>3, <2>6 DEF TypeInv
    <3>. QED
      BY <1>1, <1>2, <2>1, <2>2, <2>3, <2>4, <2>6, <3>1 DEF CpuOk, Coming
  <2>. QED
    BY <2>5, <2>6
<1>. QED
  BY <1>3, <1>4 DEF Timer

(* A driver keeps what is known of each processor: what it undoes of       *)
(* online_failure's work it replaces by E_DRIVERBOUND.                     *)
LEMMA CpuNextDriver ==
  ASSUME Good, TypeInv', DriverStep \/ (\E a \in Cpu : DisableOffline(a)), NEW e \in Cpu
  PROVE  CpuOk(e)'
<1>1. /\ Busy(e, {"onWait"})' <=> Busy(e, {"onWait"})
      /\ Busy(e, Started)' <=> Busy(e, Started)
      /\ Busy(e, {"offWait"})' <=> Busy(e, {"offWait"})
  BY OtherFrame, BusyKept DEF OtherStep, lwpVars
<1>2. CpuOk(e) /\ TypeInv /\ TblInv
  BY DEF Good, Known, CpuInv
<1>3. CASE DisableLoad \/ \E a \in Cpu : DisableOffline(a)
  BY <1>1, <1>2, <1>3 DEF DisableLoad, DisableOffline, CpuOk, Coming, cpuVars, history, Free
<1>4. CASE DisableStore
  <2>1. /\ tbl.by = "driver" /\ UNCHANGED <<cpu, self>> /\ tbl' = Free
        /\ e_flags' = [e_flags EXCEPT ![tbl.eng] = (tbl.flags \ {}) \cup {"E_DRIVERBOUND"}]
        /\ bound' = bound \cup {tbl.eng} /\ tbl.eng \in Cpu
    BY <1>2, <1>4 DEF DisableStore, TblStore, SetFlags, cpuVars, TypeInv
  <2>2. /\ cpu[tbl.eng] \in {"online", "up"}
        /\ "E_SHUTDOWN" \notin e_flags[tbl.eng] /\ "E_SHUTDOWN" \notin tbl.flags
        /\ "E_OFFLINE" \in tbl.flags => "E_BAD" \in tbl.flags
    BY <1>2, <2>1 DEF TblInv
  <2>3. cpu[e] # "joining"
    BY <1>2, <2>1 DEF CpuOk
  <2>4. CASE e # tbl.eng
    BY <1>1, <1>2, <2>1, <2>3, <2>4 DEF CpuOk, Coming, TypeInv
  <2>5. CASE e = tbl.eng
    <3>1. e_flags'[e] = tbl.flags \cup {"E_DRIVERBOUND"}
      BY <1>2, <2>1, <2>5 DEF TypeInv
    <3>. QED
      BY <1>1, <1>2, <2>1, <2>2, <2>3, <2>5, <3>1 DEF CpuOk, Coming
  <2>. QED
    BY <2>4, <2>5
<1>. QED
  BY <1>3, <1>4 DEF DriverStep

(* Every step keeps what is known of each processor.                       *)
LEMMA CpuNext == Good /\ ~late' /\ TypeInv' /\ MutexInv' /\ [Next]_vars => CpuInv'
<1>. SUFFICES ASSUME Good, ~late', TypeInv', MutexInv', [Next]_vars, NEW e \in Cpu PROVE CpuOk(e)'
  BY DEF CpuInv
<1>1. ASSUME NEW l \in Lwp, LwpStep(l) PROVE CpuOk(e)'
  BY <1>1, CpuNextLwp
<1>2. CpuOk(e) /\ TypeInv
  BY DEF Good, Known, CpuInv
<1>3. ASSUME NEW l \in Lwp, NEW a \in Cpu, NEW op \in {"online", "offline"}, Call(l, a, op)
      PROVE  CpuOk(e)'
  <2>1. /\ Busy(e, {"onWait"})' <=> Busy(e, {"onWait"})
        /\ Busy(e, Started)' <=> Busy(e, Started)
        /\ Busy(e, {"offWait"})' <=> Busy(e, {"offWait"})
    BY <1>2, <1>3, BusyNotByCall
  <2>. QED
    BY <1>2, <1>3, <2>1 DEF Call, CpuOk, Coming, cpuVars, history
<1>4. CASE UNCHANGED vars
  <2>1. /\ Busy(e, {"onWait"})' <=> Busy(e, {"onWait"})
        /\ Busy(e, Started)' <=> Busy(e, Started)
        /\ Busy(e, {"offWait"})' <=> Busy(e, {"offWait"})
    BY <1>4, BusyKept DEF vars, lwpVars
  <2>. QED
    BY <1>2, <1>4, <2>1 DEF vars, cpuVars, history, CpuOk, Coming
<1>. QED
  BY <1>1, <1>3, <1>4, StepCases, CpuNextTimer, CpuNextCpu, CpuNextDriver DEF OtherStep

(* Every step keeps what the holder of eng_tbl_mutex has loaded.           *)
LEMMA TblNext == Good /\ TypeInv' /\ [Next]_vars => TblInv'
<1>. SUFFICES ASSUME Good, TypeInv', [Next]_vars PROVE TblInv'
  OBVIOUS
<1>1. TypeInv /\ TblInv /\ tbl.eng \in Cpu /\ CpuOk(tbl.eng)
  BY DEF Good, Known, TypeInv, CpuInv
<1>2. ASSUME NEW l \in Lwp, LwpStep(l) PROVE TblInv'
  <2>1. CallOk(l) /\ arg[l] \in Cpu
    BY DEF Good, Known, CallInv, TypeInv
  <2>2. CASE OnTest(l)
    BY <1>1, <2>1, <2>2 DEF OnTest, SetFlags, cpuVars, TblInv, TypeInv
  <2>3. CASE OnStart(l)
    BY <1>1, <2>1, <2>3 DEF OnStart, Goto, TblInv, CallOk, TypeInv
  <2>4. CASE OffCommit(l)
    BY <2>4 DEF OffCommit, TblInv, Free
  <2>5. CASE ~OnTest(l) /\ ~OnStart(l) /\ ~OffCommit(l)
    <3>1. UNCHANGED <<e_flags, tbl, cpu>>
      BY <1>2, <2>5 DEF LwpStep, Lock, Wait, OnRefuse, OnClear, Untimeout, OnDone, OffRefuse,
                        OffTest, OffBusy, OffDone, cpuVars
    <3>. QED
      BY <1>1, <3>1 DEF TblInv
  <2>. QED
    BY <2>2, <2>3, <2>4, <2>5
<1>3. ASSUME NEW l \in Lwp, NEW e \in Cpu, NEW op \in {"online", "offline"}, Call(l, e, op)
      PROVE  TblInv'
  BY <1>1, <1>3 DEF Call, TblInv, cpuVars
<1>4. CASE Timer
  <2>1. CASE Fire \/ FailSignal
    BY <1>1, <2>1 DEF Fire, FailSignal, TblInv, cpuVars
  <2>2. CASE FailStore
    <3>1. /\ e_flags' = [e_flags EXCEPT ![online_engno] = failing.flags \cup {"E_BAD"}]
          /\ "E_SHUTDOWN" \notin failing.flags /\ UNCHANGED <<tbl, cpu>> /\ online_engno \in Cpu
      BY <2>2 DEF FailStore, SetFlags, Good, Known, TimerInv, TypeInv, cpuVars
    <3>. QED
      BY <1>1, <3>1 DEF TblInv, TypeInv
  <2>. QED
    BY <1>4, <2>1, <2>2 DEF Timer
<1>5. ASSUME NEW c \in Cpu, CpuStep(c) PROVE TblInv'
  <2>1. CpuOk(c) /\ self[c] = c
    BY DEF Good, Known, CpuInv, CpuOk
  <2>. USE <1>1, <2>1 DEF Run, TblInv, TypeInv
  <2>2. CASE Start(c) \/ Hang(c) \/ SignalBad(c) \/ SignalOnline(c)
    BY <2>2 DEF Start, Hang, SignalBad, SignalOnline
  <2>3. CASE DetectBad(c)
    BY <2>3 DEF DetectBad, SetFlags
  <2>4. CASE Disponline(c)
    BY <2>4 DEF Disponline, TblTake, TblStore, Free, CpuOk, Coming
  <2>5. CASE OfflineSelf(c) \/ SignalOffline(c) \/ Stop(c)
    BY <2>5 DEF OfflineSelf, SignalOffline, Stop
  <2>6. CASE Dispoffline(c)
    BY <2>6 DEF Dispoffline, Free
  <2>. QED
    BY <1>5, <2>2, <2>3, <2>4, <2>5, <2>6 DEF CpuStep
<1>6. ASSUME NEW e \in Cpu, DisableOffline(e) PROVE TblInv'
  <2>1. CpuOk(e) /\ e_flags[e] \cap E_NOWAY = {}
    BY <1>6 DEF DisableOffline, Good, Known, CpuInv
  <2>2. "E_OFFLINE" \notin e_flags[e] /\ "E_BAD" \notin e_flags[e] /\ "E_SHUTDOWN" \notin e_flags[e]
    BY <2>1 DEF E_NOWAY
  <2>3. cpu[e] \in {"online", "up"}
    BY <2>1, <2>2 DEF CpuOk
  <2>. QED
    BY <1>6, <2>2, <2>3 DEF DisableOffline, TblInv, cpuVars
<1>7. CASE DriverStep
  <2>1. CASE DisableLoad
    <3>1. "E_OFFLINE" \in e_flags[tbl.eng] => "E_BAD" \in e_flags[tbl.eng]
      BY <1>1, <2>1 DEF DisableLoad, TblInv, CpuOk
    <3>. QED
      BY <1>1, <2>1, <3>1 DEF DisableLoad, TblInv, cpuVars
  <2>2. CASE DisableStore
    BY <2>2 DEF DisableStore, TblStore, TblInv, Free
  <2>. QED
    BY <1>7, <2>1, <2>2 DEF DriverStep
<1>8. CASE UNCHANGED vars
  BY <1>1, <1>8 DEF vars, cpuVars, TblInv
<1>. QED
  BY <1>2, <1>3, <1>4, <1>5, <1>6, <1>7, <1>8, StepCases DEF OtherStep

(* A call keeps what it and the others know of their engines.              *)
LEMMA CallNextLwp ==
  ASSUME Good, TypeInv', MutexInv', NEW l \in Lwp, LwpStep(l), NEW m \in Lwp
  PROVE  CallOk(m)'
<1>1. BusyOnly(l) /\ onoffMutex' \in {l, None}
  BY StepOfHolder, HolderIsBusy DEF Good
<1>2. CpuOk(arg[l]) /\ CallOk(l) /\ TypeInv /\ arg[l] \in Cpu
  BY DEF Good, Known, CpuInv, CallInv, TypeInv
<1>3. CASE m # l
  <2>1. pc'[m] \notin Inside
    BY <1>1, <1>3, EngineAssumption DEF MutexInv, EngineAssumption
  <2>. QED
    BY <2>1 DEF CallOk, Inside, Started, OnSteps, OffSteps
<1>4. ASSUME m = l PROVE CallOk(l)'
  <2>. USE <1>1, <1>2 DEF CallOk, GivenUp, TypeInv, Started
  <2>3. CASE Lock(l)
    BY <2>3 DEF Lock, Goto
  <2>4. CASE Wait(l)
    BY <2>4 DEF Wait, Goto, cpuVars
  <2>5. CASE OnRefuse(l) \/ OnDone(l) \/ OffRefuse(l) \/ OffBusy(l) \/ OffDone(l)
    BY <2>5 DEF OnRefuse, OnDone, OffRefuse, OffBusy, OffDone, Return
  <2>6. CASE OnTest(l)
    BY <2>6 DEF OnTest, Goto, SetFlags, cpuVars, CpuOk, Coming, BusyOnly, CpuStates
  <2>7. CASE OnClear(l)
    BY <2>7 DEF OnClear, Goto, cpuVars
  <2>8. CASE OnStart(l)
    BY <2>8 DEF OnStart, Goto
  <2>9. CASE Untimeout(l)
    BY <2>9 DEF Untimeout, Goto, cpuVars
  <2>10. CASE OffTest(l)
    BY <2>10 DEF OffTest, Goto, cpuVars, CpuOk, Coming, BusyOnly
  <2>11. CASE OffCommit(l)
    BY <2>11 DEF OffCommit, Goto, SetFlags, cpuVars
  <2>. QED
    BY <1>4, <2>3, <2>4, <2>5, <2>6, <2>7, <2>8, <2>9, <2>10, <2>11 DEF LwpStep
<1>. QED
  BY <1>3, <1>4

(* A step of a processor keeps what a call knows of its engine.            *)
LEMMA CallNextCpu ==
  ASSUME Good, TypeInv', NEW c \in Cpu, CpuStep(c), NEW m \in Lwp, pc[m] \in Inside
  PROVE  CallOk(m)'
<1>1. BusyOnly(m)
  BY InsideIsOnly DEF Good
<1>2. pc' = pc /\ arg' = arg /\ online_engno' = online_engno
  BY OtherFrame DEF OtherStep, lwpVars
<1>3. CpuOk(c) /\ CpuOk(arg[m]) /\ CallOk(m) /\ TypeInv /\ TblInv /\ arg[m] \in Cpu
  BY DEF Good, Known, CpuInv, CallInv, TypeInv
<1>. USE <1>1, <1>2, <1>3 DEF CallOk, GivenUp, Run, TypeInv, CpuOk, Coming, Started, BusyOnly
<1>6. CASE Start(c)
  BY <1>6 DEF Start
<1>7. CASE Hang(c)
  BY <1>7 DEF Hang
<1>8. CASE DetectBad(c)
  BY <1>8 DEF DetectBad, SetFlags
<1>9. CASE SignalBad(c)
  BY <1>9 DEF SignalBad
<1>10. CASE Disponline(c)
  <2>1. CASE cpu[c] = "selfinit"
    BY <1>10, <2>1 DEF Disponline, TblTake
  <2>2. CASE cpu[c] = "joining"
    <3>1. tbl.eng = c /\ "E_SHUTDOWN" \notin tbl.flags
      BY <2>2 DEF TblInv
    <3>2. /\ cpu' = [cpu EXCEPT ![c] = "online"]
          /\ e_flags' = [e_flags EXCEPT ![c] = tbl.flags \ {"E_OFFLINE"}]
          /\ UNCHANGED eng_wait
      BY <1>10, <2>2, <3>1 DEF Disponline, TblStore, SetFlags
    <3>. QED
      BY <2>2, <3>1, <3>2
  <2>. QED
    BY <1>10, <2>1, <2>2 DEF Disponline
<1>11. CASE SignalOnline(c)
  BY <1>11 DEF SignalOnline
<1>12. CASE OfflineSelf(c)
  BY <1>12 DEF OfflineSelf
<1>13. CASE Dispoffline(c)
  BY <1>13 DEF Dispoffline, SetFlags
<1>14. CASE SignalOffline(c)
  BY <1>14 DEF SignalOffline
<1>15. CASE Stop(c)
  BY <1>15 DEF Stop
<1>. QED
  BY <1>6, <1>7, <1>8, <1>9, <1>10, <1>11, <1>12, <1>13, <1>14, <1>15 DEF CpuStep

(* A step of the callout keeps what a call knows of its engine.            *)
LEMMA CallNextTimer ==
  ASSUME Good, TypeInv', Timer, NEW m \in Lwp, pc[m] \in Inside
  PROVE  CallOk(m)'
<1>1. BusyOnly(m)
  BY InsideIsOnly DEF Good
<1>2. /\ CallOk(m) /\ TypeInv /\ TimerInv
      /\ arg[m] \in Cpu /\ online_engno \in Cpu
  BY DEF Good, Known, CallInv, TypeInv
<1>3. pc[m] \in {"onWait", "onWoken"} /\ arg[m] = online_engno
  BY <1>1, <1>2 DEF Timer, Fire, FailStore, FailSignal, TimerInv, BusyOnly
<1>4. CASE Fire
  BY <1>2, <1>4 DEF Fire, CallOk, GivenUp, cpuVars, lwpVars
<1>5. CASE FailStore
  <2>1. e_flags' = [e_flags EXCEPT ![online_engno] = failing.flags \cup {"E_BAD"}]
    BY <1>2, <1>5 DEF FailStore, SetFlags, TimerInv
  <2>. QED
    BY <1>2, <1>3, <1>5, <2>1 DEF FailStore, CallOk, GivenUp, cpuVars, lwpVars, TypeInv
<1>6. CASE FailSignal
  BY <1>2, <1>3, <1>6 DEF FailSignal, TimerInv, CallOk, GivenUp, cpuVars, lwpVars
<1>. QED
  BY <1>4, <1>5, <1>6 DEF Timer

(* A driver keeps what a call knows of its engine.                         *)
LEMMA CallNextDriver ==
  ASSUME Good, TypeInv', DriverStep \/ (\E a \in Cpu : DisableOffline(a)), NEW m \in Lwp, pc[m] \in Inside
  PROVE  CallOk(m)'
<1>1. CallOk(m) /\ TypeInv /\ TblInv /\ arg[m] \in Cpu /\ tbl.eng \in Cpu
  BY DEF Good, Known, CallInv, TypeInv
<1>2. CASE DisableLoad \/ \E a \in Cpu : DisableOffline(a)
  BY <1>1, <1>2 DEF DisableLoad, DisableOffline, CallOk, GivenUp, cpuVars, lwpVars
<1>3. CASE DisableStore
  <2>1. /\ tbl.by = "driver" /\ UNCHANGED <<cpu, eng_wait, online_engno, pc, arg>>
        /\ e_flags' = [e_flags EXCEPT ![tbl.eng] = (tbl.flags \ {}) \cup {"E_DRIVERBOUND"}]
    BY <1>3 DEF DisableStore, TblStore, SetFlags, cpuVars, lwpVars
  <2>2. /\ cpu[tbl.eng] \in {"online", "up"} /\ "E_SHUTDOWN" \notin tbl.flags
        /\ "E_BAD" \in tbl.flags => "E_BAD" \in e_flags[tbl.eng]
    BY <1>1, <2>1 DEF TblInv
  <2>3. CASE arg[m] # tbl.eng
    BY <1>1, <2>1, <2>3 DEF CallOk, GivenUp, TypeInv
  <2>4. CASE arg[m] = tbl.eng
    <3>1. e_flags'[arg[m]] = tbl.flags \cup {"E_DRIVERBOUND"}
      BY <1>1, <2>1, <2>4 DEF TypeInv
    <3>. QED
      BY <1>1, <2>1, <2>2, <2>4, <3>1 DEF CallOk, GivenUp
  <2>. QED
    BY <2>3, <2>4
<1>. QED
  BY <1>2, <1>3 DEF DriverStep

(* Every step keeps what the calls know of their engines.                  *)
LEMMA CallNext == Good /\ TypeInv' /\ MutexInv' /\ [Next]_vars => CallInv'
<1>. SUFFICES ASSUME Good, TypeInv', MutexInv', [Next]_vars, NEW m \in Lwp PROVE CallOk(m)'
  BY DEF CallInv
<1>1. ASSUME NEW l \in Lwp, LwpStep(l) PROVE CallOk(m)'
  BY <1>1, CallNextLwp
<1>2. CallOk(m) /\ TypeInv
  BY DEF Good, Known, CallInv
<1>3. ASSUME NEW l \in Lwp, NEW a \in Cpu, NEW op \in {"online", "offline"}, Call(l, a, op)
      PROVE  CallOk(m)'
  BY <1>2, <1>3 DEF Call, CallOk, GivenUp, Started, TypeInv, cpuVars
<1>4. CASE OtherStep
  <2>1. pc' = pc
    BY <1>4, OtherFrame DEF lwpVars
  <2>2. CASE pc[m] \notin Inside
    BY <2>1, <2>2 DEF CallOk, Inside, Started, OnSteps, OffSteps
  <2>3. CASE pc[m] \in Inside
    BY <1>4, <2>3, CallNextCpu, CallNextTimer, CallNextDriver DEF OtherStep
  <2>. QED
    BY <2>2, <2>3
<1>5. CASE UNCHANGED vars
  BY <1>2, <1>5 DEF vars, cpuVars, lwpVars, CallOk, GivenUp
<1>. QED
  BY <1>1, <1>3, <1>4, <1>5, StepCases

(* Every step keeps the callout with the call that has set it.             *)
LEMMA TimerNext == Good /\ TypeInv' /\ MutexInv' /\ [Next]_vars => TimerInv'
<1>. SUFFICES ASSUME Good, TypeInv', MutexInv', [Next]_vars PROVE TimerInv'
  OBVIOUS
<1>1. TimerInv /\ TypeInv /\ TblInv /\ online_engno \in Cpu /\ CpuOk(online_engno)
  BY DEF Good, Known, TypeInv, CpuInv
<1>2. ASSUME NEW l \in Lwp, LwpStep(l) PROVE TimerInv'
  <2>1. BusyOnly(l) /\ BusyOnly(l)'
    BY <1>2, StepOfHolder, HolderIsBusy, HolderIsBusyNext DEF Good
  <2>2. CallOk(l) /\ arg[l] \in Cpu /\ online_engno' \in Cpu
    BY DEF Good, Known, CallInv, TypeInv
  <2>. USE <1>1, <2>1, <2>2 DEF TimerInv, GivenUp, BusyOnly
  <2>3. CASE Lock(l) \/ Wait(l)
    BY <2>3 DEF Lock, Wait, Goto, toVars, cpuVars, TypeInv
  <2>4. CASE OnRefuse(l) \/ OnDone(l)
    BY <2>4 DEF OnRefuse, OnDone, Return, toVars, cpuVars, TypeInv
  <2>5. CASE OffRefuse(l) \/ OffBusy(l) \/ OffDone(l)
    BY <2>5 DEF OffRefuse, OffBusy, OffDone, Return, toVars, cpuVars, TypeInv
  <2>6. CASE OnTest(l)
    BY <2>6 DEF OnTest, Goto, toVars, cpuVars, TypeInv
  <2>7. CASE OnClear(l)
    BY <2>7 DEF OnClear, Goto, toVars, cpuVars, TypeInv
  <2>8. CASE OnStart(l)
    BY <2>8 DEF OnStart, Goto, TypeInv, CallOk
  <2>9. CASE Untimeout(l)
    BY <2>9 DEF Untimeout
  <2>10. CASE OffTest(l) \/ OffCommit(l)
    BY <2>10 DEF OffTest, OffCommit, Goto, toVars, cpuVars, TypeInv
  <2>. QED
    BY <1>2, <2>3, <2>4, <2>5, <2>6, <2>7, <2>8, <2>9, <2>10 DEF LwpStep
<1>3. ASSUME NEW l \in Lwp, NEW a \in Cpu, NEW op \in {"online", "offline"}, Call(l, a, op)
      PROVE  TimerInv'
  <2>1. Busy(online_engno, {"onWait", "onWoken"})' <=> Busy(online_engno, {"onWait", "onWoken"})
    <3>1. \A e : Busy(e, {"onWait", "onWoken"})' <=> Busy(e, {"onWait", "onWoken"})
      BY <1>1, <1>3, BusyNotByCall
    <3>. QED
      BY <1>3, <3>1 DEF Call, Busy
  <2>. QED
    BY <1>1, <1>3, <2>1 DEF Call, TimerInv, GivenUp, toVars, cpuVars
<1>4. ASSUME OtherStep \/ UNCHANGED vars
      PROVE  /\ online_engno' = online_engno
             /\ Busy(online_engno, {"onWait", "onWoken"})' <=> Busy(online_engno, {"onWait", "onWoken"})
  BY <1>4, OtherFrame DEF vars, lwpVars, Busy
<1>5. CASE Timer
  <2>1. CASE Fire
    <3>1. timer = "set" /\ timer' = "store" /\ failing' = [eng |-> online_engno, flags |-> e_flags[online_engno]]
      BY <2>1 DEF Fire
    <3>2. "E_SHUTDOWN" \notin e_flags[online_engno]
      <4>1. /\ Busy(online_engno, Started)
            /\ cpu[online_engno] \in {"reset", "selfinit", "joining", "bad", "dead", "online", "up"}
        BY <3>1, FailsTheTarget
      <4>2. ~Busy(online_engno, {"offWait"})
        BY <1>1, <4>1, OneWay DEF Good
      <4>. QED
        BY <1>1, <4>1, <4>2 DEF CpuOk, Coming
    <3>. QED
      BY <1>1, <1>4, <1>5, <3>1, <3>2 DEF OtherStep, TimerInv
  <2>2. CASE FailStore
    BY <1>1, <1>4, <1>5, <2>2 DEF OtherStep, FailStore, SetFlags, TimerInv, GivenUp, TypeInv
  <2>3. CASE FailSignal
    BY <1>1, <1>4, <1>5, <2>3 DEF OtherStep, FailSignal, TimerInv
  <2>. QED
    BY <1>5, <2>1, <2>2, <2>3 DEF Timer
<1>6. ASSUME NEW c \in Cpu, CpuStep(c) PROVE TimerInv'
  <2>1. CpuOk(c) /\ timer' = timer /\ failing' = failing
    BY <1>6 DEF CpuStep, Start, Hang, DetectBad, SignalBad, Disponline, SignalOnline, OfflineSelf,
                Dispoffline, SignalOffline, Stop, Run, toVars, Good, Known, CpuInv
  <2>2. GivenUp(online_engno) => GivenUp(online_engno)'
    <3>. USE <1>1, <1>4, <1>6, <2>1 DEF OtherStep, GivenUp, Run, TypeInv
    <3>1. CASE Start(c) \/ Hang(c) \/ SignalBad(c) \/ SignalOnline(c)
      BY <3>1 DEF Start, Hang, SignalBad, SignalOnline
    <3>2. CASE DetectBad(c) \/ Dispoffline(c)
      BY <3>2 DEF DetectBad, Dispoffline, SetFlags
    <3>3. CASE Disponline(c)
      BY <3>3 DEF Disponline, TblTake, TblStore, SetFlags, CpuOk
    <3>4. CASE OfflineSelf(c) \/ SignalOffline(c) \/ Stop(c)
      BY <3>4 DEF OfflineSelf, SignalOffline, Stop
    <3>. QED
      BY <3>1, <3>2, <3>3, <3>4 DEF CpuStep
  <2>. QED
    BY <1>1, <1>4, <1>6, <2>1, <2>2 DEF OtherStep, TimerInv
<1>7. ASSUME NEW c \in Cpu, DisableOffline(c) PROVE TimerInv'
  BY <1>1, <1>4, <1>7 DEF OtherStep, DisableOffline, TimerInv, GivenUp, toVars, cpuVars
<1>8. CASE DriverStep
  <2>1. CASE DisableLoad
    BY <1>1, <1>4, <1>8, <2>1 DEF OtherStep, DisableLoad, TimerInv, GivenUp, toVars, cpuVars
  <2>2. CASE DisableStore
    <3>1. cpu[tbl.eng] \in {"online", "up"}
      BY <1>1, <2>2 DEF DisableStore, TblStore, TblInv
    <3>2. GivenUp(online_engno) => GivenUp(online_engno)'
      BY <1>1, <1>4, <1>8, <2>2, <3>1
         DEF OtherStep, DisableStore, TblStore, SetFlags, GivenUp, cpuVars, TypeInv
    <3>. QED
      BY <1>1, <1>4, <1>8, <2>2, <3>2 DEF OtherStep, DisableStore, TimerInv, toVars
  <2>. QED
    BY <1>8, <2>1, <2>2 DEF DriverStep
<1>9. CASE UNCHANGED vars
  BY <1>1, <1>4, <1>9 DEF vars, toVars, cpuVars, TimerInv, GivenUp
<1>. QED
  BY <1>2, <1>3, <1>5, <1>6, <1>7, <1>8, <1>9, StepCases DEF OtherStep

(* A call takes an engine from those that back nonline only at its last    *)
(* step, when the engine is gone.                                          *)
LEMMA BackedNextLwp ==
  ASSUME Good, TypeInv', MutexInv', CpuInv', NEW l \in Lwp, LwpStep(l), NEW e \in Backed
  PROVE  e \in Backed' \/ (OffDone(l) /\ e = arg[l])
<1>1. BusyOnly(l) /\ BusyOnly(l)'
  BY StepOfHolder, HolderIsBusy, HolderIsBusyNext DEF Good
<1>2. e \in Cpu /\ (Busy(e, OffSteps) \/ (Dispatches(e) /\ ~Busy(e, OnSteps)))
  BY DEF Backed
<1>3. /\ Dispatches(e) <=> /\ cpu[e] \in {"online", "up"}
                            /\ "E_BAD" \notin e_flags[e] /\ "E_SHUTDOWN" \notin e_flags[e]
      /\ Dispatches(e)' <=> /\ cpu'[e] \in {"online", "up"}
                             /\ "E_BAD" \notin e_flags'[e] /\ "E_SHUTDOWN" \notin e_flags'[e]
  BY <1>2, DispatchesIsUp, DispatchesIsUpNext DEF Good, Known
<1>4. CpuOk(e) /\ CallOk(l) /\ TypeInv
  BY <1>2 DEF Good, Known, CpuInv, CallInv
<1>5. SUFFICES ASSUME e \notin Backed', ~(OffDone(l) /\ e = arg[l]) PROVE FALSE
  OBVIOUS
<1>6. ~Busy(e, OffSteps)' /\ (Busy(e, OnSteps)' \/ ~Dispatches(e)')
  BY <1>2, <1>5 DEF Backed
<1>. USE <1>1, <1>2, <1>3, <1>4, <1>6 DEF BusyOnly, OnSteps, OffSteps
<1>7. CASE Lock(l) \/ Wait(l) \/ Untimeout(l)
  BY <1>7 DEF Lock, Wait, Untimeout, Goto, TypeInv, cpuVars
<1>8. CASE OnRefuse(l) \/ OnDone(l) \/ OffRefuse(l)
  BY <1>8 DEF OnRefuse, OnDone, OffRefuse, Return, TypeInv, cpuVars
<1>9. CASE OnTest(l)
  BY <1>9 DEF OnTest, Goto, SetFlags, TypeInv, cpuVars, CpuOk
<1>10. CASE OnClear(l)
  BY <1>10 DEF OnClear, Goto, TypeInv, cpuVars
<1>11. CASE OnStart(l)
  BY <1>11 DEF OnStart, Goto, TypeInv
<1>12. CASE OffTest(l)
  BY <1>12 DEF OffTest, Goto, TypeInv, cpuVars
<1>13. CASE OffBusy(l)
  BY <1>13 DEF OffBusy, Return, TypeInv, cpuVars
<1>14. CASE OffCommit(l)
  BY <1>14 DEF OffCommit, Goto, SetFlags, TypeInv, cpuVars
<1>15. CASE OffDone(l)
  BY <1>5, <1>15 DEF OffDone, Return, TypeInv, cpuVars
<1>. QED
  BY <1>7, <1>8, <1>9, <1>10, <1>11, <1>12, <1>13, <1>14, <1>15 DEF LwpStep

(* Nothing else takes an engine from them: a processor that leaves does so *)
(* for a call that still counts it, and the callout is there for one that  *)
(* is not counted yet.                                                     *)
LEMMA BackedNextOther ==
  ASSUME Good, TypeInv', CpuInv', OtherStep, NEW e \in Backed
  PROVE  e \in Backed'
<1>1. e \in Cpu /\ (Busy(e, OffSteps) \/ (Dispatches(e) /\ ~Busy(e, OnSteps)))
  BY DEF Backed
<1>2. /\ Busy(e, OnSteps)' <=> Busy(e, OnSteps)
      /\ Busy(e, OffSteps)' <=> Busy(e, OffSteps)
  BY OtherFrame, BusyKept DEF lwpVars
<1>3. CASE Busy(e, OffSteps)
  BY <1>1, <1>2, <1>3 DEF Backed
<1>4. CASE ~Busy(e, OffSteps)
  <2>1. /\ cpu[e] \in {"online", "up"} /\ ~Busy(e, OnSteps)
        /\ "E_BAD" \notin e_flags[e] /\ "E_SHUTDOWN" \notin e_flags[e]
    BY <1>1, <1>4, DispatchesIsUp DEF Good, Known
  <2>2. CpuOk(e) /\ TypeInv /\ TblInv
    BY <1>1 DEF Good, Known, CpuInv
  <2>3. SUFFICES /\ cpu'[e] \in {"online", "up"}
                 /\ "E_BAD" \notin e_flags'[e] /\ "E_SHUTDOWN" \notin e_flags'[e]
    BY <1>1, <1>2, <2>1, DispatchesIsUpNext DEF Backed
  <2>4. CASE Timer
    <3>1. CASE Fire \/ FailSignal
      BY <2>1, <3>1 DEF Fire, FailSignal, cpuVars
    <3>2. CASE FailStore
      <4>1. /\ cpu' = cpu /\ Busy(online_engno, Started)
            /\ e_flags' = [e_flags EXCEPT ![online_engno] = failing.flags \cup {"E_BAD"}]
        BY <3>2, FailsTheTarget DEF FailStore, SetFlags, Good, Known, TimerInv, cpuVars
      <4>2. online_engno # e
        BY <2>1, <4>1 DEF Busy, Started, OnSteps
      <4>. QED
        BY <2>1, <2>2, <4>1, <4>2 DEF TypeInv
    <3>. QED
      BY <2>4, <3>1, <3>2 DEF Timer
  <2>5. ASSUME NEW c \in Cpu, CpuStep(c)
        PROVE  /\ cpu'[e] \in {"online", "up"}
               /\ "E_BAD" \notin e_flags'[e] /\ "E_SHUTDOWN" \notin e_flags'[e]
    <3>1. self[c] = c /\ CpuOk(c)
      BY DEF Good, Known, CpuInv, CpuOk
    <3>2. CASE c # e
      <4>1. \E flags : e_flags' = [e_flags EXCEPT ![c] = flags]
        <5>1. e_flags = [e_flags EXCEPT ![c] = e_flags[c]]
          BY <2>2 DEF TypeInv
        <5>2. cpu[c] = "joining" => tbl.eng = c
          BY <3>1 DEF CpuOk
        <5>. QED
          BY <2>5, <3>1, <5>1, <5>2 DEF CpuStep, Start, Hang, DetectBad, SignalBad, Disponline,
             TblStore, SignalOnline, OfflineSelf, Dispoffline, SignalOffline, Stop, SetFlags, Run
      <4>2. \E to : cpu' = [cpu EXCEPT ![c] = to]
        BY <2>5 DEF CpuStep, Start, Hang, DetectBad, SignalBad, Disponline, SignalOnline,
                    OfflineSelf, Dispoffline, SignalOffline, Stop, Run
      <4>. QED
        BY <1>1, <2>1, <2>2, <3>2, <4>1, <4>2 DEF TypeInv
    <3>3. CASE c = e
      <4>1. SignalOnline(e)
        BY <2>1, <2>5, <3>1, <3>3
           DEF CpuStep, Start, Hang, DetectBad, SignalBad, Disponline, OfflineSelf,
               Dispoffline, SignalOffline, Stop, Run
      <4>. QED
        BY <1>1, <2>1, <2>2, <4>1 DEF SignalOnline, Run, TypeInv
    <3>. QED
      BY <3>2, <3>3
  <2>6. ASSUME NEW c \in Cpu, DisableOffline(c)
        PROVE  UNCHANGED <<cpu, e_flags>>
    BY <2>6 DEF DisableOffline, cpuVars
  <2>7. CASE DriverStep
    <3>1. CASE DisableLoad
      BY <2>1, <3>1 DEF DisableLoad, cpuVars
    <3>2. CASE DisableStore
      BY <1>1, <2>1, <2>2, <3>2 DEF DisableStore, TblStore, SetFlags, TblInv, TypeInv, cpuVars
    <3>. QED
      BY <2>7, <3>1, <3>2 DEF DriverStep
  <2>. QED
    BY <2>1, <2>4, <2>5, <2>6, <2>7 DEF OtherStep
<1>. QED
  BY <1>3, <1>4

(* Every step keeps nonline within the engines that back it, and an engine *)
(* that is going is never the only one.                                    *)
LEMMA CountNext == Good /\ ~late' /\ TypeInv' /\ MutexInv' /\ CpuInv' /\ [Next]_vars => CountInv'
<1>. SUFFICES ASSUME Good, ~late', TypeInv', MutexInv', CpuInv', [Next]_vars PROVE CountInv'
  OBVIOUS
<1>1. CountInv /\ TypeInv /\ nonline \in Nat
  BY DEF Good, Known, CountInv, TypeInv
<1>2. ASSUME Backed \subseteq Backed' PROVE Cardinality(Backed) <= Cardinality(Backed')
  BY <1>2, BackedFinite, FS_Subset
<1>3. ASSUME NEW l \in Lwp, LwpStep(l) PROVE CountInv'
  <2>1. onoffMutex' \in {l, None} /\ BusyOnly(l) /\ BusyOnly(l)'
    BY <1>3, StepOfHolder, HolderIsBusy, HolderIsBusyNext DEF Good, Known
  <2>2. \A m \in Lwp : m # l => pc'[m] \notin Inside
    BY <2>1, EngineAssumption DEF MutexInv, EngineAssumption
  <2>3. CASE OffDone(l)
    <3>1. pc[l] = "offWoken" /\ pc'[l] = "idle" /\ nonline' = nonline - 1 /\ arg[l] \in Cpu
      BY <2>3 DEF OffDone, Return, Good, TypeInv
    <3>2. nonline >= 2
      BY <1>1, <3>1 DEF CountInv, OffSteps
    <3>3. arg[l] \in Backed
      BY <2>1, <3>1 DEF BusyOnly, Backed, OffSteps
    <3>4. Backed \ {arg[l]} \subseteq Backed'
      BY <1>3, BackedNextLwp
    <3>5. /\ IsFiniteSet(Backed \ {arg[l]})
          /\ Cardinality(Backed \ {arg[l]}) = Cardinality(Backed) - 1
      BY <3>3, BackedFinite, FS_RemoveElement
    <3>6. Cardinality(Backed \ {arg[l]}) <= Cardinality(Backed')
      BY <3>4, <3>5, BackedFinite, FS_Subset
    <3>7. nonline' >= 1 /\ nonline' <= Cardinality(Backed')
      BY <1>1, <3>1, <3>2, <3>5, <3>6, BackedFinite DEF CountInv
    <3>. QED
      BY <2>2, <3>1, <3>7 DEF CountInv, Inside, OffSteps
  <2>4. CASE OnDone(l) /\ nonline' = nonline + 1
    <3>1. /\ pc[l] = "onDone" /\ pc'[l] = "idle" /\ arg[l] \in Cpu /\ UNCHANGED <<e_flags, cpuVars>>
      BY <2>4 DEF OnDone, Return, Good, TypeInv
    <3>2. "E_BAD" \notin e_flags[arg[l]]
      BY <2>4, <1>1 DEF OnDone
    <3>3. cpu[arg[l]] = "up" /\ ~Busy(arg[l], {"offWait"})
      <4>1. CallOk(l)
        BY DEF Good, Known, CallInv
      <4>2. ~Coming(arg[l])
        BY <2>4 DEF OnDone, NoteLate
      <4>. QED
        BY <2>1, <3>1, <3>2, <4>1, <4>2 DEF BusyOnly, CallOk, GivenUp, Started, Coming
    <3>4. "E_SHUTDOWN" \notin e_flags[arg[l]]
      BY <3>1, <3>3 DEF Good, Known, CpuInv, CpuOk
    <3>5. arg[l] \in Backed'
      <4>1. Dispatches(arg[l])
        BY <3>1, <3>2, <3>3, <3>4, DispatchesIsUp DEF Good, Known
      <4>2. \E c \in Cpu : cpu'[c] \in {"online", "up"} /\ self'[c] = arg[l]
        BY <3>1, <4>1 DEF Dispatches, cpuVars
      <4>3. \A e \in Cpu : ~Busy(e, OnSteps)'
        BY <2>1, <3>1 DEF BusyOnly, OnSteps
      <4>4. arg[l] \in {e \in Cpu : Busy(e, OffSteps)' \/ (Dispatches(e)' /\ ~Busy(e, OnSteps)')}
        BY <3>1, <4>1, <4>2, <4>3 DEF Dispatches
      <4>. QED
        BY <4>4 DEF Backed
    <3>6. arg[l] \notin Backed
      BY <2>1, <3>1 DEF BusyOnly, Backed, OnSteps, OffSteps
    <3>7. Backed \cup {arg[l]} \subseteq Backed'
      BY <1>3, <3>1, <3>5, BackedNextLwp DEF OffDone, Return
    <3>8. /\ IsFiniteSet(Backed \cup {arg[l]})
          /\ Cardinality(Backed \cup {arg[l]}) = Cardinality(Backed) + 1
      BY <3>6, BackedFinite, FS_AddElement
    <3>9. Cardinality(Backed \cup {arg[l]}) <= Cardinality(Backed')
      BY <3>7, <3>8, BackedFinite, FS_Subset
    <3>10. nonline' >= 1 /\ nonline' <= Cardinality(Backed')
      BY <1>1, <2>4, <3>8, <3>9, BackedFinite DEF CountInv
    <3>. QED
      BY <2>2, <3>1, <3>10 DEF CountInv, Inside, OffSteps
  <2>5. CASE ~OffDone(l) /\ ~(OnDone(l) /\ nonline' = nonline + 1)
    <3>1. nonline' = nonline
      BY <1>3, <2>5 DEF LwpStep, Lock, Wait, OnRefuse, OnTest, OnClear, OnStart, Untimeout, OnDone,
                        OffRefuse, OffTest, OffBusy, OffCommit
    <3>2. Cardinality(Backed) <= Cardinality(Backed')
      BY <1>2, <1>3, <2>5, BackedNextLwp
    <3>3. pc'[l] \in OffSteps \cup {"offCommit"} =>
            pc[l] \in OffSteps \cup {"offCommit"} \/ nonline # 1
      BY <1>1, <1>3, <2>5 DEF LwpStep, Lock, Wait, OnRefuse, OnTest, OnClear, OnStart, Untimeout,
           OnDone, OffRefuse, OffTest, OffBusy, OffCommit, Return, Goto, OffSteps, TypeInv
    <3>4. nonline' >= 1 /\ nonline' <= Cardinality(Backed')
      BY <1>1, <3>1, <3>2, BackedFinite DEF CountInv
    <3>5. pc'[l] \in OffSteps \cup {"offCommit"} => nonline' >= 2
      BY <1>1, <3>1, <3>3 DEF CountInv
    <3>. QED
      BY <2>2, <3>4, <3>5 DEF CountInv, Inside
  <2>. QED
    BY <2>3, <2>4, <2>5
<1>4. ASSUME NEW l \in Lwp, NEW a \in Cpu, NEW op \in {"online", "offline"}, Call(l, a, op)
      PROVE  CountInv'
  <2>1. \A e : /\ Busy(e, OnSteps)' <=> Busy(e, OnSteps)
               /\ Busy(e, OffSteps)' <=> Busy(e, OffSteps)
    BY <1>1, <1>4, BusyNotByCall
  <2>2. \A e : Dispatches(e)' <=> Dispatches(e)
    BY <1>4 DEF Call, Dispatches, cpuVars
  <2>3. Backed \subseteq Backed'
    BY <2>1, <2>2 DEF Backed
  <2>4. \A m \in Lwp : pc'[m] \in OffSteps \cup {"offCommit"} => pc[m] \in OffSteps \cup {"offCommit"}
    BY <1>1, <1>4 DEF Call, OffSteps, TypeInv
  <2>. QED
    BY <1>1, <1>2, <1>4, <2>3, <2>4, BackedFinite DEF Call, CountInv
<1>5. CASE OtherStep
  <2>1. Backed \subseteq Backed'
    BY <1>5, BackedNextOther
  <2>2. nonline' = nonline /\ pc' = pc
    BY <1>5, OtherFrame DEF lwpVars
  <2>. QED
    BY <1>1, <1>2, <2>1, <2>2, BackedFinite DEF CountInv
<1>6. CASE UNCHANGED vars
  <2>1. Backed' = Backed
    BY <1>6 DEF vars, cpuVars, lwpVars, Backed, Busy, Dispatches
  <2>. QED
    BY <1>1, <1>6, <2>1 DEF vars, lwpVars, CountInv
<1>. QED
  BY <1>3, <1>4, <1>5, <1>6, StepCases

-----------------------------------------------------------------------------
(* The theorems.                                                           *)

(* The invariant holds in every state: what is known of processors, calls, *)
(* callout and count holds until a processor answers after its call.       *)
THEOREM Invariance == Spec => []IInv
<1>1. IInv /\ [Next]_vars => IInv'
  <2>. SUFFICES ASSUME IInv, [Next]_vars PROVE IInv'
    OBVIOUS
  <2>1. TypeInv' /\ MutexInv'
    BY TypeNext, MutexNext DEF IInv
  <2>2. ASSUME ~late' PROVE Known'
    <3>1. Good
      BY <2>2, LateStays DEF IInv, Good
    <3>2. CpuInv'
      BY <2>1, <2>2, <3>1, CpuNext
    <3>. QED
      BY <2>1, <2>2, <3>1, <3>2, TblNext, CallNext, TimerNext, CountNext DEF Known
  <2>. QED
    BY <2>1, <2>2 DEF IInv
<1>. QED
  BY <1>1, InitInv, PTL DEF Spec

(* Until a processor answers after its call was over the last engine is    *)
(* not taken offline, whatever online and offline calls follow each other, *)
(* whatever starts fail and wherever the timeout finds a processor:        *)
(* nonline, which offline_engine relies on, is at least one and at most    *)
(* the number of the engines that back it; and while one of these is going *)
(* nonline is two.                                                         *)
THEOREM TheLastEngineStays == Spec => []KeepsOne
<1>1. IInv => KeepsOne
  <2>. SUFFICES ASSUME IInv, ~late PROVE \E e \in Cpu : Dispatches(e)
    BY DEF KeepsOne
  <2>1. CountInv /\ MutexInv /\ nonline \in Nat
    BY DEF IInv, Known, CountInv, TypeInv
  <2>2. CASE \E e \in Cpu : Busy(e, OffSteps)
    <3>1. PICK l \in Lwp : pc[l] \in OffSteps /\ arg[l] \in Cpu
      BY <2>2 DEF Busy
    <3>2. nonline >= 2 /\ Cardinality(Backed) \in Nat /\ Cardinality(Backed) >= 2
      BY <2>1, <3>1, BackedFinite DEF CountInv
    <3>3. ~(Backed \subseteq {arg[l]})
      <4>1. IsFiniteSet({arg[l]}) /\ Cardinality({arg[l]}) = 1
        BY FS_Singleton
      <4>. QED
        BY <3>2, <4>1, FS_Subset
    <3>4. PICK e \in Backed : e # arg[l]
      BY <3>3
    <3>5. BusyOnly(l) /\ e \in Cpu
      BY <2>1, <3>1, <3>4, InsideIsOnly DEF Inside, OffSteps, Backed
    <3>. QED
      BY <3>4, <3>5 DEF Backed, BusyOnly
  <2>3. CASE ~\E e \in Cpu : Busy(e, OffSteps)
    <3>1. Backed # {}
      BY <2>1, BackedFinite, FS_EmptySet DEF CountInv
    <3>. QED
      BY <2>3, <3>1 DEF Backed
  <2>. QED
    BY <2>2, <2>3
<1>. QED
  BY <1>1, Invariance, PTL

(* Until a processor answers after its call was over, an engine that       *)
(* engine_disable_offline has bound a driver to goes on to run and is not  *)
(* asked to go, though online_failure changes its flags without the lock.  *)
THEOREM ADriverKeepsItsEngine == Spec => []DriverBoundStays
<1>1. IInv => DriverBoundStays
  <2>. SUFFICES ASSUME IInv, ~late, NEW e \in bound
                PROVE  /\ "E_SHUTDOWN" \notin e_flags[e]
                       /\ \E c \in Cpu : cpu[c] \in {"online", "up"} /\ self[c] = e
    BY DEF DriverBoundStays
  <2>1. e \in Cpu /\ CpuOk(e)
    BY DEF IInv, Known, CpuInv, TypeInv
  <2>. QED
    BY <2>1 DEF CpuOk
<1>. QED
  BY <1>1, Invariance, PTL

(* Until a processor answers after its call was over, the one event        *)
(* eng_wait wakes a call only when the engine of that call is there, bad   *)
(* or gone: no signal is left over from another engine or from the         *)
(* timeout of another call.                                                *)
THEOREM AWakeupIsOfTheTarget == Spec => []WaitsForTarget
<1>1. IInv => WaitsForTarget
  <2>. SUFFICES ASSUME IInv, ~late, NEW l \in Lwp
                PROVE  /\ pc[l] \in {"onWoken", "onDone"} =>
                            "E_BAD" \in e_flags[arg[l]] \/ Dispatches(arg[l])
                       /\ pc[l] = "offWoken" => "E_OFFLINE" \in e_flags[arg[l]]
    BY DEF WaitsForTarget
  <2>1. TypeInv /\ MutexInv /\ CpuInv /\ arg[l] \in Cpu /\ CallOk(l) /\ CpuOk(arg[l])
    BY DEF IInv, Known, TypeInv, CallInv, CpuInv
  <2>2. ASSUME pc[l] \in {"onWoken", "onDone"}, "E_BAD" \notin e_flags[arg[l]]
        PROVE  Dispatches(arg[l])
    <3>1. BusyOnly(l)
      BY <2>1, <2>2, InsideIsOnly DEF Inside, OnSteps
    <3>2. cpu[arg[l]] \in {"online", "up"} /\ ~Busy(arg[l], {"offWait"})
      BY <2>1, <2>2, <3>1 DEF BusyOnly, CallOk, GivenUp, Started
    <3>. QED
      BY <2>1, <2>2, <3>2, DispatchesIsUp DEF CpuOk, Coming
  <2>3. CASE pc[l] = "offWoken"
    BY <2>1, <2>3 DEF CallOk, CpuOk
  <2>. QED
    BY <2>2, <2>3
<1>. QED
  BY <1>1, Invariance, PTL

=============================================================================
