------------------------------- MODULE Engine -------------------------------
(***************************************************************************)
(* Processors that go online and offline: util/engine.c, with the part of  *)
(* svc/sysinit.c and svc/start.s that the processor itself runs.           *)
(*                                                                         *)
(* An LWP that changes the state of an engine holds onoff_mutex.  It asks  *)
(* the engine, with ms_start_cpu or E_SHUTDOWN, and waits for eng_wait,    *)
(* which the engine signals when it is there or gone.  eng_wait and        *)
(* online_engno are one for all engines.  A timeout marks an engine that   *)
(* does not answer in five seconds as bad; nothing keeps the engine from   *)
(* answering after that.                                                   *)
(*                                                                         *)
(* e_flags is changed by instructions that load and store, under           *)
(* onoff_mutex, under eng_tbl_mutex, and by the timeout under neither.     *)
(*                                                                         *)
(* A processor is known by the number it was configured with, and takes    *)
(* the number it finds in online_engno when it starts.                     *)
(***************************************************************************)
EXTENDS Integers, FiniteSets

CONSTANTS
  Cpu,        \* the processors: the numbers 0..Nengine-1
  BOOTENG,    \* the one that booted
  Faulty,     \* processors that may fail the diagnostics, or never start
  Driver,     \* processors that drivers are bound to
  Lwp,        \* LWPs in the p_online system call
  None,       \* nobody holds onoff_mutex
  Licensed,   \* the licensed number of processors: limit(L_GETPROCLIMIT)
  MaxCalls    \* calls they make altogether

ASSUME EngineAssumption ==
  /\ IsFiniteSet(Cpu) /\ BOOTENG \in Cpu /\ Faulty \subseteq Cpu \ {BOOTENG} /\ Driver \subseteq Cpu
  /\ None \notin Lwp
  /\ Licensed \in Nat \ {0} /\ MaxCalls \in Nat

VARIABLES
  onoffMutex,  \* holder of onoff_mutex
  e_flags,     \* per engine, the flags set of those below
  nonline,     \* count of online engines
  online_engno,
  eng_wait,    \* ev_state of the event: TRUE when it is signalled
  timer,       \* the callout of online_failure
  failing,     \* the engine online_failure works on, and the e_flags it has loaded
  tbl,         \* eng_tbl_mutex: who holds it, and the e_flags it has loaded
  kma,         \* engines the kernel memory allocator knows as online
  cpu,         \* per processor, what it runs
  self,        \* per processor, the engine it takes itself for: l.eng
  pc, arg,     \* per LWP, where it is and the engine it was asked for
  ncalls,      \* calls begun
  bound,       \* history: engines for which engine_disable_offline returned B_TRUE
  late         \* history: a call was over before the processor it had started
               \* answered

lwpVars == <<pc, arg, ncalls>>
cpuVars == <<cpu, self>>
toVars  == <<timer, failing>>
history == <<bound, late>>
vars    == <<onoffMutex, e_flags, nonline, online_engno, eng_wait, toVars, tbl, kma, cpuVars, lwpVars,
             history>>

E_NOWAY == {"E_OFFLINE", "E_BAD", "E_SHUTDOWN"}

(* Nothing is loaded; eng_tbl_mutex is free.                               *)
Nothing == [eng |-> BOOTENG, flags |-> {}]
Free    == [by |-> "nobody", eng |-> BOOTENG, flags |-> {}]

(* The system has been booted: only the boot engine is online.             *)
Init ==
  /\ onoffMutex = None
  /\ e_flags = [e \in Cpu |-> IF e = BOOTENG THEN {} ELSE {"E_OFFLINE"}]
  /\ nonline = 1 /\ online_engno = BOOTENG /\ eng_wait = FALSE
  /\ timer = "off" /\ failing = Nothing /\ tbl = Free
  /\ kma = {BOOTENG}
  /\ cpu = [c \in Cpu |-> IF c = BOOTENG THEN "up" ELSE "stopped"]
  /\ self = [c \in Cpu |-> c]
  /\ pc = [l \in Lwp |-> "idle"] /\ arg = [l \in Lwp |-> BOOTENG]
  /\ ncalls = 0 /\ bound = {} /\ late = FALSE

-----------------------------------------------------------------------------
(* The LWP.                                                                *)

Goto(l, from, to) == pc[l] = from /\ pc' = [pc EXCEPT ![l] = to] /\ UNCHANGED <<arg, ncalls>>

(* onoff_mutex is released and the call returns.                           *)
Return(l, from) ==
  /\ pc[l] = from /\ pc' = [pc EXCEPT ![l] = "idle"] /\ onoffMutex' = None
  /\ arg' = [arg EXCEPT ![l] = BOOTENG] /\ UNCHANGED ncalls

SetFlags(e, flags) == e_flags' = [e_flags EXCEPT ![e] = flags]

(* p_online with P_ONLINE or P_OFFLINE, by an LWP that may.                *)
Call(l, e, op) ==
  /\ ncalls < MaxCalls /\ pc[l] = "idle"
  /\ pc' = [pc EXCEPT ![l] = op]
  /\ arg' = [arg EXCEPT ![l] = e] /\ ncalls' = ncalls + 1
  /\ UNCHANGED <<onoffMutex, e_flags, nonline, online_engno, eng_wait, toVars, tbl, kma, cpuVars, history>>

Lock(l) ==
  /\ onoffMutex = None /\ onoffMutex' = l
  /\ \/ Goto(l, "online", "onTest")
     \/ Goto(l, "offline", "offTest")
  /\ UNCHANGED <<e_flags, nonline, online_engno, eng_wait, toVars, tbl, kma, cpuVars, history>>

(* online_engine gives up: too many engines, online already, or bad.       *)
OnRefuse(l) ==
  /\ Return(l, "onTest")
  /\ \/ nonline >= Licensed
     \/ "E_OFFLINE" \notin e_flags[arg[l]]
     \/ "E_BAD" \in e_flags[arg[l]]
  /\ UNCHANGED <<e_flags, nonline, online_engno, eng_wait, toVars, tbl, kma, cpuVars, history>>

(* (Nobody else changes e_flags of an engine that is offline, but a        *)
(* processor that answers late: this is one step.)                         *)
OnTest(l) ==
  /\ Goto(l, "onTest", "onClear")
  /\ nonline < Licensed
  /\ "E_OFFLINE" \in e_flags[arg[l]] /\ "E_BAD" \notin e_flags[arg[l]]
  /\ SetFlags(arg[l], e_flags[arg[l]] \ {"E_SHUTDOWN"})
  /\ UNCHANGED <<onoffMutex, nonline, online_engno, eng_wait, toVars, tbl, kma, cpuVars, history>>

(* Mutant: EVENT_CLEAR is left out.                                        *)
OnClear_Missing(l) ==
  /\ Goto(l, "onClear", "onStart")
  /\ online_engno' = arg[l]
  /\ UNCHANGED <<onoffMutex, e_flags, nonline, eng_wait, toVars, tbl, kma, cpuVars, history>>

OnClear(l) ==
  /\ Goto(l, "onClear", "onStart")
  /\ eng_wait' = FALSE /\ online_engno' = arg[l]
  /\ UNCHANGED <<onoffMutex, e_flags, nonline, toVars, tbl, kma, cpuVars, history>>

(* Mutant: dtimeout is not called.                                         *)
OnStart_NoTimeout(l) ==
  /\ Goto(l, "onStart", "onWait")
  /\ cpu' = [cpu EXCEPT ![arg[l]] = "reset"]
  /\ UNCHANGED <<onoffMutex, e_flags, nonline, online_engno, eng_wait, toVars, tbl, kma, self, history>>

(* dtimeout and ms_start_cpu: the processor is reset, wherever it is.      *)
OnStart(l) ==
  /\ Goto(l, "onStart", "onWait")
  /\ timer' = "set"
  /\ cpu' = [cpu EXCEPT ![arg[l]] = "reset"]
  /\ UNCHANGED <<onoffMutex, e_flags, nonline, online_engno, eng_wait, failing, tbl, kma, self, history>>

(* EVENT_WAIT takes the signal.                                            *)
Wait(l) ==
  /\ eng_wait /\ eng_wait' = FALSE
  /\ \/ Goto(l, "onWait", "onWoken")
     \/ Goto(l, "offWait", "offWoken")
  /\ UNCHANGED <<onoffMutex, e_flags, nonline, online_engno, toVars, tbl, kma, cpuVars, history>>

(* untimeout cancels the callout, or waits until it has run.               *)
Untimeout(l) ==
  /\ Goto(l, "onWoken", "onDone")
  /\ timer \in {"off", "set"} /\ timer' = "off"
  /\ UNCHANGED <<onoffMutex, e_flags, nonline, online_engno, eng_wait, failing, tbl, kma, cpuVars, history>>

(* The processor has been started and has not answered.                    *)
Coming(c) == cpu[c] \in {"reset", "selfinit", "joining", "online", "bad"}

NoteLate(l) == late' = (late \/ Coming(arg[l])) /\ UNCHANGED bound

(* Mutant: an engine that has failed is counted.                           *)
OnDone_Unchecked(l) ==
  /\ Return(l, "onDone") /\ NoteLate(l)
  /\ kma' = kma \cup {arg[l]} /\ nonline' = nonline + 1
  /\ UNCHANGED <<e_flags, online_engno, eng_wait, toVars, tbl, cpuVars>>

(* The engine is bad, or kma_online takes it in; if that fails the engine  *)
(* runs but is not counted.                                                *)
OnDone(l) ==
  /\ Return(l, "onDone") /\ NoteLate(l)
  /\ \/ "E_BAD" \in e_flags[arg[l]] /\ UNCHANGED <<kma, nonline>>
     \/ /\ "E_BAD" \notin e_flags[arg[l]]
        /\ \/ kma' = kma \cup {arg[l]} /\ nonline' = nonline + 1
           \/ UNCHANGED <<kma, nonline>>
  /\ UNCHANGED <<e_flags, online_engno, eng_wait, toVars, tbl, cpuVars>>

(* offline_engine gives up: offline already, bad, or the only one.         *)
OffRefuse(l) ==
  /\ Return(l, "offTest")
  /\ \/ e_flags[arg[l]] \cap {"E_OFFLINE", "E_BAD"} # {}
     \/ nonline = 1
  /\ UNCHANGED <<e_flags, nonline, online_engno, eng_wait, toVars, tbl, kma, cpuVars, history>>

OffTest(l) ==
  /\ Goto(l, "offTest", "offCommit")
  /\ e_flags[arg[l]] \cap {"E_OFFLINE", "E_BAD"} = {} /\ nonline # 1
  /\ kma' = kma \ {arg[l]}
  /\ UNCHANGED <<onoffMutex, e_flags, nonline, online_engno, eng_wait, toVars, tbl, cpuVars, history>>

(* Under eng_tbl_mutex: LWPs are bound to the engine, or a driver; the     *)
(* return code of kma_online is not looked at.                             *)
OffBusy(l) ==
  /\ Return(l, "offCommit") /\ tbl = Free
  /\ kma' = kma \cup {arg[l]} \/ UNCHANGED kma
  /\ UNCHANGED <<e_flags, nonline, online_engno, eng_wait, toVars, tbl, cpuVars, history>>

(* Mutant: E_DRIVERBOUND is not looked at.                                 *)
OffCommit_DriverToo(l) ==
  /\ Goto(l, "offCommit", "offWait") /\ tbl = Free
  /\ eng_wait' = FALSE
  /\ SetFlags(arg[l], e_flags[arg[l]] \cup {"E_SHUTDOWN"})
  /\ UNCHANGED <<onoffMutex, nonline, online_engno, toVars, tbl, kma, cpuVars, history>>

(* Under eng_tbl_mutex: dispofflineok agreed.  The nudge makes the engine  *)
(* look at its flags.                                                      *)
OffCommit(l) ==
  /\ Goto(l, "offCommit", "offWait") /\ tbl = Free
  /\ "E_DRIVERBOUND" \notin e_flags[arg[l]]
  /\ eng_wait' = FALSE
  /\ SetFlags(arg[l], e_flags[arg[l]] \cup {"E_SHUTDOWN"})
  /\ UNCHANGED <<onoffMutex, nonline, online_engno, toVars, tbl, kma, cpuVars, history>>

OffDone(l) ==
  /\ Return(l, "offWoken")
  /\ nonline' = nonline - 1
  /\ UNCHANGED <<e_flags, online_engno, eng_wait, toVars, tbl, kma, cpuVars, history>>

-----------------------------------------------------------------------------
(* online_failure, run by the callout five seconds after ms_start_cpu,     *)
(* wherever the processor is by then.  e_flags is changed without a lock.  *)

Fire ==
  /\ timer = "set" /\ timer' = "store"
  /\ failing' = [eng |-> online_engno, flags |-> e_flags[online_engno]]
  /\ UNCHANGED <<onoffMutex, e_flags, nonline, online_engno, eng_wait, tbl, kma, cpuVars, lwpVars, history>>

FailStore ==
  /\ timer = "store" /\ timer' = "signal"
  /\ SetFlags(failing.eng, failing.flags \cup {"E_BAD"})
  /\ failing' = Nothing
  /\ UNCHANGED <<onoffMutex, nonline, online_engno, eng_wait, tbl, kma, cpuVars, lwpVars, history>>

FailSignal ==
  /\ timer = "signal" /\ timer' = "off"
  /\ eng_wait' = TRUE
  /\ UNCHANGED <<onoffMutex, e_flags, nonline, online_engno, failing, tbl, kma, cpuVars, lwpVars, history>>

-----------------------------------------------------------------------------
(* eng_tbl_mutex, and a change of e_flags under it.                        *)

TblTake(who, e) == tbl = Free /\ tbl' = [by |-> who, eng |-> e, flags |-> e_flags[e]]

TblStore(who, off, on) ==
  /\ tbl.by = who /\ tbl' = Free
  /\ SetFlags(tbl.eng, (tbl.flags \ off) \cup on)

-----------------------------------------------------------------------------
(* The processor.                                                          *)

Run(c, from, to) ==
  /\ cpu[c] = from /\ cpu' = [cpu EXCEPT ![c] = to]
  /\ UNCHANGED <<onoffMutex, nonline, online_engno, toVars, kma, lwpVars, history>>

(* _start reads online_engno and calls selfinit.                           *)
Start(c) ==
  /\ Run(c, "reset", "selfinit")
  /\ self' = [self EXCEPT ![c] = online_engno]
  /\ UNCHANGED <<e_flags, eng_wait, tbl>>

(* The processor never gets as far as selfinit.                            *)
Hang(c) ==
  /\ c \in Faulty
  /\ Run(c, "reset", "dead")
  /\ UNCHANGED <<self, e_flags, eng_wait, tbl>>

(* chip_detect finds that the processor cannot be used.  (online_failure   *)
(* sets the same flag: this is one step.)                                  *)
DetectBad(c) ==
  /\ c \in Faulty
  /\ Run(c, "selfinit", "bad")
  /\ SetFlags(self[c], e_flags[self[c]] \cup {"E_BAD"})
  /\ UNCHANGED <<self, eng_wait, tbl>>

SignalBad(c) ==
  /\ Run(c, "bad", "dead")
  /\ eng_wait' = TRUE
  /\ UNCHANGED <<self, e_flags, tbl>>

(* disponline, under eng_tbl_mutex.                                        *)
Disponline(c) ==
  /\ \/ Run(c, "selfinit", "joining") /\ TblTake("cpu", self[c]) /\ UNCHANGED e_flags
     \/ Run(c, "joining", "online") /\ TblStore("cpu", {"E_OFFLINE"}, {})
  /\ UNCHANGED <<self, eng_wait>>

SignalOnline(c) ==
  /\ Run(c, "online", "up")
  /\ eng_wait' = TRUE
  /\ UNCHANGED <<self, e_flags, tbl>>

(* The dispatcher, nudged, finds E_SHUTDOWN and calls offline_self.        *)
OfflineSelf(c) ==
  /\ "E_SHUTDOWN" \in e_flags[self[c]]
  /\ Run(c, "up", "leaving")
  /\ UNCHANGED <<self, e_flags, eng_wait, tbl>>

(* dispoffline, under eng_tbl_mutex.                                       *)
Dispoffline(c) ==
  /\ tbl = Free
  /\ Run(c, "leaving", "offline")
  /\ SetFlags(self[c], e_flags[self[c]] \cup {"E_OFFLINE"})
  /\ UNCHANGED <<self, eng_wait, tbl>>

SignalOffline(c) ==
  /\ Run(c, "offline", "signalled")
  /\ eng_wait' = TRUE
  /\ UNCHANGED <<self, e_flags, tbl>>

(* ms_offline_self; ms_start_cpu may reset the processor before it.        *)
Stop(c) ==
  /\ Run(c, "signalled", "stopped")
  /\ UNCHANGED <<self, e_flags, eng_wait, tbl>>

(* engine_disable_offline, under eng_tbl_mutex, once for an engine that    *)
(* drivers are bound to: selfinit calls it, and, as its header has it,     *)
(* others may whether a call holds onoff_mutex or not.  Between the test   *)
(* and the change the timeout may mark the engine as bad.                  *)
DisableOffline(e) ==
  /\ e \in Driver \ bound /\ e_flags[e] \cap E_NOWAY = {}
  /\ tbl = Free /\ tbl' = [by |-> "test", eng |-> e, flags |-> {}]
  /\ UNCHANGED <<onoffMutex, e_flags, nonline, online_engno, eng_wait, toVars, kma, cpuVars, lwpVars, history>>

DisableLoad ==
  /\ tbl.by = "test"
  /\ tbl' = [by |-> "driver", eng |-> tbl.eng, flags |-> e_flags[tbl.eng]]
  /\ UNCHANGED <<onoffMutex, e_flags, nonline, online_engno, eng_wait, toVars, kma, cpuVars, lwpVars, history>>

DisableStore ==
  /\ TblStore("driver", {}, {"E_DRIVERBOUND"})
  /\ bound' = bound \cup {tbl.eng}
  /\ UNCHANGED <<onoffMutex, nonline, online_engno, eng_wait, toVars, kma, cpuVars, lwpVars, late>>

-----------------------------------------------------------------------------
LwpStep(l) ==
  \/ Lock(l) \/ Wait(l)
  \/ OnRefuse(l) \/ OnTest(l) \/ OnClear(l) \/ OnStart(l) \/ Untimeout(l) \/ OnDone(l)
  \/ OffRefuse(l) \/ OffTest(l) \/ OffBusy(l) \/ OffCommit(l) \/ OffDone(l)

Timer == Fire \/ FailStore \/ FailSignal

DriverStep == DisableLoad \/ DisableStore

CpuStep(c) ==
  \/ Start(c) \/ Hang(c) \/ DetectBad(c) \/ SignalBad(c) \/ Disponline(c) \/ SignalOnline(c)
  \/ OfflineSelf(c) \/ Dispoffline(c) \/ SignalOffline(c) \/ Stop(c)

Next ==
  \/ \E l \in Lwp : \/ \E e \in Cpu, op \in {"online", "offline"} : Call(l, e, op)
                    \/ LwpStep(l)
  \/ Timer \/ DriverStep
  \/ \E c \in Cpu : CpuStep(c) \/ DisableOffline(c)

Spec == Init /\ [][Next]_vars

(* LWPs and processors go on, and the callout runs when it is due.         *)
Fairness ==
  /\ \A l \in Lwp : WF_vars(LwpStep(l))
  /\ \A c \in Cpu : WF_vars(CpuStep(c))
  /\ WF_vars(Timer) /\ WF_vars(DriverStep)

FairSpec == Spec /\ Fairness

-----------------------------------------------------------------------------
(* Properties.                                                             *)

(* An engine that runs LWPs and is not about to go.                        *)
Dispatches(e) == e_flags[e] \cap E_NOWAY = {} /\ \E c \in Cpu : cpu[c] \in {"online", "up"} /\ self[c] = e

(* As long as no processor answers after its call has been given up, the   *)
(* last engine is not taken offline: nonline, which offline_engine relies  *)
(* on, never promises more engines than there are, whatever starts fail,   *)
(* however late the timeout finds the processor on its way, and however    *)
(* online and offline calls follow each other.                             *)
KeepsOne == late \/ \E e \in Cpu : Dispatches(e)

(* Where engine_disable_offline has said B_TRUE the engine goes on to run: *)
(* its test of the flags and their change are one with those of            *)
(* offline_engine, and an update that online_failure undoes without the    *)
(* lock leaves E_BAD behind, which keeps it up as well.                    *)
DriverBoundStays ==
  late \/ \A e \in bound : /\ "E_SHUTDOWN" \notin e_flags[e]
                          /\ \E c \in Cpu : cpu[c] \in {"online", "up"} /\ self[c] = e

(* As long as no processor answers after its call has been given up, a     *)
(* call that has been woken was woken by the engine it asked or by its own *)
(* timeout, not by what an earlier call has left of either: online finds   *)
(* the engine there or bad, offline finds it gone.                         *)
WaitsForTarget ==
  late \/ \A l \in Lwp :
    /\ pc[l] \in {"onWoken", "onDone"} =>
         "E_BAD" \in e_flags[arg[l]] \/ Dispatches(arg[l])
    /\ pc[l] = "offWoken" => "E_OFFLINE" \in e_flags[arg[l]]

(* Every call of p_online returns: an engine that does not answer is given *)
(* up, and no signal of eng_wait is missed.                                *)
EveryCallReturns == \A l \in Lwp : pc[l] # "idle" ~> pc[l] = "idle"

=============================================================================
