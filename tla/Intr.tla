-------------------------------- MODULE Intr --------------------------------
(***************************************************************************)
(* Interrupt delivery on one engine: i386/uts/svc/msintr.c, with the spl   *)
(* routines of svc/spl.s and softint_hdlr of i386at/uts/svc/machdep.c.     *)
(*                                                                         *)
(* An interrupt whose priority is not above ipl is put in the deferqueue;  *)
(* picipl says which priority waits there.  The spl routines store ipl and *)
(* then look at picipl, with interrupts enabled, so that an interrupt may  *)
(* come between the two.                                                   *)
(*                                                                         *)
(* stack is what the engine runs: at the bottom the code of an LWP, above  *)
(* it intr_handle and the handlers that interrupted it.  intr_handle and   *)
(* intr_undefer run with interrupts disabled, handlers with interrupts     *)
(* enabled.                                                                *)
(***************************************************************************)
EXTENDS Integers, Sequences, FiniteSets, SequencesExt

CONSTANTS
  Irq,       \* device interrupts, one slot each
  Pri,       \* priority of a device: iv_intpri
  Levels,    \* the levels the spl routines are called with
  Flags,     \* EVT_STRSCHED, EVT_GLOBCALLOUT, EVT_LCLCALLOUT
  MaxDepth   \* bound: frames on the stack when an interrupt arrives

PLBASE == 0
PL1    == 1
PLHI   == 8

ASSUME IntrAssumption ==
  /\ Irq \cap {"xcall", "clock", "swint", "none"} = {}
  /\ Pri \in [Irq -> PL1..PLHI] /\ Levels \subseteq PLBASE..PLHI /\ MaxDepth \in Nat

VARIABLES
  stack,            \* frames, the running one last
  ipl, picipl,
  deferqueue,
  mseventsdeferred, \* events whose interrupt is in the deferqueue
  msevents,         \* events posted on this engine
  eventflags,       \* soft interrupts to be handled
  softmbox,         \* soft interrupts sent by other engines
  sending,          \* another engine is in mssendsoft, before ms_xpost
  xpost,            \* events that other engines have posted here
  masked            \* interrupts between delivery and ms_intr_complete

vars == <<stack, ipl, picipl, deferqueue, mseventsdeferred, msevents, eventflags, softmbox, sending,
          xpost, masked>>

queueVars == <<picipl, deferqueue, mseventsdeferred>>
softVars  == <<eventflags, softmbox, sending, xpost>>

(* A frame: the code of an LWP, intr_handle, splunwind, or a handler run   *)
(* by intr_service; its place; the interrupt; the opl of intr_service.     *)
Frame(kind, at, ivp, pl) == [kind |-> kind, at |-> at, ivp |-> ivp, pl |-> pl]

Init ==
  /\ stack = <<Frame("code", "run", "none", PLBASE)>>
  /\ ipl = PLHI /\ picipl = PLBASE
  /\ deferqueue = <<>> /\ mseventsdeferred = {}
  /\ msevents = {} /\ eventflags = {} /\ softmbox = {} /\ sending = FALSE /\ xpost = {}
  /\ masked = {}

-----------------------------------------------------------------------------
Top == stack[Len(stack)]
Push(f) == stack' = Append(stack, f)
At(kinds, place) == Top.kind \in kinds /\ Top.at = place
Stay(place) == [stack EXCEPT ![Len(stack)].at = place]

Intpri(v) == IF v \in Irq THEN Pri[v] ELSE IF v = "swint" THEN PL1 ELSE PLHI

Osevent(v) == IF v \in Irq THEN {} ELSE IF v = "xcall" THEN {"MS_EVENT_XCALL"}
              ELSE IF v = "clock" THEN {"MS_EVENT_TICK_1"} ELSE {"MS_EVENT_SOFT"}

Enabled == Top.kind \in {"code", "service"}

(* Code that may call spl routines and be interrupted there.               *)
Runs == Enabled /\ Top.at = "run"

(* Mutant: mseventsdeferred is not looked at.                              *)
Defer_Again(v) ==
  LET n == Cardinality({i \in 1..Len(deferqueue) : Intpri(deferqueue[i]) >= Intpri(v)})
  IN /\ mseventsdeferred' = mseventsdeferred \cup Osevent(v)
     /\ picipl' = IF picipl < Intpri(v) THEN Intpri(v) ELSE picipl
     /\ deferqueue' = InsertAt(deferqueue, n + 1, v)

(* intr_defer.                                                             *)
Defer(v) ==
  IF Osevent(v) \cap mseventsdeferred # {} THEN UNCHANGED queueVars
  ELSE LET n == Cardinality({i \in 1..Len(deferqueue) : Intpri(deferqueue[i]) >= Intpri(v)})
       IN /\ mseventsdeferred' = mseventsdeferred \cup Osevent(v)
          /\ picipl' = IF picipl < Intpri(v) THEN Intpri(v) ELSE picipl
          /\ deferqueue' = InsertAt(deferqueue, n + 1, v)

(* intr_service: the handler runs, and then the frame goes on at next.     *)
Service(v, next) ==
  /\ stack' = Append(Stay(next), Frame("service", "run", v, ipl))
  /\ ipl' = Intpri(v)

-----------------------------------------------------------------------------
(* Code and handlers.                                                      *)

Raise ==
  /\ Runs
  /\ \E pl \in Levels : ipl < pl /\ ipl' = pl
  /\ UNCHANGED <<stack, queueVars, msevents, softVars, masked>>

(* Code that a handler interrupts may go to the base level, a handler to   *)
(* its own.                                                                *)
Floor == IF Top.kind = "code" THEN PLBASE ELSE Intpri(Top.ivp)

(* splx and its relatives store ipl.                                       *)
Lower ==
  /\ Runs
  /\ \E pl \in Levels \cup {Floor} : Floor <= pl /\ pl < ipl /\ ipl' = pl
  /\ stack' = Stay("check")
  /\ UNCHANGED <<queueVars, msevents, softVars, masked>>

(* CHECKDEFER.                                                             *)
Check ==
  /\ At({"code", "service"}, "check")
  /\ stack' = Stay(IF picipl > ipl THEN "splunwind" ELSE "run")
  /\ UNCHANGED <<ipl, queueVars, msevents, softVars, masked>>

(* splunwind disables interrupts; what was deferred may be gone by then.   *)
Splunwind ==
  /\ At({"code", "service"}, "splunwind")
  /\ stack' = Append(Stay("run"), Frame("unwind", "undefer", "none", PLBASE))
  /\ UNCHANGED <<ipl, queueVars, msevents, softVars, masked>>

(* mssendsoft to the engine itself: with interrupts disabled, and never at *)
(* the base level.                                                         *)
SendSelf ==
  /\ Runs /\ ipl >= PL1
  /\ \E f \in Flags : eventflags' = eventflags \cup {f}
  /\ Defer("swint")
  /\ UNCHANGED <<stack, ipl, msevents, softmbox, sending, xpost, masked>>

(* softint_hdlr takes one flag after the other until it finds none.        *)
Softint ==
  /\ Runs /\ Top.ivp = "swint"
  /\ \E f \in eventflags : eventflags' = eventflags \ {f}
  /\ UNCHANGED <<stack, ipl, queueVars, msevents, softmbox, sending, xpost, masked>>

(* The handler returns, at the level it was called with.                   *)
HandlerReturn ==
  /\ Runs /\ Top.kind = "service" /\ ipl = Floor
  /\ Top.ivp = "swint" => eventflags = {}
  /\ stack' = Stay("return")
  /\ UNCHANGED <<ipl, queueVars, msevents, softVars, masked>>

(* The end of intr_service, with interrupts disabled again.                *)
Complete ==
  /\ At({"service"}, "return")
  /\ ipl' = Top.pl
  /\ masked' = masked \ {Top.ivp}
  /\ stack' = Front(stack)
  /\ UNCHANGED <<queueVars, msevents, softVars>>

-----------------------------------------------------------------------------
(* Interrupts.  The PSM masks a device until ms_intr_complete.             *)

MayArrive == Enabled /\ Len(stack) < MaxDepth

Arrive(v) ==
  /\ MayArrive /\ v \notin masked
  /\ masked' = masked \cup {v}
  /\ Push(Frame("handle", "dispatch", v, PLBASE))
  /\ UNCHANGED <<ipl, queueVars, msevents, softVars>>

(* The PSM posts what other engines sent, or the tick of the clock.        *)
Post(events) ==
  /\ MayArrive
  /\ msevents' = msevents \cup events
  /\ Push(Frame("handle", "xcall", "none", PLBASE))
  /\ UNCHANGED <<ipl, queueVars, eventflags, softmbox, sending, masked>>

Tick == Post({"MS_EVENT_TICK_1"}) /\ UNCHANGED xpost
Xint == xpost # {} /\ Post(xpost) /\ xpost' = {}

(* intr_handle: the device; then the events, in this order.                *)
Dispatch ==
  /\ At({"handle"}, "dispatch")
  /\ IF Intpri(Top.ivp) <= ipl
       THEN Defer(Top.ivp) /\ stack' = Stay("xcall") /\ UNCHANGED ipl
       ELSE Service(Top.ivp, "xcall") /\ UNCHANGED queueVars
  /\ UNCHANGED <<msevents, softVars, masked>>

XcallEvent ==
  /\ At({"handle"}, "xcall")
  /\ IF "MS_EVENT_XCALL" \in msevents THEN Service("xcall", "tick")
     ELSE stack' = Stay("tick") /\ UNCHANGED ipl
  /\ msevents' = msevents \ {"MS_EVENT_XCALL"}
  /\ UNCHANGED <<queueVars, softVars, masked>>

TickEvent ==
  /\ At({"handle"}, "tick")
  /\ IF "MS_EVENT_TICK_1" \notin msevents
       THEN stack' = Stay("soft") /\ UNCHANGED <<ipl, queueVars>>
     ELSE IF PLHI <= ipl
       THEN Defer("clock") /\ stack' = Stay("soft") /\ UNCHANGED ipl
       ELSE Service("clock", "soft") /\ UNCHANGED queueVars
  /\ msevents' = msevents \ {"MS_EVENT_TICK_1"}
  /\ UNCHANGED <<softVars, masked>>

SoftEvent ==
  /\ At({"handle"}, "soft")
  /\ IF "MS_EVENT_SOFT" \notin msevents
       THEN stack' = Stay("undefer") /\ UNCHANGED <<ipl, queueVars, eventflags, softmbox>>
       ELSE /\ eventflags' = eventflags \cup softmbox /\ softmbox' = {}
            /\ IF PL1 <= ipl
                 THEN Defer("swint") /\ stack' = Stay("undefer") /\ UNCHANGED ipl
                 ELSE Service("swint", "undefer") /\ UNCHANGED queueVars
  /\ msevents' = msevents \ {"MS_EVENT_SOFT"}
  /\ UNCHANGED <<sending, xpost, masked>>

(* Mutant: the event stays in mseventsdeferred.                            *)
Undefer_KeepEvent ==
  /\ At({"handle", "unwind"}, "undefer") /\ picipl > ipl
  /\ deferqueue' = Tail(deferqueue)
  /\ picipl' = IF Len(deferqueue) = 1 THEN PLBASE ELSE Intpri(deferqueue[2])
  /\ Service(Head(deferqueue), "undefer")
  /\ UNCHANGED <<mseventsdeferred, msevents, softVars, masked>>

(* intr_undefer, called by intr_handle and splunwind.                      *)
Undefer ==
  /\ At({"handle", "unwind"}, "undefer") /\ picipl > ipl
  /\ deferqueue' = Tail(deferqueue)
  /\ picipl' = IF Len(deferqueue) = 1 THEN PLBASE ELSE Intpri(deferqueue[2])
  /\ mseventsdeferred' = mseventsdeferred \ Osevent(Head(deferqueue))
  /\ Service(Head(deferqueue), "undefer")
  /\ UNCHANGED <<msevents, softVars, masked>>

(* Mutant: intr_handle does not call intr_undefer.                         *)
Leave_NoUndefer ==
  /\ At({"handle", "unwind"}, "undefer") /\ (Top.kind = "handle" \/ picipl <= ipl)
  /\ stack' = Front(stack)
  /\ UNCHANGED <<ipl, queueVars, msevents, softVars, masked>>

(* Return to what was interrupted.                                         *)
Leave ==
  /\ At({"handle", "unwind"}, "undefer") /\ picipl <= ipl
  /\ stack' = Front(stack)
  /\ UNCHANGED <<ipl, queueVars, msevents, softVars, masked>>

-----------------------------------------------------------------------------
(* Other engines: mssendsoft, and cross-processor calls.                   *)

SendMail ==
  /\ ~ sending /\ sending' = TRUE
  /\ \E f \in Flags : softmbox' = softmbox \cup {f}
  /\ UNCHANGED <<stack, ipl, queueVars, msevents, eventflags, xpost, masked>>

SendPost ==
  /\ sending /\ sending' = FALSE
  /\ xpost' = xpost \cup {"MS_EVENT_SOFT"}
  /\ UNCHANGED <<stack, ipl, queueVars, msevents, eventflags, softmbox, masked>>

XcallPost ==
  /\ "MS_EVENT_XCALL" \notin xpost /\ xpost' = xpost \cup {"MS_EVENT_XCALL"}
  /\ UNCHANGED <<stack, ipl, queueVars, msevents, eventflags, softmbox, sending, masked>>

-----------------------------------------------------------------------------
Next ==
  \/ Raise \/ Lower \/ Check \/ Splunwind \/ SendSelf \/ Softint \/ HandlerReturn \/ Complete
  \/ (\E v \in Irq : Arrive(v)) \/ Tick \/ Xint
  \/ Dispatch \/ XcallEvent \/ TickEvent \/ SoftEvent \/ Undefer \/ Leave
  \/ SendMail \/ SendPost \/ XcallPost

Spec == Init /\ [][Next]_vars

-----------------------------------------------------------------------------
(* Properties.                                                             *)

Queued == {deferqueue[i] : i \in 1..Len(deferqueue)}

(* The deferqueue is sorted, picipl is the priority at its head, and       *)
(* mseventsdeferred says which events are in it; nothing is in it twice,   *)
(* so that an entry for each slot and two more are all intr_defer ever     *)
(* takes off the free list; a device in it is still masked.                *)
QueueExact ==
  /\ \A i \in 1..Len(deferqueue) - 1 : Intpri(deferqueue[i]) >= Intpri(deferqueue[i + 1])
  /\ picipl = (IF deferqueue = <<>> THEN PLBASE ELSE Intpri(Head(deferqueue)))
  /\ mseventsdeferred = UNION {Osevent(v) : v \in Queued}
  /\ Cardinality(Queued) = Len(deferqueue)
  /\ Queued \cap Irq \subseteq masked

(* No interrupt waits longer than the level it waits for: when something   *)
(* runs below the priority at the head of the deferqueue, then only above  *)
(* an intr_handle or a splunwind that interrupted a level as low and will  *)
(* call intr_undefer.  (That does happen: intr_handle runs a new interrupt *)
(* between the store of ipl and the look at picipl, and soft interrupts    *)
(* before intr_undefer, without looking at picipl.)                        *)
NothingStranded ==
  Runs /\ picipl > ipl =>
    \E i \in 1..Len(stack) - 1 :
      stack[i].kind \in {"handle", "unwind"} /\ stack[i + 1].pl < picipl

(* A soft interrupt that was sent is handled: softint_hdlr is in the       *)
(* deferqueue or will look at eventflags again, and a flag in the mailbox  *)
(* has an event on its way.                                                *)
SoftKept ==
  /\ eventflags # {} =>
       \/ "swint" \in Queued
       \/ \E i \in 1..Len(stack) : /\ stack[i].kind = "service" /\ stack[i].ivp = "swint"
                                   /\ stack[i].at # "return"
  /\ softmbox # {} => sending \/ "MS_EVENT_SOFT" \in xpost \cup msevents

=============================================================================
