------------------------------- MODULE XCall -------------------------------
(***************************************************************************)
(* Cross-processor calls: svc/xcall.c.  An initiator holds xcall_lock,     *)
(* leaves the function and its argument in xcall_params, sets a handshake  *)
(* word per target, interrupts the targets and waits for the handshakes to *)
(* be cleared.  A timed call gives up on a target and cancels its request. *)
(*                                                                         *)
(* The function and the argument of a call are both its number, so that a  *)
(* mixture of two calls can be told.  An engine handles an interrupt on    *)
(* top of whatever it runs, unless it has interrupts disabled; xcall_intr  *)
(* itself runs with them enabled.                                          *)
(***************************************************************************)
EXTENDS Integers, Sequences, FiniteSets

CONSTANTS
  Engine,     \* the processors
  Initiators, \* those that call xcall
  Timed,      \* initiators that pass a responders mask
  None,       \* nobody holds xcall_lock; a parameter not yet set
  MaxCalls    \* calls each initiator makes

ASSUME XCallAssumption ==
  /\ Initiators \subseteq Engine /\ Timed \subseteq Initiators
  /\ None \notin Engine /\ MaxCalls \in Nat

VARIABLES
  xcallLock,  \* holder of xcall_lock
  func, arg,  \* xcall_params
  handshake,  \* xcall_handshake[]: TRUE while a request is not answered
  pending,    \* MS_EVENT_XCALL posted to the engine and not yet taken
  pc,         \* per engine, where its call of xcall is
  ncalls,     \* per engine, calls begun
  targets,    \* per engine, the target mask of its call
  targs,      \* per engine, targs: targets still to be interrupted
  targs2,     \* per engine, targs2: targets still to be waited for
  cur,        \* per engine, engnum
  responders, \* per engine, *responders
  frames,     \* per engine, the calls of xcall_intr in progress, innermost last
  answers,    \* requests an engine answered, with the parameters it copied
  cancelled,  \* requests cancelled
  returned    \* calls that returned, with their targets and responders

callVars == <<ncalls, targets, targs, targs2, cur, responders>>
history  == <<answers, cancelled, returned>>
vars     == <<xcallLock, func, arg, handshake, pending, pc, callVars, frames, history>>

Init ==
  /\ xcallLock = None /\ func = None /\ arg = None
  /\ handshake = [e \in Engine |-> FALSE] /\ pending = [e \in Engine |-> FALSE]
  /\ pc = [e \in Engine |-> "idle"] /\ ncalls = [e \in Engine |-> 0]
  /\ targets = [e \in Engine |-> {}] /\ targs = [e \in Engine |-> {}]
  /\ targs2 = [e \in Engine |-> {}] /\ responders = [e \in Engine |-> {}]
  /\ cur = [e \in Engine |-> None]
  /\ frames = [e \in Engine |-> <<>>]
  /\ answers = {} /\ cancelled = {} /\ returned = {}

-----------------------------------------------------------------------------
(* xcall, on engine e.                                                     *)

CallOf(e) == <<e, ncalls[e]>>

(* The call whose requests are out: calls are serialized by xcall_lock.    *)
Current == IF xcallLock = None THEN None ELSE CallOf(xcallLock)

(* The code an engine runs stands still while it handles an interrupt.     *)
At(e, from) == pc[e] = from /\ frames[e] = <<>>

Goto(e, from, to) == At(e, from) /\ pc' = [pc EXCEPT ![e] = to]

(* The own engine is removed from the mask.  xcall_all passes the active   *)
(* engines, and returns at once when there are none.                       *)
Call(e, mask) ==
  /\ e \in Initiators /\ ncalls[e] < MaxCalls
  /\ Goto(e, "idle", "lock")
  /\ ncalls' = [ncalls EXCEPT ![e] = @ + 1]
  /\ targets' = [targets EXCEPT ![e] = mask \ {e}]
  /\ targs' = [targs EXCEPT ![e] = mask \ {e}]
  /\ targs2' = [targs2 EXCEPT ![e] = mask \ {e}]
  /\ responders' = [responders EXCEPT ![e] = IF e \in Timed THEN mask \ {e} ELSE {}]
  /\ UNCHANGED <<xcallLock, func, arg, handshake, pending, cur, frames, history>>

(* LOCK spins at PLHI, which lets cross-processor interrupts through.      *)
Lock(e) ==
  /\ xcallLock = None /\ xcallLock' = e
  /\ Goto(e, "lock", "setFunc")
  /\ UNCHANGED <<func, arg, handshake, pending, callVars, frames, history>>

SetFunc(e) ==
  /\ Goto(e, "setFunc", "setArg")
  /\ func' = CallOf(e)
  /\ UNCHANGED <<xcallLock, arg, handshake, pending, callVars, frames, history>>

(* The argument is set and interrupts are disabled for the first pass.     *)
SetArg(e) ==
  /\ Goto(e, "setArg", "first")
  /\ arg' = CallOf(e)
  /\ UNCHANGED <<xcallLock, func, handshake, pending, callVars, frames, history>>

(* First pass: the handshake is set before the interrupt is sent.          *)
SetHandshake(e) ==
  /\ \E t \in targs[e] :
       /\ targs' = [targs EXCEPT ![e] = @ \ {t}]
       /\ cur' = [cur EXCEPT ![e] = t]
       /\ handshake' = [handshake EXCEPT ![t] = TRUE]
  /\ Goto(e, "first", "post")
  /\ UNCHANGED <<xcallLock, func, arg, pending, ncalls, targets, targs2, responders, frames, history>>

Post(e) ==
  /\ Goto(e, "post", "first")
  /\ pending' = [pending EXCEPT ![cur[e]] = TRUE]
  /\ UNCHANGED <<xcallLock, func, arg, handshake, callVars, frames, history>>

(* Interrupts are enabled again for the second pass.                       *)
FirstPassDone(e) ==
  /\ targs[e] = {} /\ Goto(e, "first", "second")
  /\ UNCHANGED <<xcallLock, func, arg, handshake, pending, callVars, frames, history>>

Collect(e) ==
  /\ \E t \in targs2[e] :
       /\ targs2' = [targs2 EXCEPT ![e] = @ \ {t}]
       /\ cur' = [cur EXCEPT ![e] = t]
  /\ Goto(e, "second", "wait")
  /\ UNCHANGED <<xcallLock, func, arg, handshake, pending, ncalls, targets, targs, responders, frames,
                 history>>

(* Mutant: the initiator does not wait for the targets.                    *)
Responded_NoWait(e) ==
  /\ Goto(e, "wait", "second")
  /\ UNCHANGED <<xcallLock, func, arg, handshake, pending, callVars, frames, history>>

Responded(e) ==
  /\ Goto(e, "wait", "second") /\ ~handshake[cur[e]]
  /\ UNCHANGED <<xcallLock, func, arg, handshake, pending, callVars, frames, history>>

(* The loop counter of a timed call ran out.                               *)
Timeout(e) ==
  /\ Goto(e, "wait", "cancel")
  /\ e \in Timed /\ handshake[cur[e]]
  /\ UNCHANGED <<xcallLock, func, arg, handshake, pending, callVars, frames, history>>

(* Mutant: the handshake is cleared without looking whether the target     *)
(* has answered in the meantime.                                           *)
Cancel_Blind(e) ==
  LET t == cur[e] IN
  /\ Goto(e, "cancel", "second")
  /\ handshake' = [handshake EXCEPT ![t] = FALSE]
  /\ responders' = [responders EXCEPT ![e] = @ \ {t}]
  /\ cancelled' = cancelled \cup {<<CallOf(e), t>>}
  /\ UNCHANGED <<xcallLock, func, arg, pending, ncalls, targets, targs, targs2, cur, frames, answers,
                 returned>>

(* atomic_fnc fetches and clears the handshake: an answer that came in     *)
(* after the time ran out still counts.                                    *)
Cancel(e) ==
  LET t == cur[e] IN
  /\ Goto(e, "cancel", "second")
  /\ handshake' = [handshake EXCEPT ![t] = FALSE]
  /\ IF handshake[t]
       THEN /\ responders' = [responders EXCEPT ![e] = @ \ {t}]
            /\ cancelled' = cancelled \cup {<<CallOf(e), t>>}
       ELSE UNCHANGED <<responders, cancelled>>
  /\ UNCHANGED <<xcallLock, func, arg, pending, ncalls, targets, targs, targs2, cur, frames, answers,
                 returned>>

Unlock(e) ==
  /\ targs2[e] = {} /\ Goto(e, "second", "idle")
  /\ xcallLock' = None
  /\ returned' = returned \cup {[call |-> CallOf(e), timed |-> e \in Timed,
                                 targets |-> targets[e], responders |-> responders[e]]}
  /\ UNCHANGED <<func, arg, handshake, pending, callVars, frames, answers, cancelled>>

-----------------------------------------------------------------------------
(* xcall_intr, on engine t.                                                *)

Top(t) == frames[t][Len(frames[t])]
Working(t, p) == frames[t] # <<>> /\ Top(t).pc = p
SetTop(t, f) == frames' = [frames EXCEPT ![t][Len(frames[t])] = f]
Return(t) == frames' = [frames EXCEPT ![t] = SubSeq(@, 1, Len(@) - 1)]

(* Mutant: an engine that wants xcall_lock is not interrupted.             *)
Interrupt_NotInLock(t) ==
  /\ pending[t] /\ pending' = [pending EXCEPT ![t] = FALSE]
  /\ pc[t] \notin {"first", "post", "lock"}
  /\ frames' = [frames EXCEPT ![t] = Append(@, [pc |-> "check", func |-> None, arg |-> None])]
  /\ UNCHANGED <<xcallLock, func, arg, handshake, pc, callVars, history>>

(* The interrupt is taken unless the first pass has interrupts disabled.   *)
Interrupt(t) ==
  /\ pending[t] /\ pending' = [pending EXCEPT ![t] = FALSE]
  /\ pc[t] \notin {"first", "post"}
  /\ frames' = [frames EXCEPT ![t] = Append(@, [pc |-> "check", func |-> None, arg |-> None])]
  /\ UNCHANGED <<xcallLock, func, arg, handshake, pc, callVars, history>>

(* With the handshake clear there is nothing to do.                        *)
IntrCheck(t) ==
  /\ Working(t, "check")
  /\ IF handshake[t] THEN SetTop(t, [Top(t) EXCEPT !.pc = "func"]) ELSE Return(t)
  /\ UNCHANGED <<xcallLock, func, arg, handshake, pending, pc, callVars, history>>

(* The parameters are copied before the handshake is answered.             *)
CopyFunc(t) ==
  /\ Working(t, "func")
  /\ SetTop(t, [Top(t) EXCEPT !.pc = "arg", !.func = func])
  /\ UNCHANGED <<xcallLock, func, arg, handshake, pending, pc, callVars, history>>

CopyArg(t) ==
  /\ Working(t, "arg")
  /\ SetTop(t, [Top(t) EXCEPT !.pc = "fetch", !.arg = arg])
  /\ UNCHANGED <<xcallLock, func, arg, handshake, pending, pc, callVars, history>>

(* atomic_fnc: only if the request is still there is the function called.  *)
Answer(t) ==
  /\ Working(t, "fetch")
  /\ handshake' = [handshake EXCEPT ![t] = FALSE]
  /\ IF handshake[t]
       THEN /\ SetTop(t, [Top(t) EXCEPT !.pc = "run"])
            /\ answers' = answers \cup {[eng |-> t, call |-> Current,
                                         func |-> Top(t).func, arg |-> Top(t).arg]}
       ELSE Return(t) /\ UNCHANGED answers
  /\ UNCHANGED <<xcallLock, func, arg, pending, pc, callVars, cancelled, returned>>

(* The function params.xc_func is called with params.xc_arg, to its end.   *)
Run(t) ==
  /\ Working(t, "run") /\ Return(t)
  /\ UNCHANGED <<xcallLock, func, arg, handshake, pending, pc, callVars, history>>

-----------------------------------------------------------------------------
XcallStep(e) ==
  \/ Lock(e) \/ SetFunc(e) \/ SetArg(e) \/ SetHandshake(e) \/ Post(e) \/ FirstPassDone(e)
  \/ Collect(e) \/ Responded(e) \/ Timeout(e) \/ Cancel(e) \/ Unlock(e)

IntrStep(t) == IntrCheck(t) \/ CopyFunc(t) \/ CopyArg(t) \/ Answer(t) \/ Run(t)

Next == \E e \in Engine : \/ \E mask \in SUBSET Engine : mask # {} /\ Call(e, mask)
                          \/ XcallStep(e) \/ Interrupt(e) \/ IntrStep(e)

Spec == Init /\ [][Next]_vars

(* An engine goes on unless it spins, and takes an interrupt that it is    *)
(* open to.                                                                *)
Fairness ==
  \A e \in Engine : WF_vars(XcallStep(e)) /\ WF_vars(IntrStep(e)) /\ WF_vars(Interrupt(e))

FairSpec == Spec /\ Fairness

-----------------------------------------------------------------------------
(* Properties.                                                             *)

CallId == Initiators \X (1..MaxCalls)

(* A target of a call that returned has either answered it, once and for   *)
(* all, or had its request cancelled, and responders says exactly which:   *)
(* the two fetches of the handshake decide the race of the timeout with a  *)
(* late answer.                                                            *)
RespondersExact ==
  \A r \in returned :
    LET answered == {t \in Engine : \E a \in answers : a.eng = t /\ a.call = r.call} IN
    /\ r.targets = answered \cup {t \in Engine : <<r.call, t>> \in cancelled}
    /\ r.timed => r.responders = answered
    /\ \A t \in answered : <<r.call, t>> \notin cancelled

(* xcall_params is not used again before every target has copied it.  The  *)
(* window xcall admits to is this one only: an engine that runs anything   *)
(* but the call it answers, or enters xcall_intr again before it has       *)
(* answered, was late for a request that has been cancelled.               *)
StaleOnlyAfterCancel ==
  LET Late == {t \in Engine : \E c \in CallId : <<c, t>> \in cancelled} IN
  /\ \A a \in answers : a.func # a.call \/ a.arg # a.call => a.eng \in Late
  /\ \A t \in Engine :
       Cardinality({i \in 1..Len(frames[t]) : frames[t][i].pc # "run"}) > 1 => t \in Late

(* Every xcall returns: initiators that target each other do not wait for  *)
(* each other for ever.                                                    *)
EveryCallReturns == \A e \in Initiators : pc[e] = "lock" ~> pc[e] = "idle"

=============================================================================
