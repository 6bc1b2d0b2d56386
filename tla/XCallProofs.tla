---------------------------- MODULE XCallProofs ----------------------------
(***************************************************************************)
(* Proofs about XCall: each target of a call that returned has answered it *)
(* or had its request cancelled, never both, and an engine whose requests  *)
(* were all answered in time has seen the parameters of the call it        *)
(* answers, for any engines, calls and interleavings.                      *)
(***************************************************************************)
EXTENDS XCall, FiniteSetTheorems, SequenceTheorems, TLAPS

-----------------------------------------------------------------------------
(***************************************************************************)
(* The inductive invariant.                                                *)

Param   == (Engine \X Nat) \cup {None}
XFrame  == [pc : {"check", "func", "arg", "fetch", "run"}, func : Param, arg : Param]
Holding == {"setFunc", "setArg", "first", "post", "second", "wait", "cancel"}

TypeInv ==
  /\ xcallLock \in Engine \cup {None} /\ func \in Param /\ arg \in Param
  /\ handshake \in [Engine -> BOOLEAN] /\ pending \in [Engine -> BOOLEAN]
  /\ pc \in [Engine -> Holding \cup {"idle", "lock"}] /\ ncalls \in [Engine -> Nat]
  /\ targets \in [Engine -> SUBSET Engine] /\ targs \in [Engine -> SUBSET Engine]
  /\ targs2 \in [Engine -> SUBSET Engine] /\ responders \in [Engine -> SUBSET Engine]
  /\ cur \in [Engine -> Engine \cup {None}]
  /\ frames \in [Engine -> Seq(XFrame)]

(* The engine with the lock is the one inside.                             *)
LockInv == \A e \in Engine : pc[e] \in Holding <=> xcallLock = e

Answered(c, t)  == \E a \in answers : a.eng = t /\ a.call = c
Cancelled(c, t) == <<c, t>> \in cancelled

(* The masks of a call and where it is.                                    *)
PlaceOk(e) ==
  /\ e \in Initiators /\ ncalls[e] \in 1..MaxCalls
  /\ targs[e] \subseteq targets[e] /\ targs2[e] \subseteq targets[e]
  /\ pc[e] \in {"lock", "setFunc", "setArg"} => targs[e] = targets[e]
  /\ pc[e] \in {"lock", "setFunc", "setArg", "first", "post"} => targs2[e] = targets[e]
  /\ pc[e] \in {"second", "wait", "cancel"} => targs[e] = {}
  /\ pc[e] = "post" => cur[e] \in targets[e] \ targs[e]
  /\ pc[e] \in {"wait", "cancel"} => cur[e] \in targets[e] \ targs2[e]

RespondersOk(e) ==
  e \in Timed => responders[e] = {t \in targets[e] : ~Cancelled(CallOf(e), t)}

(* From the first pass on a request is out, answered or cancelled, one of  *)
(* the three; after the second pass it is not out any more.                *)
RequestOk(e, t) ==
  /\ t \in targets[e] \ targs[e] =>
       /\ handshake[t] \/ Answered(CallOf(e), t) \/ Cancelled(CallOf(e), t)
       /\ handshake[t] => ~Answered(CallOf(e), t) /\ ~Cancelled(CallOf(e), t)
       /\ ~(Answered(CallOf(e), t) /\ Cancelled(CallOf(e), t))
  /\ t \notin targets[e] \ targs[e] => ~Answered(CallOf(e), t) /\ ~Cancelled(CallOf(e), t)
  /\ t \in targets[e] \ targs2[e] /\ handshake[t] => pc[e] \in {"wait", "cancel"} /\ cur[e] = t

CallOk(e) == PlaceOk(e) /\ RespondersOk(e) /\ \A t \in Engine : RequestOk(e, t)
CallInv   == \A e \in Engine : pc[e] # "idle" => CallOk(e)

(* Only the requests of the engine with the lock are out.                  *)
HandInv == \A t \in Engine :
  handshake[t] => xcallLock # None /\ t \in targets[xcallLock] \ targs[xcallLock]

(* xcall_params is that engine's from the first pass on.                   *)
ParamInv == \A e \in Engine : /\ pc[e] = "setArg" => func = CallOf(e)
                              /\ pc[e] \in Holding \ {"setFunc", "setArg"} =>
                                   func = CallOf(e) /\ arg = CallOf(e)

(* Nothing is known of calls to come, and a call that returned is over.    *)
FreshInv ==
  /\ \A e \in Engine, k \in Nat, t \in Engine :
       k > ncalls[e] => ~Answered(<<e, k>>, t) /\ ~Cancelled(<<e, k>>, t)
  /\ \A r \in returned : \E e \in Engine, k \in Nat :
       r.call = <<e, k>> /\ (k < ncalls[e] \/ (k = ncalls[e] /\ pc[e] = "idle"))

LateEngine == {t \in Engine : \E c \in CallId : Cancelled(c, t)}

(* The frames of xcall_intr that have not answered yet.                    *)
NotRun(t) == {i \in 1..Len(frames[t]) : frames[t][i].pc # "run"}

(* An engine that was never late takes one interrupt for each request, and *)
(* sees the parameters of the call that is out.                            *)
OnTime(t) ==
  /\ \A i, j \in NotRun(t) : i = j
  /\ pending[t] => NotRun(t) = {}
  /\ pending[t] \/ NotRun(t) # {} => handshake[t]
  /\ \A e \in Engine : pc[e] = "post" /\ cur[e] = t => handshake[t] /\ ~pending[t] /\ NotRun(t) = {}
  /\ \A i \in NotRun(t) : /\ frames[t][i].pc \in {"arg", "fetch"} => frames[t][i].func = Current
                          /\ frames[t][i].pc = "fetch" => frames[t][i].arg = Current
LateInv == \A t \in Engine : t \in LateEngine \/ OnTime(t)

AnswersInv == \A a \in answers : a.func # a.call \/ a.arg # a.call => a.eng \in LateEngine

IInv == TypeInv /\ LockInv /\ CallInv /\ HandInv /\ ParamInv /\ FreshInv /\ RespondersExact
        /\ LateInv /\ AnswersInv

-----------------------------------------------------------------------------
(* The frames of xcall_intr.                                               *)

(* What a step does to the frames of the engine t: the last one changes,   *)
(* one is added, or the last one goes.                                     *)
Kept(t)   == \A i \in 1..Len(frames[t]) - 1 : frames'[t][i] = frames[t][i]
Others(t) == \A s \in Engine : s # t => frames'[s] = frames[s]

FrameChange(t, f) ==
  /\ frames' \in [Engine -> Seq(XFrame)] /\ Others(t) /\ Kept(t)
  /\ Len(frames'[t]) = Len(frames[t]) /\ frames'[t][Len(frames[t])] = f
FramePush(t, f) ==
  /\ frames' \in [Engine -> Seq(XFrame)] /\ Others(t)
  /\ \A i \in 1..Len(frames[t]) : frames'[t][i] = frames[t][i]
  /\ Len(frames'[t]) = Len(frames[t]) + 1 /\ frames'[t][Len(frames[t]) + 1] = f
FramePop(t) ==
  /\ frames' \in [Engine -> Seq(XFrame)] /\ Others(t) /\ Kept(t)
  /\ Len(frames'[t]) = Len(frames[t]) - 1

(* The last frame of an engine that handles an interrupt.                  *)
LEMMA TopFrame ==
  ASSUME TypeInv, NEW t \in Engine, frames[t] # <<>>
  PROVE  /\ Len(frames[t]) \in Nat \ {0} /\ Len(frames[t]) \in 1..Len(frames[t])
         /\ Top(t) = frames[t][Len(frames[t])] /\ Top(t) \in XFrame
         /\ frames[t] \in Seq(XFrame) /\ \A i \in 1..Len(frames[t]) : frames[t][i] \in XFrame
<1>1. frames[t] \in Seq(XFrame)
  BY DEF TypeInv
<1>2. Len(frames[t]) \in Nat \ {0}
  BY <1>1, EmptySeq, LenProperties
<1>. QED
  BY <1>1, <1>2, ElementOfSeq DEF Top

(* SetTop changes the last frame.                                          *)
LEMMA SetTopShape ==
  ASSUME TypeInv, NEW t \in Engine, frames[t] # <<>>, NEW f \in XFrame, SetTop(t, f)
  PROVE  FrameChange(t, f)
<1>. DEFINE s == frames[t]
            n == Len(s)
            r == [s EXCEPT ![n] = f]
<1>1. s \in Seq(XFrame) /\ n \in Nat \ {0} /\ n \in 1..Len(s)
  BY TopFrame
<1>2. frames' = [frames EXCEPT ![t] = r]
  BY DEF SetTop
<1>. HIDE DEF s
<1>3. r \in Seq(XFrame) /\ Len(r) = n /\ \A i \in 1..n : r[i] = IF i = n THEN f ELSE s[i]
  BY <1>1, ExceptSeq
<1>. HIDE DEF r
<1>4. frames \in [Engine -> Seq(XFrame)]
  BY DEF TypeInv
<1>5. /\ frames' \in [Engine -> Seq(XFrame)] /\ frames'[t] = r
      /\ \A e \in Engine : e # t => frames'[e] = frames[e]
  BY <1>2, <1>3, <1>4
<1>6. r[n] = f /\ \A i \in 1..n - 1 : r[i] = s[i]
  BY <1>1, <1>3
<1>. QED
  BY <1>3, <1>5, <1>6 DEF FrameChange, Others, Kept, s

(* xcall_intr is called.                                                   *)
LEMMA PushShape ==
  ASSUME TypeInv, NEW t \in Engine, NEW f \in XFrame, frames' = [frames EXCEPT ![t] = Append(@, f)]
  PROVE  FramePush(t, f)
<1>. DEFINE s == frames[t]
            r == Append(s, f)
<1>1. s \in Seq(XFrame) /\ frames \in [Engine -> Seq(XFrame)]
  BY DEF TypeInv
<1>2. frames' = [frames EXCEPT ![t] = r]
  OBVIOUS
<1>. HIDE DEF s
<1>3. /\ r \in Seq(XFrame) /\ Len(r) = Len(s) + 1 /\ r[Len(s) + 1] = f
      /\ \A i \in 1..Len(s) : r[i] = s[i]
  BY <1>1, AppendProperties
<1>. HIDE DEF r
<1>4. /\ frames' \in [Engine -> Seq(XFrame)] /\ frames'[t] = r
      /\ \A e \in Engine : e # t => frames'[e] = frames[e]
  BY <1>1, <1>2, <1>3
<1>. QED
  BY <1>3, <1>4 DEF FramePush, Others, s

(* xcall_intr returns.                                                     *)
LEMMA PopShape ==
  ASSUME TypeInv, NEW t \in Engine, frames[t] # <<>>, Return(t)
  PROVE  FramePop(t)
<1>. DEFINE s == frames[t]
            m == Len(s) - 1
            r == SubSeq(s, 1, m)
<1>1. s \in Seq(XFrame) /\ Len(s) \in Nat \ {0} /\ \A i \in 1..Len(s) : s[i] \in XFrame
  BY TopFrame
<1>2. frames' = [frames EXCEPT ![t] = r]
  BY DEF Return
<1>3. frames \in [Engine -> Seq(XFrame)]
  BY DEF TypeInv
<1>. HIDE DEF s
<1>4. r \in Seq(XFrame) /\ Len(r) = m /\ \A i \in 1..m : r[i] = s[i]
  <2>1. m \in Nat /\ \A i \in 1..m : s[i] \in XFrame
    BY <1>1
  <2>. HIDE DEF m
  <2>2. /\ r \in Seq(XFrame) /\ Len(r) = IF 1 <= m THEN m - 1 + 1 ELSE 0
        /\ \A i \in 1..m - 1 + 1 : r[i] = s[1 + i - 1]
    BY <2>1, SubSeqProperties
  <2>. HIDE DEF r
  <2>. QED
    BY <2>1, <2>2
<1>. HIDE DEF r
<1>5. /\ frames' \in [Engine -> Seq(XFrame)] /\ frames'[t] = r
      /\ \A e \in Engine : e # t => frames'[e] = frames[e]
  BY <1>2, <1>3, <1>4
<1>. QED
  BY <1>4, <1>5 DEF FramePop, Kept, Others, s

-----------------------------------------------------------------------------
(* The types.                                                              *)

(* What a step of xcall_intr does to the frames, and to nothing else of    *)
(* the calls.                                                              *)
LEMMA IntrShape ==
  ASSUME TypeInv, NEW t \in Engine, IntrStep(t)
  PROVE  /\ frames[t] # <<>>
         /\ (\E f \in XFrame : FrameChange(t, f)) \/ FramePop(t)
         /\ UNCHANGED <<xcallLock, func, arg, pending, pc, callVars, cancelled, returned>>
         /\ handshake' = handshake \/ handshake' = [handshake EXCEPT ![t] = FALSE]
<1>1. frames[t] # <<>>
  BY DEF IntrStep, IntrCheck, CopyFunc, CopyArg, Answer, Run, Working
<1>2. Top(t) \in XFrame /\ func \in Param /\ arg \in Param
  BY <1>1, TopFrame DEF TypeInv
<1>3. CASE IntrCheck(t)
  <2>1. [Top(t) EXCEPT !.pc = "func"] \in XFrame
    BY <1>2 DEF XFrame
  <2>2. SetTop(t, [Top(t) EXCEPT !.pc = "func"]) \/ Return(t)
    BY <1>3 DEF IntrCheck
  <2>. QED
    BY <1>1, <1>3, <2>1, <2>2, SetTopShape, PopShape DEF IntrCheck, history
<1>4. CASE CopyFunc(t)
  <2>1. [Top(t) EXCEPT !.pc = "arg", !.func = func] \in XFrame
    BY <1>2 DEF XFrame
  <2>. QED
    BY <1>1, <1>4, <2>1, SetTopShape DEF CopyFunc, history
<1>5. CASE CopyArg(t)
  <2>1. [Top(t) EXCEPT !.pc = "fetch", !.arg = arg] \in XFrame
    BY <1>2 DEF XFrame
  <2>. QED
    BY <1>1, <1>5, <2>1, SetTopShape DEF CopyArg, history
<1>6. CASE Answer(t)
  <2>1. [Top(t) EXCEPT !.pc = "run"] \in XFrame
    BY <1>2 DEF XFrame
  <2>2. SetTop(t, [Top(t) EXCEPT !.pc = "run"]) \/ Return(t)
    BY <1>6 DEF Answer
  <2>. QED
    BY <1>1, <1>6, <2>1, <2>2, SetTopShape, PopShape DEF Answer
<1>7. CASE Run(t)
  BY <1>1, <1>7, PopShape DEF Run, history
<1>. QED
  BY <1>3, <1>4, <1>5, <1>6, <1>7 DEF IntrStep

(* Types are kept.                                                         *)
LEMMA TypeNext ==
  ASSUME TypeInv, [Next]_vars
  PROVE  TypeInv'
<1>. USE DEF TypeInv, callVars, history
<1>1. ASSUME NEW e \in Engine, NEW mask \in SUBSET Engine, Call(e, mask) PROVE TypeInv'
  <2>1. ncalls[e] + 1 \in Nat
    OBVIOUS
  <2>. QED
    BY <1>1, <2>1 DEF Call, Goto, Holding
<1>2. ASSUME NEW e \in Engine, Lock(e) \/ SetFunc(e) \/ SetArg(e) PROVE TypeInv'
  <2>1. CallOf(e) \in Param
    BY DEF CallOf, Param
  <2>. QED
    BY <1>2, <2>1 DEF Lock, SetFunc, SetArg, Goto, Holding
<1>3. ASSUME NEW e \in Engine, SetHandshake(e) PROVE TypeInv'
  BY <1>3 DEF SetHandshake, Goto, Holding
<1>4. ASSUME NEW e \in Engine, Post(e) \/ FirstPassDone(e) \/ Responded(e) \/ Timeout(e)
      PROVE TypeInv'
  BY <1>4 DEF Post, FirstPassDone, Responded, Timeout, Goto, Holding
<1>5. ASSUME NEW e \in Engine, Collect(e) PROVE TypeInv'
  BY <1>5 DEF Collect, Goto, Holding
<1>6. ASSUME NEW e \in Engine, Cancel(e) PROVE TypeInv'
  <2>1. responders' \in [Engine -> SUBSET Engine]
    <3>1. responders' = responders \/ responders' = [responders EXCEPT ![e] = @ \ {cur[e]}]
      BY <1>6 DEF Cancel
    <3>2. responders[e] \ {cur[e]} \in SUBSET Engine /\ responders \in [Engine -> SUBSET Engine]
      OBVIOUS
    <3>. QED
      BY <3>1, <3>2, Zenon
  <2>2. handshake' = [handshake EXCEPT ![cur[e]] = FALSE] /\ pc' = [pc EXCEPT ![e] = "second"]
    BY <1>6 DEF Cancel, Goto
  <2>3. handshake' \in [Engine -> BOOLEAN] /\ pc' \in [Engine -> Holding \cup {"idle", "lock"}]
    BY <2>2 DEF Holding
  <2>. QED
    BY <1>6, <2>1, <2>3 DEF Cancel
<1>7. ASSUME NEW e \in Engine, Unlock(e) PROVE TypeInv'
  BY <1>7 DEF Unlock, Goto, Holding
<1>8. ASSUME NEW t \in Engine, Interrupt(t) PROVE TypeInv'
  <2>. DEFINE f == [pc |-> "check", func |-> None, arg |-> None]
  <2>1. f \in XFrame
    BY DEF XFrame, Param
  <2>2. frames' = [frames EXCEPT ![t] = Append(@, f)]
    BY <1>8 DEF Interrupt
  <2>. HIDE DEF f
  <2>3. frames' \in [Engine -> Seq(XFrame)]
    BY <2>1, <2>2, PushShape DEF FramePush
  <2>. QED
    BY <1>8, <2>3 DEF Interrupt
<1>9. ASSUME NEW t \in Engine, IntrStep(t) PROVE TypeInv'
  BY <1>9, IntrShape DEF FrameChange, FramePop
<1>10. CASE UNCHANGED vars
  BY <1>10 DEF vars
<1>. QED
  BY <1>1, <1>2, <1>3, <1>4, <1>5, <1>6, <1>7, <1>8, <1>9, <1>10 DEF Next, XcallStep

-----------------------------------------------------------------------------
(* The lock and the parameters.                                            *)

(* The lock is taken at Lock and given back at Unlock.                     *)
LEMMA LockNext ==
  ASSUME TypeInv, LockInv, [Next]_vars
  PROVE  LockInv'
<1>. USE XCallAssumption DEF XCallAssumption, TypeInv, LockInv, Holding, Goto, At
<1>1. ASSUME NEW e \in Engine, NEW mask \in SUBSET Engine, Call(e, mask) PROVE LockInv'
  BY <1>1 DEF Call
<1>2. ASSUME NEW e \in Engine, Lock(e) PROVE LockInv'
  BY <1>2 DEF Lock
<1>3. ASSUME NEW e \in Engine,
             \/ SetFunc(e) \/ SetArg(e) \/ SetHandshake(e) \/ Post(e) \/ FirstPassDone(e)
             \/ Collect(e) \/ Responded(e) \/ Timeout(e) \/ Cancel(e)
      PROVE LockInv'
  BY <1>3 DEF SetFunc, SetArg, SetHandshake, Post, FirstPassDone, Collect, Responded, Timeout, Cancel
<1>4. ASSUME NEW e \in Engine, Unlock(e) PROVE LockInv'
  BY <1>4 DEF Unlock
<1>5. ASSUME NEW t \in Engine, Interrupt(t) \/ IntrStep(t) PROVE LockInv'
  <2>1. xcallLock' = xcallLock /\ pc' = pc
    BY <1>5 DEF Interrupt, IntrStep, IntrCheck, CopyFunc, CopyArg, Answer, Run
  <2>. QED
    BY <2>1
<1>6. CASE UNCHANGED vars
  BY <1>6 DEF vars
<1>. QED
  BY <1>1, <1>2, <1>3, <1>4, <1>5, <1>6 DEF Next, XcallStep

(* xcall_params is set by the engine with the lock.                        *)
LEMMA ParamNext ==
  ASSUME TypeInv, LockInv, ParamInv, [Next]_vars
  PROVE  ParamInv'
<1>. USE XCallAssumption DEF XCallAssumption, TypeInv, LockInv, ParamInv, Holding, Goto, At, callVars,
                             history, CallOf
<1>1. ASSUME NEW e \in Engine, NEW mask \in SUBSET Engine, Call(e, mask) PROVE ParamInv'
  BY <1>1 DEF Call
<1>2. ASSUME NEW e \in Engine, Lock(e) PROVE ParamInv'
  BY <1>2 DEF Lock
<1>3. ASSUME NEW e \in Engine, SetFunc(e) \/ SetArg(e) PROVE ParamInv'
  BY <1>3 DEF SetFunc, SetArg
<1>4. ASSUME NEW e \in Engine,
             \/ SetHandshake(e) \/ Post(e) \/ FirstPassDone(e)
             \/ Collect(e) \/ Responded(e) \/ Timeout(e) \/ Cancel(e)
      PROVE ParamInv'
  BY <1>4 DEF SetHandshake, Post, FirstPassDone, Collect, Responded, Timeout, Cancel
<1>5. ASSUME NEW e \in Engine, Unlock(e) PROVE ParamInv'
  BY <1>5 DEF Unlock
<1>6. ASSUME NEW t \in Engine, Interrupt(t) \/ IntrStep(t) PROVE ParamInv'
  <2>1. func' = func /\ arg' = arg /\ pc' = pc /\ ncalls' = ncalls
    BY <1>6 DEF Interrupt, IntrStep, IntrCheck, CopyFunc, CopyArg, Answer, Run
  <2>. QED
    BY <2>1
<1>7. CASE UNCHANGED vars
  BY <1>7 DEF vars
<1>. QED
  BY <1>1, <1>2, <1>3, <1>4, <1>5, <1>6, <1>7 DEF Next, XcallStep

-----------------------------------------------------------------------------
(* The calls.                                                              *)

(* A call stands still while another engine goes on with its own.          *)
LEMMA OthersCall ==
  ASSUME TypeInv, LockInv, NEW d \in Engine, NEW e \in Engine, e # d, pc[e] # "idle", CallOk(e),
         (\E mask \in SUBSET Engine : Call(d, mask)) \/ XcallStep(d)
  PROVE  CallOk(e)' /\ pc'[e] = pc[e]
<1>1. /\ pc'[e] = pc[e] /\ ncalls'[e] = ncalls[e] /\ targets'[e] = targets[e]
      /\ targs'[e] = targs[e] /\ targs2'[e] = targs2[e] /\ cur'[e] = cur[e]
      /\ responders'[e] = responders[e] /\ answers' = answers
  BY DEF TypeInv, Call, XcallStep, Lock, SetFunc, SetArg, SetHandshake, Post, FirstPassDone, Collect,
         Responded, Timeout, Cancel, Unlock, Goto, callVars, history
<1>2. handshake' = handshake \/ pc[d] \in Holding
  BY DEF Call, XcallStep, Lock, SetFunc, SetArg, SetHandshake, Post, FirstPassDone, Collect,
         Responded, Timeout, Cancel, Unlock, Goto, At, Holding, callVars, history
<1>3. pc[d] \in Holding => pc[e] = "lock"
  BY DEF LockInv, TypeInv
<1>4. cancelled' = cancelled \/ cancelled' = cancelled \cup {<<CallOf(d), cur[d]>>}
  BY DEF Call, XcallStep, Lock, SetFunc, SetArg, SetHandshake, Post, FirstPassDone, Collect,
         Responded, Timeout, Cancel, Unlock, history
<1>5. CallOf(e)' = CallOf(e) /\ CallOf(d) # CallOf(e)
  BY <1>1 DEF CallOf
<1>6. ASSUME NEW t \in Engine
      PROVE  /\ Cancelled(CallOf(e), t)' <=> Cancelled(CallOf(e), t)
             /\ Answered(CallOf(e), t)' <=> Answered(CallOf(e), t)
  BY <1>1, <1>4, <1>5 DEF Cancelled, Answered
<1>7. PlaceOk(e)'
  BY <1>1 DEF CallOk, PlaceOk
<1>8. RespondersOk(e)'
  BY <1>1, <1>6 DEF CallOk, RespondersOk, TypeInv
<1>9. ASSUME NEW t \in Engine PROVE RequestOk(e, t)'
  <2>1. RequestOk(e, t) /\ PlaceOk(e)
    BY DEF CallOk
  <2>2. CASE handshake' = handshake
    BY <1>1, <1>6, <2>1, <2>2 DEF RequestOk
  <2>3. CASE pc[e] = "lock"
    <3>1. targs'[e] = targets'[e] /\ targs2'[e] = targets'[e]
      BY <1>1, <2>1, <2>3 DEF PlaceOk
    <3>2. ~Answered(CallOf(e), t) /\ ~Cancelled(CallOf(e), t)
      BY <1>1, <2>1, <3>1 DEF RequestOk
    <3>. QED
      BY <1>6, <3>1, <3>2 DEF RequestOk
  <2>. QED
    BY <1>2, <1>3, <2>2, <2>3
<1>. QED
  BY <1>1, <1>7, <1>8, <1>9 DEF CallOk

(* A call begins.                                                          *)
LEMMA CallBegins ==
  ASSUME TypeInv, FreshInv, NEW e \in Engine, NEW mask \in SUBSET Engine, Call(e, mask)
  PROVE  CallOk(e)'
<1>1. /\ pc'[e] = "lock" /\ ncalls'[e] = ncalls[e] + 1 /\ targets'[e] = mask \ {e}
      /\ targs'[e] = mask \ {e} /\ targs2'[e] = mask \ {e} /\ e \in Initiators
      /\ responders'[e] = IF e \in Timed THEN mask \ {e} ELSE {}
      /\ answers' = answers /\ cancelled' = cancelled
      /\ ncalls[e] \in Nat /\ ncalls[e] < MaxCalls /\ MaxCalls \in Nat
  BY XCallAssumption DEF TypeInv, Call, Goto, history, XCallAssumption
<1>2. CallOf(e)' = <<e, ncalls[e] + 1>>
  BY <1>1 DEF CallOf
<1>3. ASSUME NEW t \in Engine
      PROVE  ~Cancelled(CallOf(e), t)' /\ ~Answered(CallOf(e), t)'
  BY <1>1, <1>2 DEF Cancelled, Answered, FreshInv
<1>4. PlaceOk(e)'
  BY <1>1 DEF PlaceOk
<1>5. RespondersOk(e)'
  BY <1>1, <1>3 DEF RespondersOk
<1>6. ASSUME NEW t \in Engine PROVE RequestOk(e, t)'
  BY <1>1, <1>3 DEF RequestOk
<1>. QED
  BY <1>4, <1>5, <1>6 DEF CallOk

(* A call goes on: the lock, the parameters, the two passes.               *)
LEMMA CallGoesOn ==
  ASSUME TypeInv, LockInv, NEW e \in Engine, CallOk(e),
         \/ Lock(e) \/ SetFunc(e) \/ SetArg(e) \/ Post(e) \/ FirstPassDone(e)
         \/ Collect(e) \/ Responded(e) \/ Timeout(e)
  PROVE  CallOk(e)'
<1>1. /\ ncalls' = ncalls /\ targets' = targets /\ targs' = targs /\ responders' = responders
      /\ handshake' = handshake /\ answers' = answers /\ cancelled' = cancelled
  BY DEF Lock, SetFunc, SetArg, Post, FirstPassDone, Collect, Responded, Timeout, callVars, history
<1>2. ASSUME NEW t \in Engine
      PROVE  /\ Cancelled(CallOf(e), t)' <=> Cancelled(CallOf(e), t)
             /\ Answered(CallOf(e), t)' <=> Answered(CallOf(e), t)
  BY <1>1 DEF Cancelled, Answered, CallOf
<1>3. RespondersOk(e)'
  BY <1>1, <1>2 DEF CallOk, RespondersOk, TypeInv
<1>4. PlaceOk(e) /\ \A t \in Engine : RequestOk(e, t)
  BY DEF CallOk
<1>5. PlaceOk(e)' /\ \A t \in Engine : RequestOk(e, t)'
  <2>1. CASE Lock(e) \/ SetFunc(e) \/ SetArg(e) \/ Post(e) \/ FirstPassDone(e)
    <3>1. /\ pc[e] \in {"lock", "setFunc", "setArg", "first", "post"}
          /\ pc'[e] \in {"setFunc", "setArg", "first", "post", "second"}
          /\ pc[e] \notin {"wait", "cancel"} /\ pc'[e] \notin {"wait", "cancel"}
          /\ pc'[e] \in {"setFunc", "setArg"} => pc[e] \in {"lock", "setFunc"}
          /\ pc'[e] = "second" => targs[e] = {}
          /\ pc'[e] # "post"
          /\ targs2' = targs2 /\ cur' = cur
      BY <2>1 DEF Lock, SetFunc, SetArg, Post, FirstPassDone, Goto, At, TypeInv, callVars
    <3>2. PlaceOk(e)'
      BY <1>1, <1>4, <3>1 DEF PlaceOk
    <3>3. ASSUME NEW t \in Engine PROVE RequestOk(e, t)'
      BY <1>1, <1>2, <1>4, <3>1 DEF RequestOk
    <3>. QED
      BY <3>2, <3>3
  <2>2. CASE Collect(e)
    <3>1. PICK t \in targs2[e] : /\ targs2' = [targs2 EXCEPT ![e] = @ \ {t}]
                                 /\ cur' = [cur EXCEPT ![e] = t]
      BY <2>2 DEF Collect
    <3>2. /\ pc[e] = "second" /\ pc'[e] = "wait"
          /\ targs2'[e] = targs2[e] \ {t} /\ cur'[e] = t
      BY <2>2, <3>1 DEF Collect, Goto, At, TypeInv
    <3>3. PlaceOk(e)'
      BY <1>1, <1>4, <3>2 DEF PlaceOk
    <3>4. ASSUME NEW x \in Engine PROVE RequestOk(e, x)'
      BY <1>1, <1>2, <1>4, <3>2 DEF RequestOk
    <3>. QED
      BY <3>3, <3>4
  <2>3. CASE Responded(e) \/ Timeout(e)
    <3>1. /\ pc[e] = "wait" /\ pc'[e] \in {"second", "cancel"}
          /\ targs2' = targs2 /\ cur' = cur
          /\ pc'[e] = "second" => ~handshake[cur[e]]
      BY <2>3 DEF Responded, Timeout, Goto, At, TypeInv, callVars
    <3>2. PlaceOk(e)'
      BY <1>1, <1>4, <3>1 DEF PlaceOk
    <3>3. ASSUME NEW x \in Engine PROVE RequestOk(e, x)'
      BY <1>1, <1>2, <1>4, <3>1 DEF RequestOk
    <3>. QED
      BY <3>2, <3>3
  <2>. QED
    BY <2>1, <2>2, <2>3
<1>. QED
  BY <1>3, <1>5 DEF CallOk

(* The first pass sets the handshake of a target.                          *)
LEMMA CallAsks ==
  ASSUME TypeInv, NEW e \in Engine, CallOk(e), SetHandshake(e)
  PROVE  CallOk(e)'
<1>1. PICK t \in targs[e] : /\ targs' = [targs EXCEPT ![e] = @ \ {t}]
                            /\ cur' = [cur EXCEPT ![e] = t]
                            /\ handshake' = [handshake EXCEPT ![t] = TRUE]
  BY DEF SetHandshake
<1>2. /\ ncalls' = ncalls /\ targets' = targets /\ responders' = responders /\ targs2' = targs2
      /\ answers' = answers /\ cancelled' = cancelled
      /\ pc[e] = "first" /\ pc'[e] = "post" /\ t \in Engine
      /\ targs'[e] = targs[e] \ {t} /\ cur'[e] = t
      /\ handshake'[t] /\ \A x \in Engine : x # t => handshake'[x] = handshake[x]
  BY <1>1 DEF SetHandshake, Goto, At, TypeInv, history
<1>3. ASSUME NEW x \in Engine
      PROVE  /\ Cancelled(CallOf(e), x)' <=> Cancelled(CallOf(e), x)
             /\ Answered(CallOf(e), x)' <=> Answered(CallOf(e), x)
  BY <1>2 DEF Cancelled, Answered, CallOf
<1>4. PlaceOk(e) /\ \A x \in Engine : RequestOk(e, x)
  BY DEF CallOk
<1>5. PlaceOk(e)'
  BY <1>2, <1>4 DEF PlaceOk
<1>6. RespondersOk(e)'
  BY <1>2, <1>3 DEF CallOk, RespondersOk, TypeInv
<1>7. ASSUME NEW x \in Engine PROVE RequestOk(e, x)'
  <2>1. targs2[e] = targets[e] /\ targs[e] \subseteq targets[e]
    BY <1>2, <1>4 DEF PlaceOk
  <2>2. CASE x = t
    <3>1. ~Answered(CallOf(e), x) /\ ~Cancelled(CallOf(e), x)
      BY <1>1, <1>4, <2>2 DEF RequestOk
    <3>2. x \in targets'[e] \ targs'[e] /\ x \notin targets'[e] \ targs2'[e]
      BY <1>1, <1>2, <2>1, <2>2
    <3>. QED
      BY <1>2, <1>3, <2>2, <3>1, <3>2 DEF RequestOk
  <2>3. CASE x # t
    <3>1. x \in targets'[e] \ targs'[e] <=> x \in targets[e] \ targs[e]
      BY <1>2, <2>3
    <3>2. x \notin targets'[e] \ targs2'[e]
      BY <1>2, <2>1
    <3>. QED
      BY <1>2, <1>3, <1>4, <2>3, <3>1, <3>2 DEF RequestOk
  <2>. QED
    BY <2>2, <2>3
<1>. QED
  BY <1>5, <1>6, <1>7 DEF CallOk

(* A timed call cancels a request, unless it has been answered.            *)
LEMMA CallCancels ==
  ASSUME TypeInv, NEW e \in Engine, CallOk(e), Cancel(e)
  PROVE  CallOk(e)'
<1>. DEFINE t == cur[e]
<1>1. PlaceOk(e) /\ \A x \in Engine : RequestOk(e, x)
  BY DEF CallOk
<1>2. /\ ncalls' = ncalls /\ targets' = targets /\ targs2' = targs2 /\ targs' = targs
      /\ cur' = cur /\ answers' = answers
      /\ pc[e] = "cancel" /\ pc'[e] = "second"
  BY DEF Cancel, Goto, At, TypeInv
<1>3. t \in targets[e] \ targs2[e] /\ t \in Engine /\ targs[e] = {} /\ t \in targets[e] \ targs[e]
  BY <1>1, <1>2 DEF PlaceOk, TypeInv
<1>4. ~handshake'[t] /\ \A x \in Engine : x # t => handshake'[x] = handshake[x]
  BY <1>3 DEF Cancel, TypeInv
<1>5. \A x \in Engine : Answered(CallOf(e), x)' <=> Answered(CallOf(e), x)
  BY <1>2 DEF Answered, CallOf
<1>6. PlaceOk(e)'
  BY <1>1, <1>2 DEF PlaceOk
<1>7. CASE handshake[t]
  <2>1. /\ responders'[e] = responders[e] \ {t}
        /\ cancelled' = cancelled \cup {<<CallOf(e), t>>}
    BY <1>7 DEF Cancel, TypeInv
  <2>. HIDE DEF t
  <2>2. \A x \in Engine : Cancelled(CallOf(e), x)' <=> Cancelled(CallOf(e), x) \/ x = t
    BY <1>2, <2>1 DEF Cancelled, CallOf
  <2>3. RespondersOk(e)'
    BY <1>2, <2>1, <2>2 DEF CallOk, RespondersOk, TypeInv
  <2>4. ~Answered(CallOf(e), t)
    BY <1>1, <1>3, <1>7 DEF RequestOk
  <2>5. ASSUME NEW x \in Engine PROVE RequestOk(e, x)'
    <3>1. CASE x = t
      BY <1>2, <1>3, <1>4, <1>5, <2>2, <2>4, <3>1 DEF RequestOk
    <3>2. CASE x # t
      <4>1. x \in targets[e] \ targs2[e] => ~handshake[x]
        BY <1>1, <1>2, <3>2 DEF RequestOk, t
      <4>. QED
        BY <1>1, <1>2, <1>4, <1>5, <2>2, <3>2, <4>1 DEF RequestOk
    <3>. QED
      BY <3>1, <3>2
  <2>. QED
    BY <1>6, <2>3, <2>5 DEF CallOk
<1>8. CASE ~handshake[t]
  <2>1. responders' = responders /\ cancelled' = cancelled
    BY <1>8 DEF Cancel
  <2>2. \A x \in Engine : Cancelled(CallOf(e), x)' <=> Cancelled(CallOf(e), x)
    BY <1>2, <2>1 DEF Cancelled, CallOf
  <2>3. RespondersOk(e)'
    BY <1>2, <2>1, <2>2 DEF CallOk, RespondersOk, TypeInv
  <2>4. ASSUME NEW x \in Engine PROVE RequestOk(e, x)'
    <3>1. handshake'[x] <=> handshake[x]
      BY <1>4, <1>8
    <3>2. x \in targets[e] \ targs2[e] => ~handshake[x]
      BY <1>1, <1>2, <1>8 DEF RequestOk
    <3>. QED
      BY <1>1, <1>2, <1>5, <2>2, <3>1, <3>2 DEF RequestOk
  <2>. QED
    BY <1>6, <2>3, <2>4 DEF CallOk
<1>. QED
  BY <1>7, <1>8

(* What an answer says of the calls: the request it answers was out.       *)
LEMMA AnswerShape ==
  ASSUME TypeInv, LockInv, HandInv, NEW t \in Engine, Answer(t), handshake[t]
  PROVE  /\ xcallLock \in Engine /\ pc[xcallLock] \in Holding /\ Current = CallOf(xcallLock)
         /\ t \in targets[xcallLock] \ targs[xcallLock]
         /\ \A c, x : Answered(c, x)' <=> Answered(c, x) \/ (c = Current /\ x = t)
         /\ ~handshake'[t] /\ \A x \in Engine : x # t => handshake'[x] = handshake[x]
         /\ \E a : answers' = answers \cup {a} /\ a.eng = t /\ a.call = Current
                   /\ a.func = Top(t).func /\ a.arg = Top(t).arg
<1>1. /\ xcallLock # None /\ xcallLock \in Engine /\ pc[xcallLock] \in Holding
      /\ t \in targets[xcallLock] \ targs[xcallLock]
  BY DEF HandInv, TypeInv, LockInv
<1>2. PICK a : /\ answers' = answers \cup {a} /\ a.eng = t /\ a.call = Current
               /\ a.func = Top(t).func /\ a.arg = Top(t).arg
  <2>. DEFINE a == [eng |-> t, call |-> Current, func |-> Top(t).func, arg |-> Top(t).arg]
  <2>1. answers' = answers \cup {a}
    BY DEF Answer
  <2>2. a.eng = t /\ a.call = Current /\ a.func = Top(t).func /\ a.arg = Top(t).arg
    OBVIOUS
  <2>. HIDE DEF a
  <2>. QED
    BY <2>1, <2>2
<1>3. handshake' = [handshake EXCEPT ![t] = FALSE]
  BY DEF Answer
<1>4. \A c, x : Answered(c, x)' <=> Answered(c, x) \/ (c = Current /\ x = t)
  BY <1>2 DEF Answered
<1>5. ~handshake'[t] /\ \A x \in Engine : x # t => handshake'[x] = handshake[x]
  BY <1>3 DEF TypeInv
<1>. QED
  BY <1>1, <1>2, <1>4, <1>5 DEF Current

(* An interrupt does not touch the calls, but for the answer to one.       *)
LEMMA CallIsAnswered ==
  ASSUME TypeInv, LockInv, HandInv, CallInv, NEW t \in Engine, Interrupt(t) \/ IntrStep(t),
         NEW e \in Engine, pc[e] # "idle"
  PROVE  CallOk(e)' /\ pc' = pc
<1>1. /\ pc' = pc /\ ncalls' = ncalls /\ targets' = targets /\ targs' = targs
      /\ targs2' = targs2 /\ cur' = cur /\ responders' = responders /\ cancelled' = cancelled
  BY DEF Interrupt, IntrStep, IntrCheck, CopyFunc, CopyArg, Answer, Run, callVars, history
<1>2. CallOk(e) /\ PlaceOk(e) /\ RespondersOk(e) /\ CallOf(e)' = CallOf(e)
  BY <1>1 DEF CallInv, CallOk, CallOf
<1>3. \A x \in Engine : Cancelled(CallOf(e), x)' <=> Cancelled(CallOf(e), x)
  BY <1>1 DEF Cancelled, CallOf
<1>4. PlaceOk(e)' /\ RespondersOk(e)'
  <2>1. PlaceOk(e)'
    BY <1>1, <1>2 DEF PlaceOk
  <2>2. RespondersOk(e)'
    BY <1>1, <1>2, <1>3 DEF RespondersOk, TypeInv
  <2>. QED
    BY <2>1, <2>2
<1>5. CASE Answer(t) /\ handshake[t]
  <2>1. /\ xcallLock \in Engine /\ Current = CallOf(xcallLock)
        /\ t \in targets[xcallLock] \ targs[xcallLock]
        /\ \A c, x : Answered(c, x)' <=> Answered(c, x) \/ (c = Current /\ x = t)
        /\ ~handshake'[t] /\ \A x \in Engine : x # t => handshake'[x] = handshake[x]
    BY <1>5, AnswerShape
  <2>2. \A x \in Engine : Answered(CallOf(e), x)' <=>
                            Answered(CallOf(e), x) \/ (e = xcallLock /\ x = t)
    BY <1>1, <2>1 DEF CallOf, Answered
  <2>3. ASSUME NEW x \in Engine PROVE RequestOk(e, x)'
    <3>1. RequestOk(e, x)
      BY <1>2 DEF CallOk
    <3>2. CASE x = t /\ e = xcallLock
      BY <1>1, <1>3, <1>5, <2>1, <2>2, <3>1, <3>2 DEF RequestOk
    <3>3. CASE x = t /\ e # xcallLock
      <4>1. pc[e] = "lock"
        BY <3>3 DEF LockInv, TypeInv
      <4>2. x \notin targets[e] \ targs[e]
        BY <1>2, <1>5, <4>1 DEF PlaceOk
      <4>. QED
        BY <1>1, <1>3, <2>1, <2>2, <3>1, <3>3, <4>2 DEF RequestOk
    <3>4. CASE x # t
      BY <1>1, <1>3, <2>1, <2>2, <3>1, <3>4 DEF RequestOk
    <3>. QED
      BY <3>2, <3>3, <3>4
  <2>. QED
    BY <1>1, <1>4, <2>3 DEF CallOk
<1>6. CASE ~(Answer(t) /\ handshake[t])
  <2>1. answers' = answers
    BY <1>6 DEF Interrupt, IntrStep, IntrCheck, CopyFunc, CopyArg, Answer, Run, history
  <2>2. \A x \in Engine : handshake'[x] = handshake[x]
    BY <1>6 DEF Interrupt, IntrStep, IntrCheck, CopyFunc, CopyArg, Answer, Run, TypeInv
  <2>3. \A x \in Engine : Answered(CallOf(e), x)' <=> Answered(CallOf(e), x)
    BY <1>1, <2>1 DEF Answered, CallOf
  <2>4. ASSUME NEW x \in Engine PROVE RequestOk(e, x)'
    BY <1>1, <1>2, <1>3, <2>2, <2>3 DEF CallOk, RequestOk
  <2>. QED
    BY <1>1, <1>4, <2>4 DEF CallOk
<1>. QED
  BY <1>5, <1>6

(* The calls, after any step.                                              *)
LEMMA CallNext ==
  ASSUME TypeInv, LockInv, HandInv, CallInv, FreshInv, [Next]_vars
  PROVE  CallInv'
<1>. SUFFICES ASSUME NEW e \in Engine, pc'[e] # "idle" PROVE CallOk(e)'
  BY DEF CallInv
<1>1. ASSUME NEW d \in Engine, (\E mask \in SUBSET Engine : Call(d, mask)) \/ XcallStep(d), d # e
      PROVE  CallOk(e)'
  <2>1. pc[e] = pc'[e]
    BY <1>1 DEF TypeInv, Call, XcallStep, Lock, SetFunc, SetArg, SetHandshake, Post, FirstPassDone,
         Collect, Responded, Timeout, Cancel, Unlock, Goto
  <2>. QED
    BY <1>1, <2>1, OthersCall DEF CallInv
<1>2. ASSUME NEW mask \in SUBSET Engine, Call(e, mask) PROVE CallOk(e)'
  BY <1>2, CallBegins
<1>3. ASSUME XcallStep(e) PROVE CallOk(e)'
  <2>1. pc[e] # "idle" /\ ~Unlock(e)
    BY <1>3 DEF TypeInv, XcallStep, Lock, SetFunc, SetArg, SetHandshake, Post, FirstPassDone,
         Collect, Responded, Timeout, Cancel, Unlock, Goto, At
  <2>2. CallOk(e)
    BY <2>1 DEF CallInv
  <2>. QED
    BY <1>3, <2>1, <2>2, CallGoesOn, CallAsks, CallCancels DEF XcallStep
<1>4. ASSUME NEW t \in Engine, Interrupt(t) \/ IntrStep(t) PROVE CallOk(e)'
  <2>1. pc' = pc
    BY <1>4 DEF Interrupt, IntrStep, IntrCheck, CopyFunc, CopyArg, Answer, Run
  <2>. QED
    BY <1>4, <2>1, CallIsAnswered
<1>5. ASSUME UNCHANGED vars PROVE CallOk(e)'
  BY <1>5 DEF vars, callVars, history, CallInv, CallOk, PlaceOk, RespondersOk, RequestOk, CallOf,
              Answered, Cancelled
<1>. QED
  BY <1>1, <1>2, <1>3, <1>4, <1>5 DEF Next

-----------------------------------------------------------------------------
(* The handshakes.                                                         *)

(* The requests that are out are those of the engine with the lock, which  *)
(* keeps the lock until none is.                                           *)
LEMMA HandNext ==
  ASSUME TypeInv, LockInv, HandInv, CallInv, [Next]_vars
  PROVE  HandInv'
<1>. USE XCallAssumption DEF XCallAssumption
<1>1. ASSUME NEW e \in Engine, NEW mask \in SUBSET Engine, Call(e, mask) PROVE HandInv'
  <2>1. xcallLock # e
    BY <1>1 DEF LockInv, Call, Goto, At, Holding
  <2>2. /\ xcallLock' = xcallLock /\ handshake' = handshake
        /\ \A d \in Engine : d # e => targets'[d] = targets[d] /\ targs'[d] = targs[d]
    BY <1>1 DEF Call, TypeInv
  <2>. QED
    BY <2>1, <2>2 DEF HandInv, TypeInv
<1>2. ASSUME NEW e \in Engine, Lock(e) PROVE HandInv'
  BY <1>2 DEF Lock, HandInv
<1>3. ASSUME NEW e \in Engine,
             \/ SetFunc(e) \/ SetArg(e) \/ Post(e) \/ FirstPassDone(e)
             \/ Collect(e) \/ Responded(e) \/ Timeout(e)
      PROVE  HandInv'
  BY <1>3 DEF HandInv, SetFunc, SetArg, Post, FirstPassDone, Collect, Responded, Timeout, callVars
<1>4. ASSUME NEW e \in Engine, SetHandshake(e) PROVE HandInv'
  <2>1. PICK t \in targs[e] : /\ targs' = [targs EXCEPT ![e] = @ \ {t}]
                              /\ handshake' = [handshake EXCEPT ![t] = TRUE]
    BY <1>4 DEF SetHandshake
  <2>2. xcallLock = e /\ xcallLock' = e /\ targets' = targets /\ pc[e] = "first" /\ e # None
    BY <1>4 DEF SetHandshake, Goto, At, LockInv, Holding
  <2>3. t \in targets[e]
    BY <2>1, <2>2 DEF CallInv, CallOk, PlaceOk
  <2>4. targs'[e] = targs[e] \ {t} /\ \A x \in Engine : x # t => handshake'[x] = handshake[x]
    BY <2>1 DEF TypeInv
  <2>5. ASSUME NEW x \in Engine, handshake'[x] PROVE x \in targets[e] \ targs'[e]
    <3>1. CASE x = t
      BY <2>3, <2>4, <3>1
    <3>2. CASE x # t
      BY <2>2, <2>4, <2>5, <3>2 DEF HandInv
    <3>. QED
      BY <3>1, <3>2
  <2>. QED
    BY <2>2, <2>5 DEF HandInv
<1>5. ASSUME NEW e \in Engine, Cancel(e) PROVE HandInv'
  <2>1. /\ xcallLock' = xcallLock /\ targets' = targets /\ targs' = targs
        /\ handshake' = [handshake EXCEPT ![cur[e]] = FALSE]
    BY <1>5 DEF Cancel
  <2>2. \A x \in Engine : handshake'[x] => handshake[x]
    BY <2>1 DEF TypeInv
  <2>. QED
    BY <2>1, <2>2 DEF HandInv
<1>6. ASSUME NEW e \in Engine, Unlock(e) PROVE HandInv'
  <2>1. xcallLock = e /\ pc[e] = "second" /\ targs2[e] = {} /\ handshake' = handshake
    BY <1>6 DEF Unlock, Goto, At, LockInv, Holding
  <2>2. \A t \in Engine : ~handshake[t]
    BY <2>1 DEF HandInv, CallInv, CallOk, RequestOk
  <2>. QED
    BY <2>1, <2>2 DEF HandInv
<1>7. ASSUME NEW t \in Engine, Interrupt(t) \/ IntrStep(t) PROVE HandInv'
  <2>1. xcallLock' = xcallLock /\ targets' = targets /\ targs' = targs
    BY <1>7 DEF Interrupt, IntrStep, IntrCheck, CopyFunc, CopyArg, Answer, Run, callVars
  <2>2. \A x \in Engine : handshake'[x] => handshake[x]
    BY <1>7 DEF Interrupt, IntrStep, IntrCheck, CopyFunc, CopyArg, Answer, Run, TypeInv
  <2>. QED
    BY <2>1, <2>2 DEF HandInv
<1>8. CASE UNCHANGED vars
  BY <1>8 DEF vars, callVars, HandInv
<1>. QED
  BY <1>1, <1>2, <1>3, <1>4, <1>5, <1>6, <1>7, <1>8 DEF Next, XcallStep

-----------------------------------------------------------------------------
(* What is known of a call.                                                *)

(* What any step adds to answers, cancelled and returned.                  *)
LEMMA HistoryShape ==
  ASSUME TypeInv, LockInv, HandInv, [Next]_vars
  PROVE  /\ \A c, t : Answered(c, t) => Answered(c, t)'
         /\ \A c, t : Cancelled(c, t) => Cancelled(c, t)'
         /\ \A e \in Engine, k \in Nat, t \in Engine :
              k # ncalls[e] \/ pc[e] = "idle" =>
                /\ Answered(<<e, k>>, t)' => Answered(<<e, k>>, t)
                /\ Cancelled(<<e, k>>, t)' => Cancelled(<<e, k>>, t)
<1>1. ASSUME NEW e \in Engine, (\E mask \in SUBSET Engine : Call(e, mask)) \/ XcallStep(e)
      PROVE  /\ answers' = answers
             /\ \/ cancelled' = cancelled
                \/ cancelled' = cancelled \cup {<<CallOf(e), cur[e]>>} /\ pc[e] # "idle"
  BY <1>1 DEF Call, XcallStep, Lock, SetFunc, SetArg, SetHandshake, Post, FirstPassDone, Collect,
         Responded, Timeout, Cancel, Unlock, Goto, At, history
<1>2. ASSUME NEW t \in Engine, Interrupt(t) \/ IntrStep(t), ~(Answer(t) /\ handshake[t])
      PROVE  answers' = answers /\ cancelled' = cancelled
  BY <1>2 DEF Interrupt, IntrStep, IntrCheck, CopyFunc, CopyArg, Answer, Run, history
<1>3. ASSUME NEW t \in Engine, Answer(t), handshake[t]
      PROVE  /\ cancelled' = cancelled /\ xcallLock \in Engine /\ pc[xcallLock] # "idle"
             /\ \A c, x : Answered(c, x)' <=> Answered(c, x) \/ (c = CallOf(xcallLock) /\ x = t)
  <2>1. /\ xcallLock \in Engine /\ pc[xcallLock] \in Holding /\ Current = CallOf(xcallLock)
        /\ \A c, x : Answered(c, x)' <=> Answered(c, x) \/ (c = Current /\ x = t)
    BY <1>3, AnswerShape
  <2>. QED
    BY <1>3, <2>1 DEF Answer, Holding
<1>4. CASE \E e \in Engine : (\E mask \in SUBSET Engine : Call(e, mask)) \/ XcallStep(e)
  BY <1>1, <1>4 DEF Answered, Cancelled, CallOf
<1>5. CASE \E t \in Engine : (Interrupt(t) \/ IntrStep(t)) /\ ~(Answer(t) /\ handshake[t])
  BY <1>2, <1>5 DEF Answered, Cancelled
<1>6. CASE \E t \in Engine : Answer(t) /\ handshake[t]
  <2>1. PICK t \in Engine : Answer(t) /\ handshake[t]
    BY <1>6
  <2>2. /\ cancelled' = cancelled /\ xcallLock \in Engine /\ pc[xcallLock] # "idle"
        /\ \A c, x : Answered(c, x)' <=> Answered(c, x) \/ (c = CallOf(xcallLock) /\ x = t)
    BY <1>3, <2>1
  <2>3. \A e \in Engine, k \in Nat : k # ncalls[e] \/ pc[e] = "idle" => <<e, k>> # CallOf(xcallLock)
    BY <2>2 DEF CallOf
  <2>. QED
    BY <2>2, <2>3 DEF Cancelled
<1>7. CASE UNCHANGED vars
  BY <1>7 DEF vars, history, Answered, Cancelled
<1>. QED
  BY <1>4, <1>5, <1>6, <1>7 DEF Next

(* What a step does to where a call is and how many there were.            *)
LEMMA PlaceShape ==
  ASSUME TypeInv, [Next]_vars, NEW e \in Engine
  PROVE  /\ ncalls'[e] \in Nat /\ ncalls[e] \in Nat /\ ncalls'[e] >= ncalls[e]
         /\ pc[e] = "idle" => pc'[e] = "idle" \/ ncalls'[e] > ncalls[e]
<1>1. ASSUME NEW d \in Engine, NEW mask \in SUBSET Engine, Call(d, mask)
      PROVE  /\ ncalls'[e] >= ncalls[e]
             /\ pc[e] = "idle" => pc'[e] = "idle" \/ ncalls'[e] > ncalls[e]
  BY <1>1 DEF TypeInv, Call, Goto
<1>2. ASSUME NEW d \in Engine, XcallStep(d)
      PROVE  ncalls' = ncalls /\ (pc[e] = "idle" => pc'[e] = "idle")
  BY <1>2 DEF TypeInv, XcallStep, Lock, SetFunc, SetArg, SetHandshake, Post, FirstPassDone, Collect,
         Responded, Timeout, Cancel, Unlock, Goto, At, callVars
<1>3. ASSUME NEW t \in Engine, Interrupt(t) \/ IntrStep(t) PROVE ncalls' = ncalls /\ pc' = pc
  BY <1>3 DEF Interrupt, IntrStep, IntrCheck, CopyFunc, CopyArg, Answer, Run, callVars
<1>4. CASE UNCHANGED vars
  BY <1>4 DEF vars, callVars, TypeInv
<1>5. ncalls[e] \in Nat /\ ncalls'[e] \in Nat
  BY TypeNext DEF TypeInv
<1>. QED
  BY <1>1, <1>2, <1>3, <1>4, <1>5 DEF Next

(* Nothing is known of calls to come; calls that returned are over.        *)
LEMMA FreshNext ==
  ASSUME TypeInv, LockInv, HandInv, FreshInv, [Next]_vars
  PROVE  FreshInv'
<1>1. ASSUME NEW e \in Engine, NEW k \in Nat, NEW t \in Engine, k > ncalls'[e]
      PROVE  ~Answered(<<e, k>>, t)' /\ ~Cancelled(<<e, k>>, t)'
  <2>1. ncalls[e] \in Nat /\ k > ncalls[e]
    BY <1>1, PlaceShape
  <2>2. k # ncalls[e] /\ ~Answered(<<e, k>>, t) /\ ~Cancelled(<<e, k>>, t)
    BY <2>1 DEF FreshInv
  <2>. QED
    BY <2>2, HistoryShape
<1>2. ASSUME NEW r \in returned
      PROVE  \E e \in Engine, k \in Nat :
               r.call = <<e, k>> /\ (k < ncalls'[e] \/ (k = ncalls'[e] /\ pc'[e] = "idle"))
  <2>1. PICK e \in Engine, k \in Nat :
               r.call = <<e, k>> /\ (k < ncalls[e] \/ (k = ncalls[e] /\ pc[e] = "idle"))
    BY <1>2 DEF FreshInv
  <2>. QED
    BY <2>1, PlaceShape
<1>3. \/ returned' = returned
      \/ \E e \in Engine : /\ pc'[e] = "idle" /\ ncalls'[e] = ncalls[e]
                           /\ \E r : r.call = CallOf(e) /\ returned' = returned \cup {r}
  <2>1. ASSUME NEW e \in Engine, Unlock(e)
        PROVE  /\ pc'[e] = "idle" /\ ncalls'[e] = ncalls[e]
               /\ \E r : r.call = CallOf(e) /\ returned' = returned \cup {r}
    <3>. DEFINE r == [call |-> CallOf(e), timed |-> e \in Timed,
                      targets |-> targets[e], responders |-> responders[e]]
    <3>1. r.call = CallOf(e) /\ returned' = returned \cup {r}
      BY <2>1 DEF Unlock
    <3>. HIDE DEF r
    <3>. QED
      BY <2>1, <3>1 DEF Unlock, Goto, TypeInv, callVars
  <2>2. CASE ~ \E e \in Engine : Unlock(e)
    BY <2>2 DEF Next, vars, history, Call, XcallStep, Lock, SetFunc, SetArg, SetHandshake, Post,
         FirstPassDone, Collect, Responded, Timeout, Cancel, Interrupt, IntrStep, IntrCheck,
         CopyFunc, CopyArg, Answer, Run
  <2>. QED
    BY <2>1, <2>2
<1>4. ASSUME NEW r \in returned'
      PROVE  \E e \in Engine, k \in Nat :
               r.call = <<e, k>> /\ (k < ncalls'[e] \/ (k = ncalls'[e] /\ pc'[e] = "idle"))
  BY <1>2, <1>3, <1>4, PlaceShape DEF CallOf
<1>. QED
  BY <1>1, <1>4 DEF FreshInv

(* What is said of a call when it returns remains true.                    *)
LEMMA RespondersNext ==
  ASSUME TypeInv, LockInv, HandInv, CallInv, FreshInv, RespondersExact, [Next]_vars
  PROVE  RespondersExact'
<1>. DEFINE A(c) == {t \in Engine : Answered(c, t)}
            C(c) == {t \in Engine : Cancelled(c, t)}
            Exact(r) == /\ r.targets = A(r.call) \cup C(r.call)
                        /\ r.timed => r.responders = A(r.call)
                        /\ \A t \in A(r.call) : t \notin C(r.call)
<1>1. /\ RespondersExact <=> \A r \in returned : Exact(r)
      /\ RespondersExact' <=> \A r \in returned' : Exact(r)'
  BY DEF RespondersExact, Answered, Cancelled
<1>2. ASSUME NEW r \in returned PROVE Exact(r)'
  <2>1. PICK e \in Engine, k \in Nat :
               r.call = <<e, k>> /\ (k < ncalls[e] \/ (k = ncalls[e] /\ pc[e] = "idle"))
    BY <1>2 DEF FreshInv
  <2>2. k # ncalls[e] \/ pc[e] = "idle"
    BY <2>1 DEF TypeInv
  <2>3. \A t \in Engine : /\ Answered(r.call, t)' <=> Answered(r.call, t)
                          /\ Cancelled(r.call, t)' <=> Cancelled(r.call, t)
    BY <2>1, <2>2, HistoryShape
  <2>4. A(r.call)' = A(r.call) /\ C(r.call)' = C(r.call)
    BY <2>3
  <2>5. Exact(r)
    BY <1>1, <1>2
  <2>. HIDE DEF A, C
  <2>. QED
    BY <2>4, <2>5
<1>3. ASSUME NEW e \in Engine, Unlock(e) PROVE \A r \in returned' : Exact(r)'
  <2>. DEFINE r == [call |-> CallOf(e), timed |-> e \in Timed,
                    targets |-> targets[e], responders |-> responders[e]]
  <2>1. /\ returned' = returned \cup {r} /\ pc[e] = "second" /\ targs2[e] = {}
        /\ answers' = answers /\ cancelled' = cancelled
    BY <1>3 DEF Unlock, Goto, At
  <2>2. PlaceOk(e) /\ RespondersOk(e) /\ \A t \in Engine : RequestOk(e, t)
    BY <2>1 DEF CallInv, CallOk
  <2>3. targs[e] = {} /\ targets[e] \subseteq Engine
    BY <2>1, <2>2 DEF PlaceOk, TypeInv
  <2>4. \A t \in Engine :
          /\ t \in targets[e] <=> Answered(CallOf(e), t) \/ Cancelled(CallOf(e), t)
          /\ ~(Answered(CallOf(e), t) /\ Cancelled(CallOf(e), t))
    BY <2>1, <2>2, <2>3 DEF RequestOk
  <2>5. e \in Timed => responders[e] = {t \in Engine : Answered(CallOf(e), t)}
    BY <2>2, <2>3, <2>4 DEF RespondersOk
  <2>6. \A c, t : (Answered(c, t)' <=> Answered(c, t)) /\ (Cancelled(c, t)' <=> Cancelled(c, t))
    BY <2>1 DEF Answered, Cancelled
  <2>7. Exact(r)
    <3>1. r.targets = A(r.call) \cup C(r.call)
      BY <2>3, <2>4
    <3>2. r.timed => r.responders = A(r.call)
      BY <2>5
    <3>3. \A t \in A(r.call) : t \notin C(r.call)
      BY <2>4
    <3>. QED
      BY <3>1, <3>2, <3>3
  <2>8. ASSUME NEW s, Exact(s) PROVE Exact(s)'
    BY <2>6, <2>8
  <2>9. ASSUME NEW s \in returned' PROVE Exact(s)'
    <3>1. CASE s \in returned
      BY <1>2, <3>1
    <3>2. CASE s = r
      <4>. HIDE DEF r, Exact
      <4>. QED
        BY <2>7, <2>8, <3>2
    <3>. QED
      BY <2>1, <2>9, <3>1, <3>2
  <2>. QED
    BY <2>9
<1>4. CASE ~ \E e \in Engine : Unlock(e)
  <2>1. returned' = returned
    BY <1>4 DEF Next, vars, history, Call, XcallStep, Lock, SetFunc, SetArg, SetHandshake, Post,
         FirstPassDone, Collect, Responded, Timeout, Cancel, Interrupt, IntrStep, IntrCheck,
         CopyFunc, CopyArg, Answer, Run
  <2>. QED
    BY <1>1, <1>2, <2>1
<1>. QED
  BY <1>1, <1>3, <1>4

-----------------------------------------------------------------------------
(* The engines that were never late.                                       *)

(* A request that is out is that of the call with the lock, and that call  *)
(* has filled in xcall_params.                                             *)
LEMMA WhileOut ==
  ASSUME TypeInv, LockInv, HandInv, CallInv, ParamInv, NEW t \in Engine, handshake[t]
  PROVE  xcallLock \in Engine /\ func = Current /\ arg = Current
<1>1. /\ xcallLock # None /\ xcallLock \in Engine /\ pc[xcallLock] \in Holding
      /\ t \in targets[xcallLock] \ targs[xcallLock]
  BY DEF HandInv, TypeInv, LockInv
<1>2. pc[xcallLock] # "idle"
  BY <1>1 DEF Holding
<1>3. pc[xcallLock] \notin {"setFunc", "setArg"}
  BY <1>1, <1>2 DEF CallInv, CallOk, PlaceOk
<1>. QED
  BY <1>1, <1>3 DEF ParamInv, Current

(* Nothing happens to the frames and the request of t.                     *)
LEMMA OnTimeSame ==
  ASSUME NEW t \in Engine, OnTime(t), frames'[t] = frames[t],
         pending'[t] <=> pending[t], handshake'[t] <=> handshake[t],
         NotRun(t) # {} => Current' = Current,
         \A e \in Engine : pc'[e] = "post" /\ cur'[e] = t => pc[e] = "post" /\ cur[e] = t
  PROVE  OnTime(t)'
<1>1. NotRun(t)' = NotRun(t)
  BY DEF NotRun
<1>. QED
  BY <1>1 DEF OnTime

(* Another engine calls, or goes on with its call.                         *)
LEMMA OnTimeCall ==
  ASSUME TypeInv, LockInv, HandInv, CallInv, ParamInv, NEW t \in Engine, OnTime(t), t \notin LateEngine',
         NEW e \in Engine, (\E mask \in SUBSET Engine : Call(e, mask)) \/ XcallStep(e)
  PROVE  OnTime(t)'
<1>. USE XCallAssumption DEF XCallAssumption
<1>1. frames' = frames /\ pc \in [Engine -> Holding \cup {"idle", "lock"}]
  BY DEF TypeInv, Call, XcallStep, Lock, SetFunc, SetArg, SetHandshake, Post, FirstPassDone, Collect,
         Responded, Timeout, Cancel, Unlock, history
<1>2. NotRun(t) # {} => xcallLock \in Engine
  BY WhileOut DEF OnTime
<1>3. CASE \E mask \in SUBSET Engine : Call(e, mask)
  <2>1. /\ handshake' = handshake /\ pending' = pending /\ cur' = cur /\ xcallLock' = xcallLock
        /\ pc' = [pc EXCEPT ![e] = "lock"] /\ pc[e] = "idle"
        /\ \A d \in Engine : d # e => ncalls'[d] = ncalls[d]
    BY <1>3 DEF Call, Goto, At, TypeInv
  <2>2. xcallLock # e
    BY <2>1 DEF LockInv, Holding
  <2>3. NotRun(t) # {} => Current' = Current
    BY <1>2, <2>1, <2>2 DEF Current, CallOf
  <2>. QED
    BY <1>1, <2>1, <2>3, OnTimeSame
<1>4. CASE Lock(e)
  <2>1. handshake' = handshake /\ pending' = pending /\ cur' = cur
        /\ pc' = [pc EXCEPT ![e] = "setFunc"] /\ xcallLock = None
    BY <1>4 DEF Lock, Goto, callVars
  <2>. QED
    BY <1>1, <1>2, <2>1, OnTimeSame
<1>5. CASE SetFunc(e) \/ SetArg(e) \/ FirstPassDone(e) \/ Collect(e) \/ Responded(e) \/ Timeout(e)
  <2>1. /\ handshake' = handshake /\ pending' = pending /\ xcallLock' = xcallLock /\ ncalls' = ncalls
        /\ \A d \in Engine : d # e => pc'[d] = pc[d] /\ cur'[d] = cur[d]
        /\ pc'[e] # "post"
    BY <1>1, <1>5 DEF SetFunc, SetArg, FirstPassDone, Collect, Responded, Timeout, Goto, callVars, TypeInv
  <2>2. Current' = Current
    BY <2>1 DEF Current, CallOf
  <2>. QED
    BY <1>1, <2>1, <2>2, OnTimeSame
<1>6. CASE SetHandshake(e)
  <2>1. PICK x \in targs[e] : /\ cur' = [cur EXCEPT ![e] = x]
                              /\ handshake' = [handshake EXCEPT ![x] = TRUE]
    BY <1>6 DEF SetHandshake
  <2>2. /\ pc[e] = "first" /\ pc' = [pc EXCEPT ![e] = "post"] /\ xcallLock = e /\ x \in Engine
        /\ pending' = pending /\ xcallLock' = xcallLock /\ ncalls' = ncalls
    BY <1>6, <2>1 DEF SetHandshake, Goto, At, LockInv, Holding, TypeInv
  <2>3. \A d \in Engine : d # e => pc[d] # "post"
    BY <2>2 DEF LockInv, Holding
  <2>4. \A d \in Engine : d # e => pc'[d] # "post"
    BY <1>1, <2>2, <2>3
  <2>5. CASE t = x
    <3>1. ~handshake[x]
      BY <2>1, <2>2 DEF HandInv
    <3>2. NotRun(t) = {} /\ ~pending[t] /\ NotRun(t)' = {} /\ ~pending'[t] /\ handshake'[t]
      BY <1>1, <2>1, <2>2, <2>5, <3>1 DEF OnTime, NotRun, TypeInv
    <3>. QED
      BY <3>2 DEF OnTime
  <2>6. CASE t # x
    <3>1. /\ handshake'[t] = handshake[t] /\ cur'[e] = x
          /\ \A d \in Engine : pc'[d] = "post" /\ cur'[d] = t => FALSE
      BY <2>1, <2>2, <2>4, <2>6 DEF TypeInv
    <3>2. Current' = Current
      BY <2>2 DEF Current, CallOf
    <3>. QED
      BY <1>1, <2>2, <3>1, <3>2, OnTimeSame
  <2>. QED
    BY <2>5, <2>6
<1>7. CASE Post(e)
  <2>1. /\ pc[e] = "post" /\ pc' = [pc EXCEPT ![e] = "first"] /\ xcallLock = e
        /\ pending' = [pending EXCEPT ![cur[e]] = TRUE]
        /\ handshake' = handshake /\ xcallLock' = xcallLock /\ ncalls' = ncalls /\ cur' = cur
    BY <1>7 DEF Post, Goto, At, LockInv, Holding, callVars
  <2>2. \A d \in Engine : pc'[d] # "post"
    <3>1. \A d \in Engine : d # e => pc[d] # "post"
      BY <2>1 DEF LockInv, Holding
    <3>. QED
      BY <1>1, <2>1, <3>1
  <2>3. Current' = Current /\ NotRun(t)' = NotRun(t)
    BY <1>1, <2>1 DEF Current, CallOf, NotRun
  <2>4. CASE cur[e] = t
    <3>1. handshake[t] /\ NotRun(t) = {}
      BY <2>1, <2>4 DEF OnTime
    <3>. QED
      BY <2>1, <2>2, <2>3, <3>1 DEF OnTime
  <2>5. CASE cur[e] # t
    <3>1. pending'[t] = pending[t]
      BY <2>1, <2>5 DEF TypeInv
    <3>. QED
      BY <1>1, <2>1, <2>2, <2>3, <3>1, OnTimeSame
  <2>. QED
    BY <2>4, <2>5
<1>8. CASE Cancel(e)
  <2>1. /\ pc[e] = "cancel" /\ pc' = [pc EXCEPT ![e] = "second"]
        /\ pending' = pending /\ xcallLock' = xcallLock /\ ncalls' = ncalls /\ cur' = cur
        /\ handshake' = [handshake EXCEPT ![cur[e]] = FALSE]
    BY <1>8 DEF Cancel, Goto, At
  <2>2. handshake'[t] <=> handshake[t]
    <3>1. CASE cur[e] = t /\ handshake[t]
      <4>1. CallOf(e) \in CallId
        BY <2>1 DEF CallInv, CallOk, PlaceOk, CallOf, CallId
      <4>2. Cancelled(CallOf(e), t)'
        BY <1>8, <2>1, <3>1 DEF Cancel, Cancelled, CallOf
      <4>3. (CallOf(e) \in CallId)' /\ CallOf(e)' = CallOf(e)
        BY <2>1, <4>1 DEF CallOf, CallId
      <4>. QED
        BY <4>1, <4>2, <4>3 DEF LateEngine
    <3>2. CASE cur[e] = t /\ ~handshake[t]
      BY <2>1, <3>2 DEF TypeInv
    <3>3. CASE cur[e] # t
      <4>1. handshake'[t] = handshake[t]
        BY <2>1, <3>3 DEF TypeInv
      <4>. QED
        BY <4>1
    <3>. QED
      BY <3>1, <3>2, <3>3
  <2>3. Current' = Current
    BY <2>1 DEF Current, CallOf
  <2>4. \A d \in Engine : pc'[d] = "post" => pc[d] = "post"
    BY <1>1, <2>1
  <2>. QED
    BY <1>1, <2>1, <2>2, <2>3, <2>4, OnTimeSame
<1>9. CASE Unlock(e)
  <2>1. /\ pc[e] = "second" /\ targs2[e] = {} /\ pc' = [pc EXCEPT ![e] = "idle"] /\ xcallLock = e
        /\ pending' = pending /\ handshake' = handshake /\ cur' = cur
    BY <1>9 DEF Unlock, Goto, At, LockInv, Holding, callVars
  <2>2. ~handshake[t]
    BY <2>1 DEF HandInv, CallInv, CallOk, RequestOk
  <2>3. NotRun(t) = {}
    BY <2>2 DEF OnTime
  <2>4. \A d \in Engine : pc'[d] = "post" => pc[d] = "post"
    BY <1>1, <2>1
  <2>. QED
    BY <1>1, <2>1, <2>3, <2>4, OnTimeSame
<1>. QED
  BY <1>3, <1>4, <1>5, <1>6, <1>7, <1>8, <1>9 DEF XcallStep

(* The engine takes the interrupt.                                         *)
LEMMA OnTimeInterrupt ==
  ASSUME TypeInv, NEW t \in Engine, OnTime(t), NEW s \in Engine, Interrupt(s)
  PROVE  OnTime(t)'
<1>. DEFINE f == [pc |-> "check", func |-> None, arg |-> None]
<1>1. /\ f \in XFrame /\ f.pc = "check"
      /\ frames' = [frames EXCEPT ![s] = Append(@, f)]
      /\ pending[s] /\ pending' = [pending EXCEPT ![s] = FALSE]
      /\ handshake' = handshake /\ pc' = pc /\ cur' = cur /\ Current' = Current
  BY DEF Interrupt, XFrame, Param, callVars, Current, CallOf
<1>. HIDE DEF f
<1>2. FramePush(s, f)
  BY <1>1, PushShape
<1>3. CASE s # t
  BY <1>1, <1>2, <1>3, OnTimeSame DEF FramePush, Others, TypeInv
<1>4. CASE s = t
  <2>1. NotRun(t) = {} /\ handshake[t] /\ \A e \in Engine : ~(pc[e] = "post" /\ cur[e] = t)
    BY <1>1, <1>4 DEF OnTime
  <2>2. PICK n \in Nat : n = Len(frames[t])
    BY LenProperties DEF TypeInv
  <2>3. /\ \A i \in 1..n : frames'[t][i] = frames[t][i]
        /\ Len(frames'[t]) = n + 1 /\ frames'[t][n + 1] = f
    BY <1>2, <1>4, <2>2 DEF FramePush
  <2>4. NotRun(t)' = {n + 1}
    BY <1>1, <2>1, <2>2, <2>3 DEF NotRun
  <2>5. ~pending'[t]
    BY <1>1, <1>4 DEF TypeInv
  <2>. QED
    BY <1>1, <2>1, <2>3, <2>4, <2>5 DEF OnTime
<1>. QED
  BY <1>3, <1>4

(* xcall_intr goes on.                                                     *)
LEMMA OnTimeIntr ==
  ASSUME TypeInv, LockInv, HandInv, CallInv, ParamInv, NEW t \in Engine, OnTime(t),
         NEW s \in Engine, IntrStep(s)
  PROVE  OnTime(t)'
<1>1. /\ pending' = pending /\ pc' = pc /\ cur' = cur /\ Current' = Current
  BY DEF IntrStep, IntrCheck, CopyFunc, CopyArg, Answer, Run, callVars, Current, CallOf
<1>2. CASE s # t
  <2>1. frames'[t] = frames[t] /\ handshake'[t] = handshake[t]
    BY <1>2, IntrShape DEF FrameChange, FramePop, Others, TypeInv
  <2>. QED
    BY <1>1, <2>1, OnTimeSame
<1>3. CASE s = t
  <2>1. frames[t] # <<>>
    BY <1>3, IntrShape
  <2>2. PICK n \in Nat \ {0} :
          /\ n = Len(frames[t]) /\ n \in 1..n /\ Top(t) = frames[t][n] /\ Top(t) \in XFrame
          /\ frames[t] \in Seq(XFrame)
    BY <2>1, TopFrame
  <2>3. CASE Top(t).pc # "run"
    <3>1. n \in NotRun(t)
      BY <2>2, <2>3 DEF NotRun
    <3>2. /\ NotRun(t) = {n} /\ handshake[t] /\ ~pending[t]
          /\ \A e \in Engine : ~(pc[e] = "post" /\ cur[e] = t)
          /\ Top(t).pc \in {"arg", "fetch"} => Top(t).func = Current
          /\ Top(t).pc = "fetch" => Top(t).arg = Current
      BY <2>2, <3>1 DEF OnTime
    <3>3. func = Current /\ arg = Current
      BY <3>2, WhileOut
    <3>4. PICK f \in XFrame :
            /\ SetTop(t, f) /\ f.pc \in {"func", "arg", "fetch", "run"}
            /\ f.pc # "run" => handshake' = handshake
            /\ f.pc = "run" => handshake' = [handshake EXCEPT ![t] = FALSE]
            /\ f.pc \in {"arg", "fetch"} => f.func = Current
            /\ f.pc = "fetch" => f.arg = Current
      <4>1. CASE IntrCheck(t)
        <5>. DEFINE f == [Top(t) EXCEPT !.pc = "func"]
        <5>1. SetTop(t, f) /\ handshake' = handshake
          BY <3>2, <4>1 DEF IntrCheck
        <5>2. f \in XFrame /\ f.pc = "func"
          BY <2>2 DEF XFrame
        <5>. HIDE DEF f
        <5>. QED
          BY <5>1, <5>2
      <4>2. CASE CopyFunc(t)
        <5>. DEFINE f == [Top(t) EXCEPT !.pc = "arg", !.func = func]
        <5>1. SetTop(t, f) /\ handshake' = handshake
          BY <4>2 DEF CopyFunc
        <5>2. f \in XFrame /\ f.pc = "arg" /\ f.func = Current
          BY <2>2, <3>3 DEF XFrame, TypeInv
        <5>. HIDE DEF f
        <5>. QED
          BY <5>1, <5>2
      <4>3. CASE CopyArg(t)
        <5>. DEFINE f == [Top(t) EXCEPT !.pc = "fetch", !.arg = arg]
        <5>1. SetTop(t, f) /\ handshake' = handshake /\ Top(t).pc = "arg"
          BY <4>3 DEF CopyArg, Working
        <5>2. f \in XFrame /\ f.pc = "fetch" /\ f.func = Current /\ f.arg = Current
          BY <2>2, <3>2, <3>3, <5>1 DEF XFrame, TypeInv
        <5>. HIDE DEF f
        <5>. QED
          BY <5>1, <5>2
      <4>4. CASE Answer(t)
        <5>. DEFINE f == [Top(t) EXCEPT !.pc = "run"]
        <5>1. SetTop(t, f) /\ handshake' = [handshake EXCEPT ![t] = FALSE]
          BY <3>2, <4>4 DEF Answer
        <5>2. f \in XFrame /\ f.pc = "run"
          BY <2>2 DEF XFrame
        <5>. HIDE DEF f
        <5>. QED
          BY <5>1, <5>2
      <4>. QED
        BY <1>3, <2>3, <4>1, <4>2, <4>3, <4>4 DEF IntrStep, Run, Working
    <3>5. FrameChange(t, f)
      BY <2>1, <3>4, SetTopShape
    <3>6. /\ Len(frames'[t]) = n /\ frames'[t][n] = f
          /\ \A i \in 1..n - 1 : frames'[t][i] = frames[t][i]
      BY <2>2, <3>5 DEF FrameChange, Kept
    <3>7. \A i \in 1..n - 1 : frames'[t][i].pc = "run"
      BY <2>2, <3>2, <3>6 DEF NotRun
    <3>8. CASE f.pc # "run"
      <4>1. NotRun(t)' = {n}
        BY <2>2, <3>6, <3>7, <3>8 DEF NotRun
      <4>. QED
        BY <1>1, <3>2, <3>4, <3>6, <3>8, <4>1 DEF OnTime
    <3>9. CASE f.pc = "run"
      <4>1. NotRun(t)' = {}
        BY <2>2, <3>6, <3>7, <3>9 DEF NotRun
      <4>. QED
        BY <1>1, <3>2, <4>1 DEF OnTime
    <3>. QED
      BY <3>8, <3>9
  <2>4. CASE Top(t).pc = "run"
    <3>1. Run(t)
      BY <1>3, <2>4 DEF IntrStep, IntrCheck, CopyFunc, CopyArg, Answer, Run, Working
    <3>2. FramePop(t) /\ handshake' = handshake
      BY <2>1, <3>1, PopShape DEF Run
    <3>3. Len(frames'[t]) = n - 1 /\ \A i \in 1..n - 1 : frames'[t][i] = frames[t][i]
      BY <2>2, <3>2 DEF FramePop, Kept
    <3>4. NotRun(t)' = NotRun(t)
      BY <2>2, <2>4, <3>3 DEF NotRun
    <3>5. \A i \in NotRun(t) : frames'[t][i] = frames[t][i]
      BY <2>2, <2>4, <3>3 DEF NotRun
    <3>. QED
      BY <1>1, <3>2, <3>4, <3>5 DEF OnTime
  <2>. QED
    BY <2>3, <2>4
<1>. QED
  BY <1>2, <1>3

(* Late engines stay late, and the others on time.                         *)
LEMMA LateNext ==
  ASSUME TypeInv, LockInv, HandInv, CallInv, ParamInv, LateInv, [Next]_vars
  PROVE  LateInv'
<1>1. LateEngine \subseteq LateEngine'
  BY HistoryShape DEF LateEngine, CallId
<1>. SUFFICES ASSUME NEW t \in Engine, t \notin LateEngine' PROVE OnTime(t)'
  BY DEF LateInv
<1>2. OnTime(t)
  BY <1>1 DEF LateInv
<1>3. ASSUME NEW e \in Engine, (\E mask \in SUBSET Engine : Call(e, mask)) \/ XcallStep(e)
      PROVE  OnTime(t)'
  BY <1>2, <1>3, OnTimeCall
<1>4. ASSUME NEW s \in Engine, Interrupt(s) \/ IntrStep(s) PROVE OnTime(t)'
  BY <1>2, <1>4, OnTimeInterrupt, OnTimeIntr
<1>5. ASSUME UNCHANGED vars PROVE OnTime(t)'
  BY <1>2, <1>5, OnTimeSame DEF vars, callVars, Current, CallOf
<1>. QED
  BY <1>3, <1>4, <1>5 DEF Next

(* An engine that answers on time has the parameters of the call.          *)
LEMMA AnswersNext ==
  ASSUME TypeInv, LockInv, HandInv, LateInv, AnswersInv, [Next]_vars
  PROVE  AnswersInv'
<1>1. LateEngine \subseteq LateEngine'
  BY HistoryShape DEF LateEngine, CallId
<1>2. ASSUME NEW t \in Engine, Answer(t), handshake[t] PROVE AnswersInv'
  <2>1. PICK a : /\ answers' = answers \cup {a} /\ a.eng = t /\ a.call = Current
                 /\ a.func = Top(t).func /\ a.arg = Top(t).arg
    BY <1>2, AnswerShape
  <2>2. t \in LateEngine \/ (Top(t).func = Current /\ Top(t).arg = Current)
    <3>1. frames[t] # <<>> /\ Top(t).pc = "fetch"
      BY <1>2 DEF Answer, Working
    <3>2. Len(frames[t]) \in 1..Len(frames[t]) /\ Top(t) = frames[t][Len(frames[t])]
      BY <3>1, TopFrame
    <3>3. Len(frames[t]) \in NotRun(t)
      BY <3>1, <3>2 DEF NotRun
    <3>. QED
      BY <3>1, <3>2, <3>3 DEF LateInv, OnTime
  <2>. QED
    BY <1>1, <2>1, <2>2 DEF AnswersInv
<1>3. CASE ~ \E t \in Engine : Answer(t) /\ handshake[t]
  <2>1. answers' = answers
    BY <1>3 DEF Next, vars, history, Call, XcallStep, Lock, SetFunc, SetArg, SetHandshake, Post,
         FirstPassDone, Collect, Responded, Timeout, Cancel, Unlock, Interrupt, IntrStep, IntrCheck,
         CopyFunc, CopyArg, Answer, Run
  <2>. QED
    BY <1>1, <2>1 DEF AnswersInv
<1>. QED
  BY <1>2, <1>3

-----------------------------------------------------------------------------
(* The theorems.                                                           *)

(* In the initial state nobody calls.                                      *)
LEMMA InitInv == Init => IInv
<1>. SUFFICES ASSUME Init PROVE IInv
  OBVIOUS
<1>. USE XCallAssumption DEF XCallAssumption
<1>1. TypeInv
  <2>1. <<>> \in Seq(XFrame)
    OBVIOUS
  <2>. QED
    BY <2>1 DEF Init, TypeInv, Param, Holding
<1>2. LockInv /\ CallInv /\ HandInv /\ ParamInv
  BY DEF Init, LockInv, CallInv, HandInv, ParamInv, Holding
<1>3. FreshInv /\ RespondersExact /\ AnswersInv
  BY DEF Init, FreshInv, RespondersExact, AnswersInv, Answered, Cancelled
<1>4. ASSUME NEW t \in Engine PROVE OnTime(t)
  <2>1. NotRun(t) = {}
    BY DEF Init, NotRun
  <2>. QED
    BY <2>1 DEF Init, OnTime
<1>. QED
  BY <1>1, <1>2, <1>3, <1>4 DEF IInv, LateInv

(* Every step keeps the invariant.                                         *)
LEMMA NextInv == IInv /\ [Next]_vars => IInv'
  BY TypeNext, LockNext, CallNext, HandNext, ParamNext, FreshNext, RespondersNext, LateNext,
     AnswersNext DEF IInv

(* The invariant of cross-processor calls: the types, the lock, where each *)
(* call is, and what has become of each of its requests.                   *)
THEOREM Invariance == Spec => []IInv
  BY InitInv, NextInv, PTL DEF Spec

(* Whichever of the timeout and the late answer comes first, a call that   *)
(* returns has each of its targets either in responders, with an answer,   *)
(* or out of it, with its request cancelled.                               *)
THEOREM RespondersAreExact == Spec => []RespondersExact
<1>1. IInv => RespondersExact
  BY DEF IInv
<1>. QED
  BY <1>1, Invariance, PTL

(* An engine runs a mixture of two calls, or is in xcall_intr twice before *)
(* it answers, only if it was late for a request that has been cancelled:  *)
(* without timed calls xcall_params needs no protection but the wait.      *)
THEOREM OnlyTheLateAreStale == Spec => []StaleOnlyAfterCancel
<1>1. IInv => StaleOnlyAfterCancel
  <2>. SUFFICES ASSUME IInv PROVE StaleOnlyAfterCancel
    OBVIOUS
  <2>1. AnswersInv /\ LateInv /\ TypeInv
    BY DEF IInv
  <2>2. LateEngine = {t \in Engine : \E c \in CallId : <<c, t>> \in cancelled}
    BY DEF LateEngine, Cancelled
  <2>3. ASSUME NEW t \in Engine, Cardinality(NotRun(t)) > 1, t \notin LateEngine PROVE FALSE
    <3>1. \A i, j \in NotRun(t) : i = j
      BY <2>1, <2>3 DEF LateInv, OnTime
    <3>2. CASE NotRun(t) = {}
      BY <2>3, <3>2, FS_EmptySet
    <3>3. CASE NotRun(t) # {}
      <4>1. PICK i : NotRun(t) = {i}
        BY <3>1, <3>3
      <4>2. Cardinality({i}) = 1
        BY FS_Singleton
      <4>. QED
        BY <2>3, <4>1, <4>2
    <3>. QED
      BY <3>2, <3>3
  <2>. QED
    BY <2>1, <2>2, <2>3 DEF StaleOnlyAfterCancel, AnswersInv, NotRun
<1>. QED
  BY <1>1, Invariance, PTL
=============================================================================
