--------------------------- MODULE PostWaitProofs ---------------------------
(***************************************************************************)
(* Proofs about PostWait for every number of LWPs, posters, timeouts and   *)
(* signals: nobody sleeps on a post that has been recorded; and for one    *)
(* LWP that waits, a timeout never outlives its call of pwwait.            *)
(***************************************************************************)
EXTENDS PostWait, FiniteSetTheorems, TLAPS

-----------------------------------------------------------------------------
(* The inductive invariant.                                                *)

Flags == {"PWTIME", "PWPOST"}

WaiterPcs == {"idle", "poll", "yielded", "pollClear", "lock", "test", "take", "refuse", "arm", "itimeout",
              "again", "sleep", "asleep", "untimeout", "sigUntimeout", "signalled", "relock", "check",
              "expired", "clear"}

PosterPcs == {"idle", "blkd", "cast", "set", "unlock"}

CalloutStates == {"free", "armed", "lock", "clear", "cast", "done"}

TypeInv ==
  /\ pwflag \subseteq Flags /\ pwsv \subseteq Waiter /\ mutex \in Context \cup {None}
  /\ reg \in [Context -> {None} \cup SUBSET Flags]
  /\ pc \in [Waiter \cup Poster -> WaiterPcs \cup PosterPcs]
  /\ \A w \in Waiter : pc[w] \in WaiterPcs
  /\ \A p \in Poster : pc[p] \in PosterPcs
  /\ time \in [Waiter -> {"poll", "timed", "forever", "invalid"}]
  /\ \A w \in Waiter : time[w] = "poll" => pc[w] \in {"idle", "poll", "yielded", "pollClear"}
  /\ id \in [Waiter -> Callout \cup {None}]
  /\ callout \in [Callout -> CalloutStates]
  /\ ntimed \in 0..MaxTimed

(* Where p_mutex is held.                                                  *)
MutexInv ==
  /\ \A w \in Waiter : pc[w] \in {"test", "take", "refuse", "arm", "itimeout", "again", "sleep", "check",
                                  "expired"}
                       => mutex = w
  /\ \A p \in Poster : pc[p] # "idle" => mutex = p
  /\ \A n \in Callout : callout[n] = "clear" => mutex = n

(* Where a p_pwflag that has been loaded is still to be stored; and the    *)
(* timeouts that have not been set.                                        *)
RegInv ==
  /\ \A n \in Callout : n > ntimed => callout[n] = "free"
  /\ \A w \in Waiter : pc[w] \notin {"pollClear", "take", "arm", "again", "signalled", "expired", "clear"}
                       => reg[w] = None
  /\ \A p \in Poster : pc[p] # "set" => reg[p] = None
  /\ \A n \in Callout : callout[n] # "clear" => reg[n] = None

(* PWPOST is not in what somebody loaded.                                  *)
NotLoaded(c) == reg[c] # None => "PWPOST" \notin reg[c]

(* Who sleeps, or is going to under p_mutex, sees no PWPOST, and nobody    *)
(* who will store p_pwflag without clearing PWPOST has loaded it.          *)
PostInv ==
  /\ NoSleepOnPost
  /\ \A p \in Poster : pc[p] = "set" => pwsv = {}
  /\ \A n \in Callout : NotLoaded(n) \/ pwsv = {}
  /\ \A w \in Waiter : pc[w] \in {"arm", "itimeout", "again", "sleep"} => "PWPOST" \notin pwflag /\ NotLoaded(w)

IInv == TypeInv /\ MutexInv /\ RegInv /\ PostInv

(* The timeouts that have yet to clear PWTIME.                             *)
Live(n) == callout[n] \in {"armed", "lock", "clear"}

(* A timeout is live only during the sleep it was set for, and then PWTIME *)
(* is in p_pwflag and in what any poster has loaded.                       *)
LiveInv ==
  /\ \A w \in Waiter : pc[w] \in {"arm", "itimeout"} => time[w] = "timed"
  /\ \A w \in Waiter : pc[w] = "itimeout" => "PWTIME" \in pwflag
  /\ \A n \in Callout : Live(n) =>
       /\ \E w \in Waiter : /\ id[w] = n /\ time[w] = "timed"
                            /\ pc[w] \in {"sleep", "asleep", "relock", "check", "untimeout", "sigUntimeout"}
       /\ "PWTIME" \in pwflag
       /\ \A p \in Poster : reg[p] # None => "PWTIME" \in reg[p]

-----------------------------------------------------------------------------
(* Who is who: LWPs, posters and timeouts are different things.            *)
LEMMA Different ==
  /\ \A w \in Waiter, p \in Poster : w # p
  /\ \A w \in Waiter, n \in Callout : w # n
  /\ \A p \in Poster, n \in Callout : p # n
  /\ \A c \in Context : c # None
  /\ Waiter \subseteq Context /\ Poster \subseteq Context /\ Callout \subseteq Context
BY PostWaitAssumption DEF Context

(* What loading p_pwflag and storing it do to the types.                   *)
LEMMA LoadType ==
  ASSUME TypeInv, NEW c \in Context, Load(c)
  PROVE  pwflag' \subseteq Flags /\ reg' \in [Context -> {None} \cup SUBSET Flags]
BY DEF TypeInv, Load

(* A store puts back flags, and leaves the register with flags or nothing.  *)
LEMMA StoreType ==
  ASSUME TypeInv, NEW c \in Context, NEW off, NEW on \in SUBSET Flags, Store(c, off, on)
  PROVE  pwflag' \subseteq Flags /\ reg' \in [Context -> {None} \cup SUBSET Flags]
BY DEF TypeInv, Store

-----------------------------------------------------------------------------
(* Type correctness.                                                       *)

(* The steps of pwwait keep the types.                                     *)
LEMMA WaiterType ==
  ASSUME TypeInv, NEW w \in Waiter, PwWait(w) \/ WaitStep(w) \/ Signal(w)
  PROVE  TypeInv'
<1> USE Different DEF TypeInv, Goto, At, Acquire, syncVars, waitVars, counters, history, Flags, WaiterPcs, PosterPcs, CalloutStates
<1>1. CASE PwWait(w)
  BY <1>1, PostWaitAssumption DEF PwWait
<1>2. CASE PollTest(w)
  <2>1. CASE Poll(w, "poll", "yielded")
    BY <2>1 DEF Poll
  <2>2. CASE Poll(w, "yielded", "idle")
    BY <2>2 DEF Poll
  <2> QED
    BY <1>2, <2>1, <2>2 DEF PollTest
<1>3. CASE PollClear(w)
  BY <1>3, LoadType, StoreType DEF PollClear
<1>4. CASE LockMutex(w)
  BY <1>4 DEF LockMutex
<1>5. CASE TestPost(w)
  BY <1>5 DEF TestPost, AfterTest
<1>6. CASE TakePost(w)
  BY <1>6, LoadType, StoreType DEF TakePost
<1>7. CASE Refuse(w)
  BY <1>7 DEF Refuse
<1>8. CASE SetTime(w)
  BY <1>8, LoadType, StoreType DEF SetTime
<1>9. CASE Itimeout(w)
  <2>1. CASE ntimed' = ntimed + 1
    <3>1. ntimed' \in 0..MaxTimed /\ ntimed' \in Callout
      BY <1>9, <2>1, PostWaitAssumption DEF Itimeout, Callout
    <3> QED
      BY <1>9, <2>1, <3>1 DEF Itimeout
  <2>2. CASE ntimed' # ntimed + 1
    BY <1>9, <2>2 DEF Itimeout
  <2> QED
    BY <2>1, <2>2
<1>10. CASE NoTimeout(w)
  BY <1>10, LoadType, StoreType DEF NoTimeout
<1>11. CASE Sleep(w)
  BY <1>11 DEF Sleep
<1>12. CASE Signal(w)
  BY <1>12 DEF Signal
<1>13. CASE Untimeout(w)
  BY <1>13 DEF Untimeout
<1>14. CASE Interrupted(w)
  BY <1>14, LoadType, StoreType DEF Interrupted
<1>15. CASE Resume(w)
  BY <1>15 DEF Resume
<1>16. CASE Relock(w)
  BY <1>16 DEF Relock
<1>17. CASE CheckTime(w)
  BY <1>17 DEF CheckTime
<1>18. CASE Expired(w)
  BY <1>18, LoadType, StoreType DEF Expired
<1>19. CASE ClearPosted(w)
  BY <1>19, LoadType, StoreType DEF ClearPosted
<1> QED
  BY <1>1, <1>2, <1>3, <1>4, <1>5, <1>6, <1>7, <1>8, <1>9, <1>10, <1>11, <1>12, <1>13, <1>14, <1>15, <1>16, <1>17, <1>18, <1>19 DEF WaitStep

(* So do those of pwtime.                                                  *)
LEMMA TimeoutType ==
  ASSUME TypeInv, NEW n \in Callout, TimeStep(n)
  PROVE  TypeInv'
<1> USE Different DEF TypeInv, Goto, At, Acquire, syncVars, waitVars, counters, history, Flags, WaiterPcs, PosterPcs, CalloutStates, Step
<1>1. CASE Fire(n)
  BY <1>1 DEF Fire
<1>2. CASE TimeLock(n)
  BY <1>2 DEF TimeLock
<1>3. CASE TimeClear(n)
  BY <1>3, LoadType, StoreType DEF TimeClear
<1>4. CASE TimeBroadcast(n)
  BY <1>4 DEF TimeBroadcast
<1> QED
  BY <1>1, <1>2, <1>3, <1>4 DEF TimeStep

(* And those of pwpost.                                                    *)
LEMMA PosterType ==
  ASSUME TypeInv, NEW p \in Poster, PwPost(p) \/ PostStep(p)
  PROVE  TypeInv'
<1> USE Different DEF TypeInv, Goto, At, Acquire, syncVars, waitVars, counters, history, Flags, WaiterPcs, PosterPcs, CalloutStates
<1>1. CASE PwPost(p)
  BY <1>1 DEF PwPost
<1>2. CASE TestBlocked(p)
  BY <1>2 DEF TestBlocked
<1>3. CASE PostBroadcast(p)
  BY <1>3 DEF PostBroadcast
<1>4. CASE PostSelf(p)
  BY <1>4 DEF PostSelf
<1>5. CASE PostRecord(p)
  BY <1>5, LoadType, StoreType DEF PostRecord
<1> QED
  BY <1>1, <1>2, <1>3, <1>4, <1>5 DEF PostStep

-----------------------------------------------------------------------------
(* The invariant is inductive, part by part.                               *)

(* p_mutex is taken before and released after what is done under it.       *)
LEMMA WaiterMutex ==
  ASSUME TypeInv, TypeInv', MutexInv, NEW w \in Waiter, PwWait(w) \/ WaitStep(w) \/ Signal(w)
  PROVE  MutexInv'
<1> USE Different DEF TypeInv, MutexInv, Goto, At, Acquire, syncVars, waitVars, counters, history
<1>1. CASE PwWait(w)
  BY <1>1 DEF PwWait, Load, Store
<1>2. CASE PollTest(w)
  <2>1. CASE Poll(w, "poll", "yielded")
    BY <2>1 DEF Poll
  <2>2. CASE Poll(w, "yielded", "idle")
    BY <2>2 DEF Poll
  <2> QED
    BY <1>2, <2>1, <2>2 DEF PollTest
<1>3. CASE PollClear(w)
  BY <1>3 DEF PollClear, Load, Store
<1>4. CASE LockMutex(w)
  BY <1>4 DEF LockMutex, Load, Store
<1>5. CASE TestPost(w)
  BY <1>5 DEF TestPost, AfterTest
<1>6. CASE TakePost(w)
  BY <1>6 DEF TakePost, Load, Store
<1>7. CASE Refuse(w)
  BY <1>7 DEF Refuse, Load, Store
<1>8. CASE SetTime(w)
  BY <1>8 DEF SetTime, Load, Store
<1>9. CASE Itimeout(w)
  <2>1. \A n \in Callout : callout'[n] = callout[n] \/ callout'[n] = "armed"
    BY <1>9 DEF Itimeout
  <2>2. UNCHANGED <<mutex, reg>>
    BY <1>9 DEF Itimeout
  <2>3. pc[w] = "itimeout" /\ (pc' = [pc EXCEPT ![w] = "sleep"] \/ pc' = [pc EXCEPT ![w] = "again"])
    BY <1>9 DEF Itimeout
  <2>4. \A v \in Waiter : v # w => pc'[v] = pc[v]
    BY <2>3
  <2>5. \A p \in Poster : pc'[p] = pc[p]
    BY <2>3
  <2>6. pc'[w] \in {"sleep", "again"}
    BY <2>3
  <2>7. \A n \in Callout : callout'[n] \in {"clear"} => callout[n] = "clear"
    BY <2>1
  <2> QED
    BY <2>1, <2>2, <2>3, <2>4, <2>5, <2>6, <2>7
<1>10. CASE NoTimeout(w)
  BY <1>10 DEF NoTimeout, Load, Store
<1>11. CASE Sleep(w)
  BY <1>11 DEF Sleep, Load, Store
<1>12. CASE Signal(w)
  BY <1>12 DEF Signal, Load, Store
<1>13. CASE Untimeout(w)
  BY <1>13 DEF Untimeout, Load, Store
<1>14. CASE Interrupted(w)
  BY <1>14 DEF Interrupted, Load, Store
<1>15. CASE Resume(w)
  BY <1>15 DEF Resume, Load, Store
<1>16. CASE Relock(w)
  BY <1>16 DEF Relock, Load, Store
<1>17. CASE CheckTime(w)
  BY <1>17 DEF CheckTime, Load, Store
<1>18. CASE Expired(w)
  BY <1>18 DEF Expired, Load, Store
<1>19. CASE ClearPosted(w)
  BY <1>19 DEF ClearPosted, Load, Store
<1> QED
  BY <1>1, <1>2, <1>3, <1>4, <1>5, <1>6, <1>7, <1>8, <1>9, <1>10, <1>11, <1>12, <1>13, <1>14, <1>15, <1>16, <1>17, <1>18, <1>19 DEF WaitStep

(* The same in pwtime.                                                     *)
LEMMA TimeoutMutex ==
  ASSUME TypeInv, TypeInv', MutexInv, NEW n \in Callout, TimeStep(n)
  PROVE  MutexInv'
<1> USE Different DEF TypeInv, MutexInv, Goto, At, Acquire, syncVars, waitVars, counters, history, Step
<1>1. CASE Fire(n)
  BY <1>1 DEF Fire, Load, Store
<1>2. CASE TimeLock(n)
  BY <1>2 DEF TimeLock, Load, Store
<1>3. CASE TimeClear(n)
  BY <1>3 DEF TimeClear, Load, Store
<1>4. CASE TimeBroadcast(n)
  BY <1>4 DEF TimeBroadcast, Load, Store
<1> QED
  BY <1>1, <1>2, <1>3, <1>4 DEF TimeStep

(* And in pwpost.                                                          *)
LEMMA PosterMutex ==
  ASSUME TypeInv, TypeInv', MutexInv, NEW p \in Poster, PwPost(p) \/ PostStep(p)
  PROVE  MutexInv'
<1> USE Different DEF TypeInv, MutexInv, Goto, At, Acquire, syncVars, waitVars, counters, history
<1>1. CASE PwPost(p)
  BY <1>1 DEF PwPost, Load, Store
<1>2. CASE TestBlocked(p)
  BY <1>2 DEF TestBlocked, Load, Store
<1>3. CASE PostBroadcast(p)
  BY <1>3 DEF PostBroadcast, Load, Store
<1>4. CASE PostSelf(p)
  BY <1>4 DEF PostSelf, Load, Store
<1>5. CASE PostRecord(p)
  BY <1>5 DEF PostRecord, Load, Store
<1> QED
  BY <1>1, <1>2, <1>3, <1>4, <1>5 DEF PostStep

(* What is loaded is stored in the same place.                             *)
LEMMA WaiterReg ==
  ASSUME TypeInv, TypeInv', RegInv, NEW w \in Waiter, PwWait(w) \/ WaitStep(w) \/ Signal(w)
  PROVE  RegInv'
<1> USE Different DEF TypeInv, RegInv, Goto, At, Acquire, syncVars, waitVars, counters, history
<1>1. CASE PwWait(w)
  BY <1>1 DEF PwWait, Load, Store
<1>2. CASE PollTest(w)
  <2>1. CASE Poll(w, "poll", "yielded")
    BY <2>1 DEF Poll
  <2>2. CASE Poll(w, "yielded", "idle")
    BY <2>2 DEF Poll
  <2> QED
    BY <1>2, <2>1, <2>2 DEF PollTest
<1>3. CASE PollClear(w)
  BY <1>3 DEF PollClear, Load, Store
<1>4. CASE LockMutex(w)
  BY <1>4 DEF LockMutex, Load, Store
<1>5. CASE TestPost(w)
  BY <1>5 DEF TestPost, AfterTest
<1>6. CASE TakePost(w)
  BY <1>6 DEF TakePost, Load, Store
<1>7. CASE Refuse(w)
  BY <1>7 DEF Refuse, Load, Store
<1>8. CASE SetTime(w)
  BY <1>8 DEF SetTime, Load, Store
<1>9. CASE Itimeout(w)
  <2>1. CASE UNCHANGED <<id, callout, ntimed>> /\ Goto(w, "itimeout", "again")
    BY <1>9, <2>1 DEF Itimeout
  <2>2. CASE ntimed' = ntimed + 1
    <3>1. ntimed' \in Callout /\ ntimed' > ntimed /\ ntimed \in Int /\ Callout \subseteq Int
      BY <1>9, <2>2, PostWaitAssumption DEF Itimeout, Callout
    <3>2. callout[ntimed'] = "free" /\ callout' = [callout EXCEPT ![ntimed'] = "armed"] /\ reg' = reg
      BY <1>9, <2>2, <3>1 DEF Itimeout
    <3>3. pc[w] = "itimeout" /\ pc' = [pc EXCEPT ![w] = "sleep"]
      BY <1>9, <2>2 DEF Itimeout
    <3>4. ASSUME NEW n \in Callout, n > ntimed'  PROVE  callout'[n] = "free"
      <4>1. n > ntimed /\ n # ntimed'
        BY ONLY <2>2, <3>1, <3>4, SMT
      <4>2. callout'[n] = callout[n] /\ callout[n] = "free"
        BY ONLY <3>2, <4>1, TypeInv, RegInv, n \in Callout DEF TypeInv, RegInv
      <4> QED
        BY ONLY <4>2
    <3>5. \A n \in Callout : callout'[n] # "clear" => reg'[n] = None
      BY <3>1, <3>2
    <3> QED
      BY <3>2, <3>3, <3>4, <3>5
  <2> QED
    BY <1>9, <2>1, <2>2 DEF Itimeout
<1>10. CASE NoTimeout(w)
  BY <1>10 DEF NoTimeout, Load, Store
<1>11. CASE Sleep(w)
  BY <1>11 DEF Sleep, Load, Store
<1>12. CASE Signal(w)
  BY <1>12 DEF Signal, Load, Store
<1>13. CASE Untimeout(w)
  BY <1>13 DEF Untimeout, Load, Store
<1>14. CASE Interrupted(w)
  BY <1>14 DEF Interrupted, Load, Store
<1>15. CASE Resume(w)
  BY <1>15 DEF Resume, Load, Store
<1>16. CASE Relock(w)
  BY <1>16 DEF Relock, Load, Store
<1>17. CASE CheckTime(w)
  BY <1>17 DEF CheckTime, Load, Store
<1>18. CASE Expired(w)
  BY <1>18 DEF Expired, Load, Store
<1>19. CASE ClearPosted(w)
  BY <1>19 DEF ClearPosted, Load, Store
<1> QED
  BY <1>1, <1>2, <1>3, <1>4, <1>5, <1>6, <1>7, <1>8, <1>9, <1>10, <1>11, <1>12, <1>13, <1>14, <1>15, <1>16, <1>17, <1>18, <1>19 DEF WaitStep

(* The same in pwtime.                                                     *)
LEMMA TimeoutReg ==
  ASSUME TypeInv, TypeInv', RegInv, NEW n \in Callout, TimeStep(n)
  PROVE  RegInv'
<1> USE Different DEF TypeInv, RegInv, Goto, At, Acquire, syncVars, waitVars, counters, history, Step
<1>1. CASE Fire(n)
  BY <1>1 DEF Fire, Load, Store
<1>2. CASE TimeLock(n)
  BY <1>2 DEF TimeLock, Load, Store
<1>3. CASE TimeClear(n)
  BY <1>3 DEF TimeClear, Load, Store
<1>4. CASE TimeBroadcast(n)
  BY <1>4 DEF TimeBroadcast, Load, Store
<1> QED
  BY <1>1, <1>2, <1>3, <1>4 DEF TimeStep

(* And in pwpost.                                                          *)
LEMMA PosterReg ==
  ASSUME TypeInv, TypeInv', RegInv, NEW p \in Poster, PwPost(p) \/ PostStep(p)
  PROVE  RegInv'
<1> USE Different DEF TypeInv, RegInv, Goto, At, Acquire, syncVars, waitVars, counters, history
<1>1. CASE PwPost(p)
  BY <1>1 DEF PwPost, Load, Store
<1>2. CASE TestBlocked(p)
  BY <1>2 DEF TestBlocked, Load, Store
<1>3. CASE PostBroadcast(p)
  BY <1>3 DEF PostBroadcast, Load, Store
<1>4. CASE PostSelf(p)
  BY <1>4 DEF PostSelf, Load, Store
<1>5. CASE PostRecord(p)
  BY <1>5 DEF PostRecord, Load, Store
<1> QED
  BY <1>1, <1>2, <1>3, <1>4, <1>5 DEF PostStep

(* PWPOST is not set for whoever sleeps or is going to.                    *)
LEMMA WaiterPost ==
  ASSUME IInv, TypeInv', NEW w \in Waiter, PwWait(w) \/ WaitStep(w) \/ Signal(w)
  PROVE  PostInv'
<1> USE Different DEF IInv, TypeInv, MutexInv, RegInv, PostInv, NoSleepOnPost, NotLoaded, Goto, At, Acquire, syncVars, waitVars, counters, history
<1>1. CASE PwWait(w)
  BY <1>1 DEF PwWait, Load, Store
<1>2. CASE PollTest(w)
  <2>1. CASE Poll(w, "poll", "yielded")
    BY <2>1 DEF Poll
  <2>2. CASE Poll(w, "yielded", "idle")
    BY <2>2 DEF Poll
  <2> QED
    BY <1>2, <2>1, <2>2 DEF PollTest
<1>3. CASE PollClear(w)
  BY <1>3 DEF PollClear, Load, Store
<1>4. CASE LockMutex(w)
  BY <1>4 DEF LockMutex, Load, Store
<1>5. CASE TestPost(w)
  BY <1>5 DEF TestPost, AfterTest
<1>6. CASE TakePost(w)
  BY <1>6 DEF TakePost, Load, Store
<1>7. CASE Refuse(w)
  BY <1>7 DEF Refuse, Load, Store
<1>8. CASE SetTime(w)
  BY <1>8 DEF SetTime, Load, Store
<1>9. CASE Itimeout(w)
  BY <1>9 DEF Itimeout, Load, Store
<1>10. CASE NoTimeout(w)
  BY <1>10 DEF NoTimeout, Load, Store
<1>11. CASE Sleep(w)
  BY <1>11 DEF Sleep, Load, Store
<1>12. CASE Signal(w)
  BY <1>12 DEF Signal, Load, Store
<1>13. CASE Untimeout(w)
  BY <1>13 DEF Untimeout, Load, Store
<1>14. CASE Interrupted(w)
  BY <1>14 DEF Interrupted, Load, Store
<1>15. CASE Resume(w)
  BY <1>15 DEF Resume, Load, Store
<1>16. CASE Relock(w)
  BY <1>16 DEF Relock, Load, Store
<1>17. CASE CheckTime(w)
  BY <1>17 DEF CheckTime, Load, Store
<1>18. CASE Expired(w)
  BY <1>18 DEF Expired, Load, Store
<1>19. CASE ClearPosted(w)
  BY <1>19 DEF ClearPosted, Load, Store
<1> QED
  BY <1>1, <1>2, <1>3, <1>4, <1>5, <1>6, <1>7, <1>8, <1>9, <1>10, <1>11, <1>12, <1>13, <1>14, <1>15, <1>16, <1>17, <1>18, <1>19 DEF WaitStep

(* The same in pwtime.                                                     *)
LEMMA TimeoutPost ==
  ASSUME IInv, TypeInv', NEW n \in Callout, TimeStep(n)
  PROVE  PostInv'
<1> USE Different DEF IInv, TypeInv, MutexInv, RegInv, PostInv, NoSleepOnPost, NotLoaded, Goto, At, Acquire, syncVars, waitVars, counters, history, Step
<1>1. CASE Fire(n)
  BY <1>1 DEF Fire, Load, Store
<1>2. CASE TimeLock(n)
  BY <1>2 DEF TimeLock, Load, Store
<1>3. CASE TimeClear(n)
  BY <1>3 DEF TimeClear, Load, Store
<1>4. CASE TimeBroadcast(n)
  BY <1>4 DEF TimeBroadcast, Load, Store
<1> QED
  BY <1>1, <1>2, <1>3, <1>4 DEF TimeStep

(* And in pwpost.                                                          *)
LEMMA PosterPost ==
  ASSUME IInv, TypeInv', NEW p \in Poster, PwPost(p) \/ PostStep(p)
  PROVE  PostInv'
<1> USE Different DEF IInv, TypeInv, MutexInv, RegInv, PostInv, NoSleepOnPost, NotLoaded, Goto, At, Acquire, syncVars, waitVars, counters, history
<1>1. CASE PwPost(p)
  BY <1>1 DEF PwPost, Load, Store
<1>2. CASE TestBlocked(p)
  BY <1>2 DEF TestBlocked, Load, Store
<1>3. CASE PostBroadcast(p)
  BY <1>3 DEF PostBroadcast, Load, Store
<1>4. CASE PostSelf(p)
  BY <1>4 DEF PostSelf, Load, Store
<1>5. CASE PostRecord(p)
  BY <1>5 DEF PostRecord, Load, Store
<1> QED
  BY <1>1, <1>2, <1>3, <1>4, <1>5 DEF PostStep

(* The process has driver data and nobody has called pwwait or pwpost.     *)
LEMMA InitInv == Init => IInv /\ LiveInv
<1> SUFFICES ASSUME Init PROVE IInv /\ LiveInv
  OBVIOUS
<1>1. /\ \A w \in Waiter : pc[w] = "idle" /\ time[w] = "poll"
      /\ \A p \in Poster : pc[p] = "idle"
      /\ \A c \in Context : reg[c] = None
      /\ \A n \in Callout : callout[n] = "free"
      /\ pwflag = {} /\ pwsv = {} /\ mutex = None
  BY DEF Init
<1>2. TypeInv
  <2>1. /\ reg \in [Context -> {None} \cup SUBSET Flags]
        /\ pc \in [Waiter \cup Poster -> WaiterPcs \cup PosterPcs]
        /\ time \in [Waiter -> {"poll", "timed", "forever", "invalid"}]
        /\ id \in [Waiter -> Callout \cup {None}]
        /\ callout \in [Callout -> CalloutStates]
    BY DEF Init, WaiterPcs, CalloutStates
  <2>2. ntimed \in 0..MaxTimed
    BY PostWaitAssumption DEF Init
  <2> QED
    BY <1>1, <2>1, <2>2 DEF TypeInv, WaiterPcs, PosterPcs
<1>3. MutexInv /\ RegInv
  BY <1>1, Different DEF MutexInv, RegInv
<1>4. PostInv
  BY <1>1, Different DEF PostInv, NoSleepOnPost, NotLoaded
<1>5. LiveInv
  BY <1>1 DEF LiveInv, Live
<1> QED
  BY <1>2, <1>3, <1>4, <1>5 DEF IInv

(* The invariant is inductive.                                             *)
LEMMA StepInv ==
  ASSUME IInv, [Next]_vars
  PROVE  IInv'
<1> USE DEF IInv
<1>1. CASE UNCHANGED vars
  BY <1>1 DEF vars, syncVars, waitVars, counters, history, TypeInv, MutexInv, RegInv, PostInv,
              NoSleepOnPost, NotLoaded
<1>2. ASSUME NEW w \in Waiter, PwWait(w) \/ WaitStep(w) \/ Signal(w)
      PROVE  IInv'
  BY <1>2, WaiterType, WaiterMutex, WaiterReg, WaiterPost
<1>3. ASSUME NEW n \in Callout, TimeStep(n)
      PROVE  IInv'
  BY <1>3, TimeoutType, TimeoutMutex, TimeoutReg, TimeoutPost
<1>4. ASSUME NEW p \in Poster, PwPost(p) \/ PostStep(p)
      PROVE  IInv'
  BY <1>4, PosterType, PosterMutex, PosterReg, PosterPost
<1> QED
  BY <1>1, <1>2, <1>3, <1>4 DEF Next

(* p_mutex is held where the driver means to, and what is done to p_pwflag *)
(* without it never sets PWPOST for an LWP that goes to sleep.             *)
THEOREM Invariance == Spec => []IInv
BY InitInv, StepInv, PTL DEF Spec

(* No LWP of the process sleeps while a post is recorded for it.           *)
THEOREM NobodySleepsOnPost == Spec => []NoSleepOnPost
<1>1. IInv => NoSleepOnPost
  BY DEF IInv, PostInv
<1> QED
  BY <1>1, Invariance, PTL

-----------------------------------------------------------------------------
(* A process of one LWP: the timeout belongs to its call.                  *)

OneWaiter == Waiter # {} /\ \A v, w \in Waiter : v = w

(* A call of pwwait that has set a timeout returns when it is over.        *)
LEMMA WaiterLive ==
  ASSUME OneWaiter, IInv, IInv', LiveInv, NEW w \in Waiter, PwWait(w) \/ WaitStep(w) \/ Signal(w)
  PROVE  LiveInv'
<1> USE Different DEF OneWaiter, IInv, TypeInv, MutexInv, RegInv, LiveInv, Live, Goto, At, Acquire, syncVars, waitVars, counters, history
<1>1. CASE PwWait(w)
  BY <1>1 DEF PwWait, Load, Store
<1>2. CASE PollTest(w)
  <2>1. CASE Poll(w, "poll", "yielded")
    BY <2>1 DEF Poll
  <2>2. CASE Poll(w, "yielded", "idle")
    BY <2>2 DEF Poll
  <2> QED
    BY <1>2, <2>1, <2>2 DEF PollTest
<1>3. CASE PollClear(w)
  BY <1>3 DEF PollClear, Load, Store
<1>4. CASE LockMutex(w)
  BY <1>4 DEF LockMutex, Load, Store
<1>5. CASE TestPost(w)
  BY <1>5 DEF TestPost, AfterTest
<1>6. CASE TakePost(w)
  BY <1>6 DEF TakePost, Load, Store
<1>7. CASE Refuse(w)
  BY <1>7 DEF Refuse, Load, Store
<1>8. CASE SetTime(w)
  BY <1>8 DEF SetTime, Load, Store
<1>9. CASE Itimeout(w)
  <2>0. \A n \in Callout : ~ Live(n)
    BY <1>9 DEF Itimeout
  <2>1. CASE Goto(w, "itimeout", "again") /\ UNCHANGED callout
    BY <1>9, <2>0, <2>1 DEF Itimeout
  <2>2. CASE ntimed' = ntimed + 1 /\ Goto(w, "itimeout", "sleep")
    <3>1. ntimed' \in Callout
      BY <1>9, <2>2, PostWaitAssumption DEF Itimeout, Callout
    <3>2. /\ callout' = [callout EXCEPT ![ntimed'] = "armed"] /\ id' = [id EXCEPT ![w] = ntimed']
          /\ UNCHANGED <<pwflag, reg, time>>
      BY <1>9, <2>2, <3>1 DEF Itimeout
    <3>3. \A n \in Callout : Live(n)' => n = ntimed'
      BY <2>0, <3>1, <3>2
    <3>4. id'[w] = ntimed' /\ pc'[w] = "sleep" /\ "PWTIME" \in pwflag'
      BY <2>2, <3>1, <3>2
    <3>5. time'[w] = "timed"
      BY <2>2, <3>2
    <3>6. \A p \in Poster : reg'[p] = None
      BY <2>2, <3>2
    <3> QED
      BY <3>3, <3>4, <3>5, <3>6
  <2> QED
    BY <1>9, <2>1, <2>2 DEF Itimeout
<1>10. CASE NoTimeout(w)
  BY <1>10 DEF NoTimeout, Load, Store
<1>11. CASE Sleep(w)
  BY <1>11 DEF Sleep, Load, Store
<1>12. CASE Signal(w)
  BY <1>12 DEF Signal, Load, Store
<1>13. CASE Untimeout(w)
  BY <1>13 DEF Untimeout, Load, Store
<1>14. CASE Interrupted(w)
  BY <1>14 DEF Interrupted, Load, Store
<1>15. CASE Resume(w)
  BY <1>15 DEF Resume, Load, Store
<1>16. CASE Relock(w)
  BY <1>16 DEF Relock, Load, Store
<1>17. CASE CheckTime(w)
  BY <1>17 DEF CheckTime, Load, Store
<1>18. CASE Expired(w)
  BY <1>18 DEF Expired, Load, Store
<1>19. CASE ClearPosted(w)
  BY <1>19 DEF ClearPosted, Load, Store
<1> QED
  BY <1>1, <1>2, <1>3, <1>4, <1>5, <1>6, <1>7, <1>8, <1>9, <1>10, <1>11, <1>12, <1>13, <1>14, <1>15, <1>16, <1>17, <1>18, <1>19 DEF WaitStep

(* pwtime clears PWTIME and is live no longer.                             *)
LEMMA TimeoutLive ==
  ASSUME OneWaiter, IInv, IInv', LiveInv, NEW n \in Callout, TimeStep(n)
  PROVE  LiveInv'
<1> USE Different DEF OneWaiter, IInv, TypeInv, MutexInv, RegInv, LiveInv, Live, Goto, At, Acquire, syncVars, waitVars, counters, history, Step
<1>1. CASE Fire(n)
  BY <1>1 DEF Fire, Load, Store
<1>2. CASE TimeLock(n)
  BY <1>2 DEF TimeLock, Load, Store
<1>3. CASE TimeClear(n)
  BY <1>3 DEF TimeClear, Load, Store
<1>4. CASE TimeBroadcast(n)
  BY <1>4 DEF TimeBroadcast, Load, Store
<1> QED
  BY <1>1, <1>2, <1>3, <1>4 DEF TimeStep

(* pwpost stores the PWTIME it has loaded.                                 *)
LEMMA PosterLive ==
  ASSUME OneWaiter, IInv, IInv', LiveInv, NEW p \in Poster, PwPost(p) \/ PostStep(p)
  PROVE  LiveInv'
<1> USE Different DEF OneWaiter, IInv, TypeInv, MutexInv, RegInv, LiveInv, Live, Goto, At, Acquire, syncVars, waitVars, counters, history
<1>1. CASE PwPost(p)
  BY <1>1 DEF PwPost, Load, Store
<1>2. CASE TestBlocked(p)
  BY <1>2 DEF TestBlocked, Load, Store
<1>3. CASE PostBroadcast(p)
  BY <1>3 DEF PostBroadcast, Load, Store
<1>4. CASE PostSelf(p)
  BY <1>4 DEF PostSelf, Load, Store
<1>5. CASE PostRecord(p)
  BY <1>5 DEF PostRecord, Load, Store
<1> QED
  BY <1>1, <1>2, <1>3, <1>4, <1>5 DEF PostStep

(* The timeout stays with its call over every step.                        *)
LEMMA StepLive ==
  ASSUME OneWaiter, IInv, IInv', LiveInv, [Next]_vars
  PROVE  LiveInv'
<1>1. CASE UNCHANGED vars
  BY <1>1 DEF vars, syncVars, waitVars, LiveInv, Live
<1>2. CASE Next
  BY <1>2, WaiterLive, TimeoutLive, PosterLive DEF Next
<1> QED
  BY <1>1, <1>2

(* One LWP that waits: a timeout that is still to clear PWTIME belongs to  *)
(* the call of pwwait in progress.                                         *)
THEOREM TimeoutStaysCurrent ==
  ASSUME OneWaiter
  PROVE  Spec => []TimeoutIsCurrent
<1>1. Init => LiveInv
  BY InitInv
<1>2. IInv /\ IInv' /\ LiveInv /\ [Next]_vars => LiveInv'
  BY StepLive
<1>3. LiveInv => TimeoutIsCurrent
  BY DEF LiveInv, Live, TimeoutIsCurrent
<1> QED
  BY <1>1, <1>2, <1>3, Invariance, PTL DEF Spec

-----------------------------------------------------------------------------
(* A process of one LWP: posts and returns.                                *)

(* The call in progress is going to return 1.                              *)
WokenUp(w) ==
  \/ pc[w] \in {"untimeout", "clear"}
  \/ pc[w] = "asleep" /\ w \notin pwsv /\ (time[w] = "timed" => "PWTIME" \in pwflag)
  \/ pc[w] \in {"relock", "check"} /\ "PWTIME" \in pwflag

Woken == \E w \in Waiter : WokenUp(w)

(* The broadcast to come of timeout n is for the call in progress.         *)
Waits(w, n) ==
  /\ id[w] = n /\ time[w] = "timed"
  /\ pc[w] \in {"untimeout", "sigUntimeout"} \/ (pc[w] = "asleep" /\ w \in pwsv)

OwnTimeout(n) == \E w \in Waiter : Waits(w, n)

(* The timeouts whose broadcast will look like a post: their call returned *)
(* 0 though it had been posted.                                            *)
Late == {n \in Callout : callout[n] = "cast" /\ ~ OwnTimeout(n)}

Count(b) == IF b THEN 1 ELSE 0

(* Every return of 1, made or to come, has a post of its own.              *)
CreditInv == rets + Count("PWPOST" \in pwflag) + Count(Woken) + Cardinality(Late) <= posts

(* The call in progress is past its sleep, and ends with what woke it.     *)
Ending(w) ==
  \/ pc[w] = "asleep" /\ w \notin pwsv
  \/ pc[w] \in {"sigUntimeout", "signalled", "relock", "check", "expired", "untimeout", "clear"}

(* A post that is owed is recorded, is being broadcast to who sleeps, or   *)
(* the call in progress is on its way to end.                              *)
OwedInv ==
  owed => \/ "PWPOST" \in pwflag
          \/ pwsv # {} /\ \E p \in Poster : pc[p] = "cast"
          \/ \E w \in Waiter : Ending(w)

(* What the LWP has found in p_pwflag and what posters and timeouts have   *)
(* loaded stays so; its timeout has cleared PWTIME when it broadcasts.     *)
FoundInv ==
  /\ \A w \in Waiter : pc[w] \in {"pollClear", "take"} => "PWPOST" \in pwflag
  /\ \A w \in Waiter, p \in Poster : pc[w] \in {"asleep", "relock"} /\ reg[p] # None => reg[p] = pwflag
  /\ \A n \in Callout : reg[n] # None => reg[n] = pwflag
  /\ \A w \in Waiter, n \in Callout :
       pc[w] = "asleep" /\ time[w] = "timed" /\ id[w] = n /\ callout[n] = "cast" => "PWTIME" \notin pwflag
  /\ \A w \in Waiter, n \in Callout :
       pc[w] = "sleep" /\ time[w] = "timed" /\ id[w] = n => callout[n] \in {"armed", "lock"}

(* Who sleeps.                                                             *)
PlaceInv == \A w \in pwsv : pc[w] = "asleep"

HistoryInv == posts \in Nat /\ rets \in Nat

DeliverInv == HistoryInv /\ PlaceInv /\ FoundInv /\ CreditInv /\ OwedInv

(* How the LWP got where it is.                                            *)
LEMMA WaiterPlace ==
  ASSUME OneWaiter, IInv, IInv', HistoryInv, PlaceInv, NEW w \in Waiter, PwWait(w) \/ WaitStep(w) \/ Signal(w)
  PROVE  PlaceInv'
<1> USE Different DEF OneWaiter, IInv, PlaceInv, HistoryInv, TypeInv, MutexInv, RegInv, Goto, At, Acquire, syncVars, waitVars, counters, history
<1>1. CASE PwWait(w)
  BY <1>1 DEF PwWait
<1>2. CASE PollTest(w)
  <2>1. CASE Poll(w, "poll", "yielded")
    BY <2>1 DEF Poll
  <2>2. CASE Poll(w, "yielded", "idle")
    BY <2>2 DEF Poll
  <2> QED
    BY <1>2, <2>1, <2>2 DEF PollTest
<1>3. CASE PollClear(w)
  BY <1>3 DEF PollClear
<1>4. CASE LockMutex(w)
  BY <1>4 DEF LockMutex
<1>5. CASE TestPost(w)
  BY <1>5 DEF TestPost, AfterTest
<1>6. CASE TakePost(w)
  BY <1>6 DEF TakePost
<1>7. CASE Refuse(w)
  BY <1>7 DEF Refuse
<1>8. CASE SetTime(w)
  BY <1>8 DEF SetTime
<1>9. CASE Itimeout(w)
  BY <1>9 DEF Itimeout
<1>10. CASE NoTimeout(w)
  BY <1>10 DEF NoTimeout
<1>11. CASE Sleep(w)
  BY <1>11 DEF Sleep
<1>12. CASE Signal(w)
  BY <1>12 DEF Signal
<1>13. CASE Untimeout(w)
  BY <1>13 DEF Untimeout
<1>14. CASE Interrupted(w)
  BY <1>14 DEF Interrupted
<1>15. CASE Resume(w)
  BY <1>15 DEF Resume
<1>16. CASE Relock(w)
  BY <1>16 DEF Relock
<1>17. CASE CheckTime(w)
  BY <1>17 DEF CheckTime
<1>18. CASE Expired(w)
  BY <1>18 DEF Expired
<1>19. CASE ClearPosted(w)
  BY <1>19 DEF ClearPosted
<1> QED
  BY <1>1, <1>2, <1>3, <1>4, <1>5, <1>6, <1>7, <1>8, <1>9, <1>10, <1>11, <1>12, <1>13, <1>14, <1>15, <1>16, <1>17, <1>18, <1>19 DEF WaitStep

(* pwtime moves nobody.                                                    *)
LEMMA TimeoutPlace ==
  ASSUME OneWaiter, IInv, IInv', HistoryInv, PlaceInv, NEW n \in Callout, TimeStep(n)
  PROVE  PlaceInv'
<1> USE Different DEF OneWaiter, IInv, PlaceInv, HistoryInv, TypeInv, MutexInv, RegInv, Goto, At, Acquire, syncVars, waitVars, counters, history, Step
<1>1. CASE Fire(n)
  BY <1>1 DEF Fire
<1>2. CASE TimeLock(n)
  BY <1>2 DEF TimeLock
<1>3. CASE TimeClear(n)
  BY <1>3 DEF TimeClear
<1>4. CASE TimeBroadcast(n)
  BY <1>4 DEF TimeBroadcast
<1> QED
  BY <1>1, <1>2, <1>3, <1>4 DEF TimeStep

(* Nor does pwpost.                                                        *)
LEMMA PosterPlace ==
  ASSUME OneWaiter, IInv, IInv', HistoryInv, PlaceInv, NEW p \in Poster, PwPost(p) \/ PostStep(p)
  PROVE  PlaceInv'
<1> USE Different DEF OneWaiter, IInv, PlaceInv, HistoryInv, TypeInv, MutexInv, RegInv, Goto, At, Acquire, syncVars, waitVars, counters, history
<1>1. CASE PwPost(p)
  BY <1>1 DEF PwPost
<1>2. CASE TestBlocked(p)
  BY <1>2 DEF TestBlocked
<1>3. CASE PostBroadcast(p)
  BY <1>3 DEF PostBroadcast
<1>4. CASE PostSelf(p)
  BY <1>4 DEF PostSelf
<1>5. CASE PostRecord(p)
  BY <1>5 DEF PostRecord
<1> QED
  BY <1>1, <1>2, <1>3, <1>4, <1>5 DEF PostStep

(* What is found and loaded stays so over the steps of the LWP.            *)
LEMMA WaiterFound ==
  ASSUME OneWaiter, IInv, IInv', LiveInv, HistoryInv, FoundInv, NEW w \in Waiter, PwWait(w) \/ WaitStep(w) \/ Signal(w)
  PROVE  HistoryInv' /\ FoundInv'
<1> USE Different DEF OneWaiter, IInv, FoundInv, HistoryInv, PostInv, NotLoaded, TypeInv, MutexInv, RegInv, LiveInv, Live, Goto, At, Acquire, syncVars, waitVars, counters, history
<1>1. CASE PwWait(w)
  BY <1>1 DEF PwWait, Load, Store, Posted, NotPosted
<1>2. CASE PollTest(w)
  <2>1. CASE Poll(w, "poll", "yielded")
    BY <2>1 DEF Poll
  <2>2. CASE Poll(w, "yielded", "idle")
    BY <2>2 DEF Poll
  <2> QED
    BY <1>2, <2>1, <2>2 DEF PollTest
<1>3. CASE PollClear(w)
  <2>0. \A n \in Callout : reg'[n] = None
    <3>1. \A n \in Callout : reg[n] = None
      BY <1>3 DEF PollClear
    <3> QED
      BY <1>3, <3>1 DEF PollClear, Load, Store
  <2>1. HistoryInv'
    BY <1>3 DEF PollClear, Posted
  <2>2. CASE pc' = pc
    BY <1>3, <2>0, <2>1, <2>2 DEF PollClear, Load, Store
  <2>3. CASE pc'[w] = "idle"
    BY <2>0, <2>1, <2>3
  <2> QED
    BY <1>3, <2>2, <2>3 DEF PollClear
<1>4. CASE LockMutex(w)
  BY <1>4 DEF LockMutex, Load, Store, Posted, NotPosted
<1>5. CASE TestPost(w)
  BY <1>5 DEF TestPost, AfterTest
<1>6. CASE TakePost(w)
  <2>0. \A n \in Callout : reg'[n] = None
    <3>1. \A n \in Callout : reg[n] = None
      BY <1>6 DEF TakePost
    <3> QED
      BY <1>6, <3>1 DEF TakePost, Load, Store
  <2>1. HistoryInv'
    BY <1>6 DEF TakePost, Posted
  <2>2. CASE pc' = pc
    BY <1>6, <2>0, <2>1, <2>2 DEF TakePost, Load, Store
  <2>3. CASE pc'[w] = "idle"
    BY <2>0, <2>1, <2>3
  <2> QED
    BY <1>6, <2>2, <2>3 DEF TakePost
<1>7. CASE Refuse(w)
  BY <1>7 DEF Refuse, Load, Store, Posted, NotPosted
<1>8. CASE SetTime(w)
  BY <1>8 DEF SetTime, Load, Store, Posted, NotPosted
<1>9. CASE Itimeout(w)
  <2>0. /\ mutex = w /\ reg' = reg /\ pwflag' = pwflag
        /\ UNCHANGED history
    BY <1>9 DEF Itimeout
  <2>1. pc[w] = "itimeout" /\ pc'[w] \in {"sleep", "again"}
    BY <1>9 DEF Itimeout
  <2>2. \A v \in Waiter : v = w
    OBVIOUS
  <2>3. \A n \in Callout : pc'[w] = "sleep" /\ id'[w] = n => callout'[n] = "armed"
    BY <1>9 DEF Itimeout
  <2>4. (\A n \in Callout : reg[n] = None) /\ \A p \in Poster : reg[p] = None
    BY <2>0
  <2> QED
    BY <2>0, <2>1, <2>2, <2>3, <2>4
<1>10. CASE NoTimeout(w)
  BY <1>10 DEF NoTimeout, Load, Store, Posted, NotPosted
<1>11. CASE Sleep(w)
  BY <1>11 DEF Sleep, Load, Store, Posted, NotPosted
<1>12. CASE Signal(w)
  BY <1>12 DEF Signal, Load, Store, Posted, NotPosted
<1>13. CASE Untimeout(w)
  BY <1>13 DEF Untimeout, Load, Store, Posted, NotPosted
<1>14. CASE Interrupted(w)
  <2>0. \A n \in Callout : reg'[n] = None
    <3>1. \A n \in Callout : reg[n] = None
      BY <1>14 DEF Interrupted
    <3> QED
      BY <1>14, <3>1 DEF Interrupted, Load, Store
  <2>1. HistoryInv'
    BY <1>14 DEF Interrupted, NotPosted
  <2>2. CASE pc' = pc
    BY <1>14, <2>0, <2>1, <2>2 DEF Interrupted, Load, Store
  <2>3. CASE pc'[w] = "idle"
    BY <2>0, <2>1, <2>3
  <2> QED
    BY <1>14, <2>2, <2>3 DEF Interrupted
<1>15. CASE Resume(w)
  BY <1>15 DEF Resume, Load, Store, Posted, NotPosted
<1>16. CASE Relock(w)
  BY <1>16 DEF Relock, Load, Store, Posted, NotPosted
<1>17. CASE CheckTime(w)
  BY <1>17 DEF CheckTime, Load, Store, Posted, NotPosted
<1>18. CASE Expired(w)
  BY <1>18 DEF Expired, Load, Store, Posted, NotPosted
<1>19. CASE ClearPosted(w)
  <2>0. \A n \in Callout : reg'[n] = None
    <3>1. \A n \in Callout : reg[n] = None
      BY <1>19 DEF ClearPosted
    <3> QED
      BY <1>19, <3>1 DEF ClearPosted, Load, Store
  <2>1. HistoryInv'
    BY <1>19 DEF ClearPosted, Posted
  <2>2. CASE pc' = pc
    BY <1>19, <2>0, <2>1, <2>2 DEF ClearPosted, Load, Store
  <2>3. CASE pc'[w] = "idle"
    BY <2>0, <2>1, <2>3
  <2> QED
    BY <1>19, <2>2, <2>3 DEF ClearPosted
<1> QED
  BY <1>1, <1>2, <1>3, <1>4, <1>5, <1>6, <1>7, <1>8, <1>9, <1>10, <1>11, <1>12, <1>13, <1>14, <1>15, <1>16, <1>17, <1>18, <1>19 DEF WaitStep

(* Over those of pwtime.                                                   *)
LEMMA TimeoutFound ==
  ASSUME OneWaiter, IInv, IInv', LiveInv, HistoryInv, FoundInv, NEW n \in Callout, TimeStep(n)
  PROVE  HistoryInv' /\ FoundInv'
<1> USE Different DEF OneWaiter, IInv, FoundInv, HistoryInv, PostInv, NotLoaded, TypeInv, MutexInv, RegInv, LiveInv, Live, Goto, At, Acquire, syncVars, waitVars, counters, history, Step
<1>1. CASE Fire(n)
  BY <1>1 DEF Fire, Load, Store
<1>2. CASE TimeLock(n)
  BY <1>2 DEF TimeLock, Load, Store
<1>3. CASE TimeClear(n)
  BY <1>3 DEF TimeClear, Load, Store
<1>4. CASE TimeBroadcast(n)
  BY <1>4 DEF TimeBroadcast, Load, Store
<1> QED
  BY <1>1, <1>2, <1>3, <1>4 DEF TimeStep

(* And over those of pwpost.                                               *)
LEMMA PosterFound ==
  ASSUME OneWaiter, IInv, IInv', LiveInv, HistoryInv, FoundInv, NEW p \in Poster, PwPost(p) \/ PostStep(p)
  PROVE  HistoryInv' /\ FoundInv'
<1> USE Different DEF OneWaiter, IInv, FoundInv, HistoryInv, PostInv, NotLoaded, TypeInv, MutexInv, RegInv, LiveInv, Live, Goto, At, Acquire, syncVars, waitVars, counters, history
<1>1. CASE PwPost(p)
  BY <1>1 DEF PwPost, Load, Store
<1>2. CASE TestBlocked(p)
  BY <1>2 DEF TestBlocked, Load, Store
<1>3. CASE PostBroadcast(p)
  BY <1>3 DEF PostBroadcast, Load, Store
<1>4. CASE PostSelf(p)
  BY <1>4 DEF PostSelf, Load, Store
<1>5. CASE PostRecord(p)
  <2>0. /\ \A n \in Callout : reg[n] = None
        /\ \A q \in Poster : q # p => reg[q] = None
        /\ \A w \in Waiter : pc[w] # "sleep"
    BY <1>5 DEF PostRecord
  <2>1. CASE Load(p)
    BY <1>5, <2>0, <2>1 DEF PostRecord, Load, Store
  <2>2. CASE Store(p, {}, {"PWPOST"})
    <3>1. /\ pwflag' = reg[p] \cup {"PWPOST"} /\ reg' = [reg EXCEPT ![p] = None]
          /\ UNCHANGED <<callout, time, id>>
      BY <1>5, <2>2 DEF PostRecord, Store
    <3>2. \A q \in Poster : reg'[q] = None
      BY <2>0, <3>1
    <3>3. \A n \in Callout : reg'[n] = None
      BY <2>0, <3>1
    <3>4. \A w \in Waiter : pc'[w] = pc[w] /\ (pc[w] = "asleep" => reg[p] = pwflag)
      BY <1>5, <2>2 DEF PostRecord, Store
    <3>5. HistoryInv'
      BY <1>5, <2>2 DEF PostRecord, Store
    <3> QED
      BY <2>0, <3>1, <3>2, <3>3, <3>4, <3>5
  <2> QED
    BY <1>5, <2>1, <2>2 DEF PostRecord
<1> QED
  BY <1>1, <1>2, <1>3, <1>4, <1>5 DEF PostStep

(* A post stays until the LWP ends a wait.                                 *)
LEMMA WaiterOwed ==
  ASSUME OneWaiter, IInv, IInv', LiveInv, HistoryInv, FoundInv, PlaceInv, OwedInv, NEW w \in Waiter, PwWait(w) \/ WaitStep(w) \/ Signal(w)
  PROVE  OwedInv'
<1> USE Different DEF OneWaiter, IInv, FoundInv, PlaceInv, OwedInv, HistoryInv, PostInv, NotLoaded, Ending, TypeInv, MutexInv, RegInv, LiveInv, Live, Goto, At, Acquire, syncVars, waitVars, counters, history
<1>1. CASE PwWait(w)
  BY <1>1 DEF PwWait, Load, Store, Posted, NotPosted
<1>2. CASE PollTest(w)
  <2>1. CASE Poll(w, "poll", "yielded")
    BY <2>1 DEF Poll
  <2>2. CASE Poll(w, "yielded", "idle")
    BY <2>2 DEF Poll
  <2> QED
    BY <1>2, <2>1, <2>2 DEF PollTest
<1>3. CASE PollClear(w)
  BY <1>3 DEF PollClear, Load, Store, Posted, NotPosted
<1>4. CASE LockMutex(w)
  BY <1>4 DEF LockMutex, Load, Store, Posted, NotPosted
<1>5. CASE TestPost(w)
  BY <1>5 DEF TestPost, AfterTest
<1>6. CASE TakePost(w)
  BY <1>6 DEF TakePost, Load, Store, Posted, NotPosted
<1>7. CASE Refuse(w)
  BY <1>7 DEF Refuse, Load, Store, Posted, NotPosted
<1>8. CASE SetTime(w)
  BY <1>8 DEF SetTime, Load, Store, Posted, NotPosted
<1>9. CASE Itimeout(w)
  BY <1>9 DEF Itimeout, Load, Store, Posted, NotPosted
<1>10. CASE NoTimeout(w)
  BY <1>10 DEF NoTimeout, Load, Store, Posted, NotPosted
<1>11. CASE Sleep(w)
  BY <1>11 DEF Sleep, Load, Store, Posted, NotPosted
<1>12. CASE Signal(w)
  BY <1>12 DEF Signal, Load, Store, Posted, NotPosted
<1>13. CASE Untimeout(w)
  BY <1>13 DEF Untimeout, Load, Store, Posted, NotPosted
<1>14. CASE Interrupted(w)
  BY <1>14 DEF Interrupted, Load, Store, Posted, NotPosted
<1>15. CASE Resume(w)
  BY <1>15 DEF Resume, Load, Store, Posted, NotPosted
<1>16. CASE Relock(w)
  BY <1>16 DEF Relock, Load, Store, Posted, NotPosted
<1>17. CASE CheckTime(w)
  BY <1>17 DEF CheckTime, Load, Store, Posted, NotPosted
<1>18. CASE Expired(w)
  BY <1>18 DEF Expired, Load, Store, Posted, NotPosted
<1>19. CASE ClearPosted(w)
  BY <1>19 DEF ClearPosted, Load, Store, Posted, NotPosted
<1> QED
  BY <1>1, <1>2, <1>3, <1>4, <1>5, <1>6, <1>7, <1>8, <1>9, <1>10, <1>11, <1>12, <1>13, <1>14, <1>15, <1>16, <1>17, <1>18, <1>19 DEF WaitStep

(* A timeout that wakes the LWP brings it to the end of its wait.          *)
LEMMA TimeoutOwed ==
  ASSUME OneWaiter, IInv, IInv', LiveInv, HistoryInv, FoundInv, PlaceInv, OwedInv, NEW n \in Callout, TimeStep(n)
  PROVE  OwedInv'
<1> USE Different DEF OneWaiter, IInv, FoundInv, PlaceInv, OwedInv, HistoryInv, PostInv, NotLoaded, Ending, TypeInv, MutexInv, RegInv, LiveInv, Live, Goto, At, Acquire, syncVars, waitVars, counters, history, Step
<1>1. CASE Fire(n)
  BY <1>1 DEF Fire, Load, Store
<1>2. CASE TimeLock(n)
  BY <1>2 DEF TimeLock, Load, Store
<1>3. CASE TimeClear(n)
  BY <1>3 DEF TimeClear, Load, Store
<1>4. CASE TimeBroadcast(n)
  BY <1>4 DEF TimeBroadcast, Load, Store
<1> QED
  BY <1>1, <1>2, <1>3, <1>4 DEF TimeStep

(* A post is recorded or wakes the LWP.                                    *)
LEMMA PosterOwed ==
  ASSUME OneWaiter, IInv, IInv', LiveInv, HistoryInv, FoundInv, PlaceInv, OwedInv, NEW p \in Poster, PwPost(p) \/ PostStep(p)
  PROVE  OwedInv'
<1> USE Different DEF OneWaiter, IInv, FoundInv, PlaceInv, OwedInv, HistoryInv, PostInv, NotLoaded, Ending, TypeInv, MutexInv, RegInv, LiveInv, Live, Goto, At, Acquire, syncVars, waitVars, counters, history
<1>1. CASE PwPost(p)
  BY <1>1 DEF PwPost, Load, Store
<1>2. CASE TestBlocked(p)
  BY <1>2 DEF TestBlocked, Load, Store
<1>3. CASE PostBroadcast(p)
  <2>1. pwflag' = pwflag /\ owed' = owed /\ pwsv' = {} /\ \A w \in Waiter : pc'[w] = pc[w]
    BY <1>3 DEF PostBroadcast
  <2>2. CASE pwsv # {}
    <3>1. PICK w \in Waiter : pc[w] = "asleep"
      BY <2>2
    <3> QED
      BY <2>1, <3>1
  <2>3. CASE pwsv = {}
    BY <2>1, <2>3
  <2> QED
    BY <2>2, <2>3
<1>4. CASE PostSelf(p)
  BY <1>4 DEF PostSelf, Load, Store
<1>5. CASE PostRecord(p)
  <2>1. CASE Load(p)
    <3>1. UNCHANGED <<pwflag, pwsv, pc, owed>>
      BY <1>5, <2>1 DEF PostRecord, Load, Store
    <3> QED
      BY <3>1
  <2>2. CASE Store(p, {}, {"PWPOST"})
    <3>1. "PWPOST" \in pwflag'
      BY <2>2 DEF Store
    <3> QED
      BY <3>1
  <2> QED
    BY <1>5, <2>1, <2>2 DEF PostRecord
<1> QED
  BY <1>1, <1>2, <1>3, <1>4, <1>5 DEF PostStep

(* There are finitely many timeouts.                                       *)
LEMMA FiniteLate ==
  /\ IsFiniteSet(Late) /\ Cardinality(Late) \in Nat
  /\ IsFiniteSet(Late') /\ Cardinality(Late') \in Nat
<1>1. IsFiniteSet(Callout)
  BY PostWaitAssumption, FS_Interval DEF Callout
<1>2. Late \subseteq Callout /\ Late' \subseteq Callout
  BY DEF Late
<1> QED
  BY <1>1, <1>2, FS_Subset, FS_CardinalityType

(* Fewer timeouts are late, or one that was not may be.                    *)
LEMMA LateFewer ==
  ASSUME Late' \subseteq Late
  PROVE  Cardinality(Late') <= Cardinality(Late)
BY FiniteLate, FS_Subset

(* A step that makes one timeout late counts at most one more.              *)
LEMMA LateMore ==
  ASSUME NEW n, Late' \subseteq Late \cup {n}
  PROVE  Cardinality(Late') <= Cardinality(Late) + 1
<1>1. IsFiniteSet(Late \cup {n}) /\ Cardinality(Late \cup {n}) <= Cardinality(Late) + 1
  BY FiniteLate, FS_AddElement
<1> QED
  BY <1>1, FiniteLate, FS_Subset, FS_CardinalityType

(* A step that exchanges a late timeout for another one counts no more.     *)
LEMMA LateOther ==
  ASSUME NEW m, NEW n \in Late, Late' \subseteq (Late \ {n}) \cup {m}
  PROVE  Cardinality(Late') <= Cardinality(Late)
<1> DEFINE S == Late \ {n}
<1>1. IsFiniteSet(S) /\ Cardinality(S) = Cardinality(Late) - 1
  BY FiniteLate, FS_RemoveElement
<1> HIDE DEF S
<1>2. IsFiniteSet(S \cup {m}) /\ Cardinality(S \cup {m}) <= Cardinality(S) + 1
  <2>1. Cardinality(S) \in Nat
    BY <1>1, FS_CardinalityType
  <2>2. /\ IsFiniteSet(S \cup {m})
        /\ Cardinality(S \cup {m}) = IF m \in S THEN Cardinality(S) ELSE Cardinality(S) + 1
    BY <1>1, FS_AddElement, Zenon
  <2> QED
    BY <2>1, <2>2
<1>3. Late' \subseteq S \cup {m}
  BY DEF S
<1>4. Cardinality(Late') <= Cardinality(S \cup {m}) /\ Cardinality(S \cup {m}) \in Nat
  BY <1>2, <1>3, FS_Subset, FS_CardinalityType
<1> QED
  BY <1>1, <1>2, <1>4, FiniteLate

(* The LWP is the only one.                                                *)
LEMMA TheWaiter ==
  ASSUME OneWaiter, NEW w \in Waiter
  PROVE  /\ Woken <=> WokenUp(w)
         /\ Woken' <=> WokenUp(w)'
         /\ \A n : OwnTimeout(n) <=> Waits(w, n)
         /\ \A n : OwnTimeout(n)' <=> Waits(w, n)'
BY DEF OneWaiter, Woken, OwnTimeout

(* A call of pwwait that returns 1 was going to, or has found PWPOST.      *)
LEMMA WaiterCredit ==
  ASSUME OneWaiter, IInv, IInv', LiveInv, HistoryInv, HistoryInv', PlaceInv, PlaceInv', FoundInv, FoundInv', CreditInv, NEW w \in Waiter, PwWait(w) \/ WaitStep(w) \/ Signal(w)
  PROVE  CreditInv'
<1>1. \A n \in Callout : callout'[n] = "cast" => callout[n] = "cast" /\ (Waits(w, n) => Waits(w, n)')
  <2> USE Different DEF OneWaiter, IInv, FoundInv, PlaceInv,  HistoryInv, PostInv, NoSleepOnPost, NotLoaded, TypeInv, MutexInv, RegInv, LiveInv, Live, Goto, At, Acquire, syncVars, waitVars, counters, history, Waits
  <2>1. CASE PwWait(w)
    BY <2>1 DEF PwWait, Load, Store, Posted
  <2>2. CASE PollTest(w)
    <3>1. CASE Poll(w, "poll", "yielded")
      BY <3>1 DEF Poll
    <3>2. CASE Poll(w, "yielded", "idle")
      BY <3>2 DEF Poll
    <3> QED
      BY <2>2, <3>1, <3>2 DEF PollTest
  <2>3. CASE PollClear(w)
    BY <2>3 DEF PollClear, Load, Store, Posted
  <2>4. CASE LockMutex(w)
    BY <2>4 DEF LockMutex, Load, Store, Posted
  <2>5. CASE TestPost(w)
    BY <2>5 DEF TestPost, AfterTest
  <2>6. CASE TakePost(w)
    BY <2>6 DEF TakePost, Load, Store, Posted
  <2>7. CASE Refuse(w)
    BY <2>7 DEF Refuse, Load, Store, Posted
  <2>8. CASE SetTime(w)
    BY <2>8 DEF SetTime, Load, Store, Posted
  <2>9. CASE Itimeout(w)
    BY <2>9 DEF Itimeout, Load, Store, Posted
  <2>10. CASE NoTimeout(w)
    BY <2>10 DEF NoTimeout, Load, Store, Posted
  <2>11. CASE Sleep(w)
    BY <2>11 DEF Sleep, Load, Store, Posted
  <2>12. CASE Signal(w)
    BY <2>12 DEF Signal, Load, Store, Posted
  <2>13. CASE Untimeout(w)
    BY <2>13 DEF Untimeout, Load, Store, Posted
  <2>14. CASE Interrupted(w)
    BY <2>14 DEF Interrupted, Load, Store, NotPosted
  <2>15. CASE Resume(w)
    BY <2>15 DEF Resume, Load, Store, Posted
  <2>16. CASE Relock(w)
    BY <2>16 DEF Relock, Load, Store, Posted
  <2>17. CASE CheckTime(w)
    BY <2>17 DEF CheckTime, Load, Store, Posted
  <2>18. CASE Expired(w)
    BY <2>18 DEF Expired, Load, Store, NotPosted
  <2>19. CASE ClearPosted(w)
    BY <2>19 DEF ClearPosted, Load, Store, Posted
  <2> QED
    BY <2>1, <2>2, <2>3, <2>4, <2>5, <2>6, <2>7, <2>8, <2>9, <2>10, <2>11, <2>12, <2>13, <2>14, <2>15, <2>16, <2>17, <2>18, <2>19 DEF WaitStep
<1>2. posts' = posts /\ rets' + Count("PWPOST" \in pwflag') + Count(WokenUp(w)')
                           <= rets + Count("PWPOST" \in pwflag) + Count(WokenUp(w))
  <2> USE Different DEF OneWaiter, IInv, FoundInv, PlaceInv,  HistoryInv, PostInv, NoSleepOnPost, NotLoaded, TypeInv, MutexInv, RegInv, LiveInv, Live, Goto, At, Acquire, syncVars, waitVars, counters, history, WokenUp, Count
  <2>1. CASE PwWait(w)
    BY <2>1 DEF PwWait, Load, Store, Posted
  <2>2. CASE PollTest(w)
    <3>1. CASE Poll(w, "poll", "yielded")
      BY <3>1 DEF Poll
    <3>2. CASE Poll(w, "yielded", "idle")
      BY <3>2 DEF Poll
    <3> QED
      BY <2>2, <3>1, <3>2 DEF PollTest
  <2>3. CASE PollClear(w)
    <3>1. CASE Load(w)
      BY <2>3, <3>1 DEF PollClear, Load, Store
    <3>2. CASE Store(w, {"PWPOST"}, {})
      <4>1. "PWPOST" \notin pwflag' /\ rets' = rets + 1 /\ posts' = posts /\ pc'[w] = "idle"
        BY <2>3, <3>2 DEF PollClear, Load, Store, Posted
      <4>2. "PWPOST" \in pwflag \/ WokenUp(w)
        BY <2>3 DEF PollClear
      <4> QED
        BY <4>1, <4>2
    <3> QED
      BY <2>3, <3>1, <3>2 DEF PollClear
  <2>4. CASE LockMutex(w)
    BY <2>4 DEF LockMutex, Load, Store, Posted
  <2>5. CASE TestPost(w)
    BY <2>5 DEF TestPost, AfterTest
  <2>6. CASE TakePost(w)
    <3>1. CASE Load(w)
      BY <2>6, <3>1 DEF TakePost, Load, Store
    <3>2. CASE Store(w, {"PWPOST"}, {})
      <4>1. "PWPOST" \notin pwflag' /\ rets' = rets + 1 /\ posts' = posts /\ pc'[w] = "idle"
        BY <2>6, <3>2 DEF TakePost, Load, Store, Posted
      <4>2. "PWPOST" \in pwflag \/ WokenUp(w)
        BY <2>6 DEF TakePost
      <4> QED
        BY <4>1, <4>2
    <3> QED
      BY <2>6, <3>1, <3>2 DEF TakePost
  <2>7. CASE Refuse(w)
    BY <2>7 DEF Refuse, Load, Store, Posted
  <2>8. CASE SetTime(w)
    BY <2>8 DEF SetTime, Load, Store, Posted
  <2>9. CASE Itimeout(w)
    BY <2>9 DEF Itimeout, Load, Store, Posted
  <2>10. CASE NoTimeout(w)
    BY <2>10 DEF NoTimeout, Load, Store, Posted
  <2>11. CASE Sleep(w)
    BY <2>11 DEF Sleep, Load, Store, Posted
  <2>12. CASE Signal(w)
    BY <2>12 DEF Signal, Load, Store, Posted
  <2>13. CASE Untimeout(w)
    BY <2>13 DEF Untimeout, Load, Store, Posted
  <2>14. CASE Interrupted(w)
    <3>1. CASE Load(w)
      BY <2>14, <3>1 DEF Interrupted, Load, Store
    <3>2. CASE Store(w, {"PWPOST", "PWTIME"}, {})
      <4>1. /\ "PWPOST" \notin pwflag' /\ pc'[w] = "idle"
            /\ rets' = rets /\ posts' = posts
        BY <2>14, <3>2 DEF Interrupted, Load, Store, NotPosted
      <4> QED
        BY <4>1
    <3> QED
      BY <2>14, <3>1, <3>2 DEF Interrupted
  <2>15. CASE Resume(w)
    BY <2>15 DEF Resume, Load, Store, Posted
  <2>16. CASE Relock(w)
    BY <2>16 DEF Relock, Load, Store, Posted
  <2>17. CASE CheckTime(w)
    BY <2>17 DEF CheckTime, Load, Store, Posted
  <2>18. CASE Expired(w)
    <3>1. CASE Load(w)
      BY <2>18, <3>1 DEF Expired, Load, Store
    <3>2. CASE Store(w, {"PWPOST"}, {})
      <4>1. /\ "PWPOST" \notin pwflag' /\ pc'[w] = "idle"
            /\ rets' = rets /\ posts' = posts
        BY <2>18, <3>2 DEF Expired, Load, Store, NotPosted
      <4> QED
        BY <4>1
    <3> QED
      BY <2>18, <3>1, <3>2 DEF Expired
  <2>19. CASE ClearPosted(w)
    <3>1. CASE Load(w)
      BY <2>19, <3>1 DEF ClearPosted, Load, Store
    <3>2. CASE Store(w, {"PWPOST", "PWTIME"}, {})
      <4>1. "PWPOST" \notin pwflag' /\ rets' = rets + 1 /\ posts' = posts /\ pc'[w] = "idle"
        BY <2>19, <3>2 DEF ClearPosted, Load, Store, Posted
      <4>2. "PWPOST" \in pwflag \/ WokenUp(w)
        BY <2>19 DEF ClearPosted
      <4> QED
        BY <4>1, <4>2
    <3> QED
      BY <2>19, <3>1, <3>2 DEF ClearPosted
  <2> QED
    BY <2>1, <2>2, <2>3, <2>4, <2>5, <2>6, <2>7, <2>8, <2>9, <2>10, <2>11, <2>12, <2>13, <2>14, <2>15, <2>16, <2>17, <2>18, <2>19 DEF WaitStep
<1>3. Late' \subseteq Late
  BY <1>1, TheWaiter DEF Late
<1>4. Count(Woken) = Count(WokenUp(w)) /\ Count(Woken') = Count(WokenUp(w)')
  BY TheWaiter DEF Count
<1>5. Cardinality(Late') <= Cardinality(Late)
  BY <1>3, LateFewer
<1>6. \A b : Count(b) \in {0, 1}
  BY DEF Count
<1> QED
  BY <1>2, <1>4, <1>5, <1>6, FiniteLate DEF CreditInv, HistoryInv

(* A late broadcast, and one that is not, wake as many as they may.        *)
LEMMA TimeoutCredit ==
  ASSUME OneWaiter, IInv, IInv', LiveInv, HistoryInv, HistoryInv', PlaceInv, PlaceInv', FoundInv, FoundInv', CreditInv, NEW n \in Callout, TimeStep(n)
  PROVE  CreditInv'
<1>1. PICK w \in Waiter : TRUE
  BY DEF OneWaiter
<1>2. Count(Woken) = Count(WokenUp(w)) /\ Count(Woken') = Count(WokenUp(w)')
  BY TheWaiter DEF Count
<1>3. \A b : Count(b) \in {0, 1}
  BY DEF Count
<1>4. UNCHANGED <<pc, time, id, posts, rets>>
  BY DEF TimeStep, Fire, TimeLock, TimeClear, TimeBroadcast, waitVars, history
<1> USE Different DEF OneWaiter, IInv, FoundInv, PlaceInv,  HistoryInv, PostInv, NoSleepOnPost, NotLoaded, TypeInv, MutexInv, RegInv, LiveInv, Live, Goto, At, Acquire, syncVars, waitVars, counters, history, Step, Waits, WokenUp
<1>5. CASE Fire(n) \/ TimeLock(n) \/ (TimeClear(n) /\ Load(n))
  <2>1. UNCHANGED <<pwflag, pwsv>> /\ \A m \in Callout : callout'[m] = "cast" <=> callout[m] = "cast"
    BY <1>5 DEF Fire, TimeLock, TimeClear, Load, Store
  <2>2. Late' = Late
    BY <1>4, <2>1, TheWaiter DEF Late
  <2>3. WokenUp(w)' <=> WokenUp(w)
    BY <1>4, <2>1
  <2> QED
    BY <1>2, <1>4, <2>1, <2>2, <2>3, FiniteLate DEF CreditInv, Count
<1>6. CASE TimeClear(n) /\ ~ Load(n)
  <2>1. /\ pwflag' = pwflag \ {"PWTIME"} /\ pwsv' = pwsv
        /\ callout' = [callout EXCEPT ![n] = "cast"]
    BY <1>6 DEF TimeClear, Store
  <2>2. /\ id[w] = n /\ time[w] = "timed" /\ "PWTIME" \in pwflag
        /\ pc[w] \in {"asleep", "relock", "untimeout", "sigUntimeout"}
    BY <1>6 DEF TimeClear
  <2>3. CASE Waits(w, n)
    <3>1. Late' \subseteq Late
      BY <1>4, <2>1, <2>3, TheWaiter DEF Late
    <3>2. WokenUp(w)' => WokenUp(w)
      BY <1>4, <2>1
    <3> QED
      BY <1>2, <1>3, <1>4, <2>1, <3>1, <3>2, LateFewer, FiniteLate DEF CreditInv, Count
  <2>4. CASE ~ Waits(w, n)
    <3>1. Late' \subseteq Late \cup {n}
      BY <1>4, <2>1, TheWaiter DEF Late
    <3>2. WokenUp(w) /\ ~ WokenUp(w)'
      BY <1>4, <2>1, <2>2, <2>4
    <3>3. Cardinality(Late') <= Cardinality(Late) + 1
      BY <3>1, LateMore
    <3> QED
      BY <1>2, <1>4, <2>1, <3>2, <3>3, FiniteLate DEF CreditInv, Count
  <2> QED
    BY <2>3, <2>4
<1>7. CASE TimeBroadcast(n)
  <2>1. /\ callout[n] = "cast" /\ callout' = [callout EXCEPT ![n] = "done"]
        /\ pwsv' = {} /\ pwflag' = pwflag
    BY <1>7 DEF TimeBroadcast
  <2>2. CASE n \in Late
    <3>1. IsFiniteSet(Late \ {n}) /\ Cardinality(Late \ {n}) = Cardinality(Late) - 1
      BY <2>2, FiniteLate, FS_RemoveElement
    <3>2. CASE w \in pwsv /\ time[w] = "timed" /\ id[w] \in Callout /\ callout[id[w]] = "cast"
      <4>1. Late' \subseteq (Late \ {n}) \cup {id[w]}
        BY <1>4, <2>1, TheWaiter DEF Late
      <4>2. ~ WokenUp(w)'
        BY <1>4, <2>1, <3>2
      <4>3. Cardinality(Late') <= Cardinality(Late)
        BY <2>2, <4>1, LateOther
      <4> QED
        BY <1>2, <1>3, <1>4, <2>1, <4>2, <4>3, FiniteLate DEF CreditInv, Count
    <3>3. CASE ~ (w \in pwsv /\ time[w] = "timed" /\ id[w] \in Callout /\ callout[id[w]] = "cast")
      <4>1. Late' \subseteq Late \ {n}
        BY <1>4, <2>1, <3>3, TheWaiter DEF Late
      <4>2. Cardinality(Late') <= Cardinality(Late) - 1
        BY <3>1, <4>1, FS_Subset
      <4> QED
        BY <1>2, <1>4, <2>1, <4>2, FiniteLate DEF CreditInv, Count
    <3> QED
      BY <3>2, <3>3
  <2>3. CASE n \notin Late
    <3>1. Waits(w, n)
      BY <2>1, <2>3, TheWaiter DEF Late
    <3>2. Late' \subseteq Late
      BY <1>4, <2>1, <3>1, TheWaiter DEF Late
    <3>3. WokenUp(w)' => WokenUp(w)
      BY <1>4, <2>1, <3>1
    <3> QED
      BY <1>2, <1>3, <1>4, <2>1, <3>2, <3>3, LateFewer, FiniteLate DEF CreditInv, Count
  <2> QED
    BY <2>2, <2>3
<1> QED
  BY <1>5, <1>6, <1>7 DEF TimeStep

(* A post counts once, whether it is recorded or wakes the LWP.            *)
LEMMA PosterCredit ==
  ASSUME OneWaiter, IInv, IInv', LiveInv, HistoryInv, HistoryInv', PlaceInv, PlaceInv', FoundInv, FoundInv', CreditInv, NEW p \in Poster, PwPost(p) \/ PostStep(p)
  PROVE  CreditInv'
<1>1. PICK w \in Waiter : TRUE
  BY DEF OneWaiter
<1>2. Count(Woken) = Count(WokenUp(w)) /\ Count(Woken') = Count(WokenUp(w)')
  BY TheWaiter DEF Count
<1>3. \A b : Count(b) \in {0, 1}
  BY DEF Count
<1>4. UNCHANGED <<time, id, callout, rets>> /\ pc'[w] = pc[w]
  <2> USE Different DEF IInv, TypeInv, Goto, At, syncVars, waitVars, counters, history
  <2>1. CASE PwPost(p)
    BY <2>1 DEF PwPost
  <2>2. CASE TestBlocked(p)
    BY <2>2 DEF TestBlocked
  <2>3. CASE PostBroadcast(p)
    BY <2>3 DEF PostBroadcast
  <2>4. CASE PostRecord(p)
    BY <2>4 DEF PostRecord
  <2>5. CASE PostSelf(p)
    BY <2>5 DEF PostSelf
  <2> QED
    BY <2>1, <2>2, <2>3, <2>4, <2>5 DEF PostStep
<1> USE Different DEF OneWaiter, IInv, FoundInv, PlaceInv,  HistoryInv, PostInv, NoSleepOnPost, NotLoaded, TypeInv, MutexInv, RegInv, LiveInv, Live, Goto, At, Acquire, syncVars, waitVars, counters, history, Waits, WokenUp
<1>5. CASE PwPost(p) \/ TestBlocked(p) \/ PostSelf(p) \/ (PostRecord(p) /\ Load(p))
  <2>1. UNCHANGED <<pwflag, pwsv, posts>>
    BY <1>5 DEF PwPost, TestBlocked, PostSelf, PostRecord, Load, Store
  <2>2. Late' = Late
    BY <1>4, <2>1, TheWaiter DEF Late
  <2>3. WokenUp(w)' <=> WokenUp(w)
    BY <1>4, <2>1
  <2> QED
    BY <1>2, <1>4, <2>1, <2>2, <2>3, FiniteLate DEF CreditInv, Count
<1>6. CASE PostRecord(p) /\ ~ Load(p)
  <2>1. /\ mutex = p /\ pwflag' = reg[p] \cup {"PWPOST"} /\ pwsv' = pwsv /\ posts' = posts + 1
        /\ reg[p] # None
    BY <1>6 DEF PostRecord, Store
  <2>2. Late' = Late
    BY <1>4, <2>1, TheWaiter DEF Late
  <2>3. WokenUp(w)' => WokenUp(w)
    BY <1>4, <2>1
  <2> QED
    BY <1>2, <1>3, <1>4, <2>1, <2>2, <2>3, FiniteLate DEF CreditInv, Count
<1>7. CASE PostBroadcast(p)
  <2>1. pwsv' = {} /\ pwflag' = pwflag /\ posts' = posts + 1
    BY <1>7 DEF PostBroadcast
  <2>2. CASE w \in pwsv /\ time[w] = "timed" /\ id[w] \in Callout /\ callout[id[w]] = "cast"
    <3>1. Late' \subseteq Late \cup {id[w]}
      BY <1>4, <2>1, TheWaiter DEF Late
    <3>2. ~ WokenUp(w)'
      BY <1>4, <2>1, <2>2
    <3>3. Cardinality(Late') <= Cardinality(Late) + 1
      BY <3>1, LateMore
    <3> QED
      BY <1>2, <1>3, <1>4, <2>1, <3>2, <3>3, FiniteLate DEF CreditInv, Count
  <2>3. CASE ~ (w \in pwsv /\ time[w] = "timed" /\ id[w] \in Callout /\ callout[id[w]] = "cast")
    <3>1. Late' \subseteq Late
      BY <1>4, <2>1, <2>3, TheWaiter DEF Late
    <3> QED
      BY <1>2, <1>3, <1>4, <2>1, <3>1, LateFewer, FiniteLate DEF CreditInv, Count
  <2> QED
    BY <2>2, <2>3
<1> QED
  BY <1>5, <1>6, <1>7 DEF PostStep

(* Nobody has posted yet.                                                  *)
LEMMA InitDeliver == Init => DeliverInv
<1> SUFFICES ASSUME Init PROVE DeliverInv
  OBVIOUS
<1>1. /\ \A w \in Waiter : pc[w] = "idle"
      /\ \A c \in Context : reg[c] = None
      /\ \A n \in Callout : callout[n] = "free"
      /\ pwflag = {} /\ pwsv = {} /\ posts = 0 /\ rets = 0 /\ ~ owed
  BY DEF Init
<1>2. HistoryInv /\ PlaceInv
  BY <1>1 DEF Init, HistoryInv, PlaceInv
<1>3. FoundInv
  BY <1>1, Different DEF FoundInv
<1>4. Late = {}
  BY <1>1 DEF Late
<1>5. ~ Woken
  BY <1>1 DEF Woken, WokenUp
<1>6. CreditInv
  BY <1>1, <1>4, <1>5, FS_EmptySet DEF CreditInv, Count
<1>7. OwedInv
  BY <1>1 DEF OwedInv
<1> QED
  BY <1>2, <1>3, <1>6, <1>7 DEF DeliverInv

(* The accounts are kept by every step.                                    *)
LEMMA StepDeliver ==
  ASSUME OneWaiter, IInv, IInv', LiveInv, DeliverInv, [Next]_vars
  PROVE  DeliverInv'
<1> USE DEF DeliverInv
<1>1. CASE UNCHANGED vars
  <2> USE <1>1 DEF vars, syncVars, waitVars, counters, history
  <2>1. HistoryInv' /\ PlaceInv' /\ FoundInv' /\ OwedInv'
    BY DEF HistoryInv, PlaceInv, FoundInv, OwedInv, Ending
  <2>2. \A w \in Waiter : (WokenUp(w)' <=> WokenUp(w)) /\ \A n : (Waits(w, n)' <=> Waits(w, n))
    BY DEF WokenUp, Waits
  <2>3. (Woken' <=> Woken) /\ Late' = Late
    BY <2>2 DEF Woken, OwnTimeout, Late
  <2>4. CreditInv'
    BY <2>3 DEF CreditInv, Count
  <2> QED
    BY <2>1, <2>4
<1>2. ASSUME NEW w \in Waiter, PwWait(w) \/ WaitStep(w) \/ Signal(w)
      PROVE  DeliverInv'
  <2>1. HistoryInv' /\ FoundInv'
    BY <1>2, WaiterFound
  <2>2. PlaceInv' /\ OwedInv'
    BY <1>2, WaiterPlace, WaiterOwed
  <2> QED
    BY <1>2, <2>1, <2>2, WaiterCredit
<1>3. ASSUME NEW n \in Callout, TimeStep(n)
      PROVE  DeliverInv'
  <2>1. HistoryInv' /\ FoundInv'
    BY <1>3, TimeoutFound
  <2>2. PlaceInv' /\ OwedInv'
    BY <1>3, TimeoutPlace, TimeoutOwed
  <2> QED
    BY <1>3, <2>1, <2>2, TimeoutCredit
<1>4. ASSUME NEW p \in Poster, PwPost(p) \/ PostStep(p)
      PROVE  DeliverInv'
  <2>1. HistoryInv' /\ FoundInv'
    BY <1>4, PosterFound
  <2>2. PlaceInv' /\ OwedInv'
    BY <1>4, PosterPlace, PosterOwed
  <2> QED
    BY <1>4, <2>1, <2>2, PosterCredit
<1> QED
  BY <1>1, <1>2, <1>3, <1>4 DEF Next

(* One LWP that waits: pwwait returns 1 at most once for each post, and a  *)
(* post is recorded until a wait ends after it: by a signal, by its timer, *)
(* or with the return of 1.                                                *)
THEOREM PostsAreDelivered ==
  ASSUME OneWaiter
  PROVE  Spec => []DeliveredOnce
<1>1. Init => LiveInv /\ DeliverInv
  BY InitInv, InitDeliver
<1>2. IInv /\ IInv' /\ LiveInv /\ DeliverInv /\ [Next]_vars => LiveInv' /\ DeliverInv'
  BY StepLive, StepDeliver
<1>3. IInv /\ DeliverInv => DeliveredOnce
  <2> SUFFICES ASSUME IInv, DeliverInv PROVE DeliveredOnce
    OBVIOUS
  <2>1. rets <= posts
    BY FiniteLate DEF DeliverInv, HistoryInv, CreditInv, Count
  <2>2. owed /\ (\A w \in Waiter : pc[w] = "idle") => "PWPOST" \in pwflag
    BY DEF IInv, TypeInv, DeliverInv, OwedInv, PlaceInv, Ending
  <2> QED
    BY <2>1, <2>2 DEF DeliveredOnce
<1> QED
  BY <1>1, <1>2, <1>3, Invariance, PTL DEF Spec

=============================================================================
