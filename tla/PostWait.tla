------------------------------ MODULE PostWait ------------------------------
(***************************************************************************)
(* The post-wait driver, io/postwait/postwait.c: LWPs of one process wait, *)
(* with or without a timeout, until another process posts it.              *)
(*                                                                         *)
(* p_pwflag is a byte.  The driver changes it under p_mutex in some places *)
(* and without it in others, so a change is a load and a store.            *)
(* Synchronization variables, timeouts and signals are outside the driver. *)
(***************************************************************************)
EXTENDS Integers, FiniteSets

CONSTANTS
  Waiter,     \* LWPs of the process
  Poster,     \* LWPs that post it
  Own,        \* those of the posters that belong to the process itself
  Times,      \* kinds of wait: "poll" (0), "timed" (> 0), "forever" (-1),
              \* "invalid" (< -1)
  None,       \* nobody; nothing loaded
  MaxWaits,   \* calls of pwwait per LWP
  MaxPosts,   \* calls of pwpost per poster
  MaxTimed,   \* timeouts set altogether
  MaxSignals  \* signals altogether

Callout == 1..MaxTimed
Context == Waiter \cup Poster \cup Callout

ASSUME PostWaitAssumption ==
  /\ Own \subseteq Poster /\ Times \subseteq {"poll", "timed", "forever", "invalid"}
  /\ Waiter \cap Poster = {} /\ Callout \cap (Waiter \cup Poster) = {} /\ None \notin Context
  /\ MaxWaits \in Nat /\ MaxPosts \in Nat /\ MaxTimed \in Nat /\ MaxSignals \in Nat

VARIABLES
  pwflag,   \* p_pwflag, a subset of {"PWTIME", "PWPOST"}
  pwsv,     \* LWPs blocked on p_pwsv
  mutex,    \* holder of p_mutex
  reg,      \* per context, the p_pwflag it loaded and has yet to store
  pc,       \* per LWP and poster, where it is
  time,     \* per LWP, the argument of pwwait
  id,       \* per LWP, its timeout
  callout,  \* per timeout: "free", "armed", "lock", "clear", "cast", "done"
  nwaits, nposted, ntimed, nsignals,   \* calls made so far
  posts,    \* history: posts that had their effect
  rets,     \* history: calls of pwwait that returned 1
  owed,     \* history: since the last call that was posted, signalled or timed
            \* out a post has been recorded or found somebody asleep
  recorded  \* history: a post has been recorded that no call has found

syncVars == <<pwflag, pwsv, mutex, reg>>
waitVars == <<time, id>>
counters == <<nwaits, nposted, ntimed, nsignals>>
history  == <<posts, rets, owed, recorded>>
vars     == <<syncVars, pc, waitVars, callout, counters, history>>

Init ==
  /\ pwflag = {} /\ pwsv = {} /\ mutex = None
  /\ reg = [c \in Context |-> None]
  /\ pc = [c \in Waiter \cup Poster |-> "idle"]
  /\ time = [w \in Waiter |-> "poll"] /\ id = [w \in Waiter |-> None]
  /\ callout = [n \in Callout |-> "free"]
  /\ nwaits = [w \in Waiter |-> 0] /\ nposted = [p \in Poster |-> 0]
  /\ ntimed = 0 /\ nsignals = 0
  /\ posts = 0 /\ rets = 0 /\ owed = FALSE /\ recorded = FALSE

-----------------------------------------------------------------------------
(* Helpers.                                                                *)

At(c, from) == pc[c] = from
Goto(c, from, to) == pc[c] = from /\ pc' = [pc EXCEPT ![c] = to]

Load(c) ==
  /\ reg[c] = None /\ reg' = [reg EXCEPT ![c] = pwflag]
  /\ UNCHANGED pwflag

Store(c, off, on) ==
  /\ reg[c] # None /\ reg' = [reg EXCEPT ![c] = None]
  /\ pwflag' = (reg[c] \ off) \cup on

Acquire(c) == mutex = None /\ mutex' = c

(* 1 is returned to the caller of pwwait: it has been posted.              *)
Posted == rets' = rets + 1 /\ owed' = FALSE /\ UNCHANGED posts

(* EINTR or 0 is, because a signal or the timer ended the wait.            *)
NotPosted == owed' = FALSE /\ recorded' = FALSE /\ UNCHANGED <<posts, rets>>

-----------------------------------------------------------------------------
(* pwwait.                                                                 *)

PwWait(w) ==
  /\ nwaits[w] < MaxWaits /\ nwaits' = [nwaits EXCEPT ![w] = @ + 1]
  /\ \E t \in Times :
       /\ time' = [time EXCEPT ![w] = t]
       /\ Goto(w, "idle", IF t = "poll" THEN "poll" ELSE "lock")
  /\ UNCHANGED <<syncVars, id, callout, nposted, ntimed, nsignals, history>>

(* time == 0: PWPOST is tested before and after the processor is given up, *)
(* and cleared, all without p_mutex.                                       *)
Poll(w, from, otherwise) ==
  /\ Goto(w, from, IF "PWPOST" \in pwflag THEN "pollClear" ELSE otherwise)
  /\ UNCHANGED <<syncVars, waitVars, callout, counters, history>>

PollTest(w) == Poll(w, "poll", "yielded") \/ Poll(w, "yielded", "idle")

PollClear(w) ==
  /\ At(w, "pollClear")
  /\ \/ Load(w) /\ UNCHANGED <<pc, history>>
     \/ /\ Store(w, {"PWPOST"}, {}) /\ Goto(w, "pollClear", "idle")
        /\ Posted /\ recorded' = FALSE
  /\ UNCHANGED <<pwsv, mutex, waitVars, callout, counters>>

LockMutex(w) ==
  /\ Acquire(w) /\ Goto(w, "lock", "test")
  /\ UNCHANGED <<pwflag, pwsv, reg, waitVars, callout, counters, history>>

AfterTest(w) == CASE time[w] = "timed" -> "arm"
                  [] time[w] = "forever" -> "sleep"
                  [] time[w] = "invalid" -> "refuse"

(* Mutant: a post that came before the wait is not looked for.             *)
TestPost_Skipped(w) ==
  /\ Goto(w, "test", AfterTest(w))
  /\ UNCHANGED <<syncVars, waitVars, callout, counters, history>>

TestPost(w) ==
  /\ Goto(w, "test", IF "PWPOST" \in pwflag THEN "take" ELSE AfterTest(w))
  /\ UNCHANGED <<syncVars, waitVars, callout, counters, history>>

(* The post that was remembered is consumed, under p_mutex.                *)
TakePost(w) ==
  /\ At(w, "take")
  /\ \/ Load(w) /\ UNCHANGED <<pc, mutex, history>>
     \/ /\ Store(w, {"PWPOST"}, {}) /\ mutex' = None
        /\ Goto(w, "take", "idle") /\ Posted /\ recorded' = FALSE
  /\ UNCHANGED <<pwsv, waitVars, callout, counters>>

(* EINVAL, which only a process that has not been posted gets to see.      *)
Refuse(w) ==
  /\ Goto(w, "refuse", "idle") /\ mutex' = None
  /\ UNCHANGED <<pwflag, pwsv, reg, waitVars, callout, counters, history>>

SetTime(w) ==
  /\ At(w, "arm")
  /\ \/ Load(w) /\ UNCHANGED pc
     \/ Store(w, {}, {"PWTIME"}) /\ Goto(w, "arm", "itimeout")
  /\ UNCHANGED <<pwsv, mutex, waitVars, callout, counters, history>>

(* itimeout; it may also fail.                                             *)
Itimeout(w) ==
  /\ \/ /\ ntimed < MaxTimed /\ ntimed' = ntimed + 1
        /\ id' = [id EXCEPT ![w] = ntimed']
        /\ callout' = [callout EXCEPT ![ntimed'] = "armed"]
        /\ Goto(w, "itimeout", "sleep")
     \/ Goto(w, "itimeout", "again") /\ UNCHANGED <<id, callout, ntimed>>
  /\ UNCHANGED <<syncVars, time, nwaits, nposted, nsignals, history>>

(* EAGAIN.                                                                 *)
NoTimeout(w) ==
  /\ At(w, "again")
  /\ \/ Load(w) /\ UNCHANGED <<pc, mutex>>
     \/ /\ Store(w, {"PWPOST", "PWTIME"}, {}) /\ mutex' = None
        /\ Goto(w, "again", "idle")
  /\ UNCHANGED <<pwsv, waitVars, callout, counters, history>>

(* SV_WAIT_SIG blocks the LWP and releases p_mutex.                        *)
Sleep(w) ==
  /\ Goto(w, "sleep", "asleep")
  /\ pwsv' = pwsv \cup {w} /\ mutex' = None
  /\ UNCHANGED <<pwflag, reg, waitVars, callout, counters, history>>

(* A signal ends the sleep.                                                *)
Signal(w) ==
  /\ nsignals < MaxSignals /\ nsignals' = nsignals + 1
  /\ w \in pwsv /\ pwsv' = pwsv \ {w}
  /\ Goto(w, "asleep", IF time[w] = "timed" THEN "sigUntimeout" ELSE "signalled")
  /\ UNCHANGED <<pwflag, mutex, reg, waitVars, callout, nwaits, nposted, ntimed, history>>

(* Mutant: untimeout does not wait for the function that is running.       *)
Untimeout_NoWait(w) ==
  /\ callout' = [callout EXCEPT ![id[w]] = IF @ = "armed" THEN "done" ELSE @]
  /\ Goto(w, "untimeout", "clear") \/ Goto(w, "sigUntimeout", "signalled")
  /\ UNCHANGED <<syncVars, waitVars, counters, history>>

(* untimeout cancels the timeout, or waits for pwtime to return.           *)
Untimeout(w) ==
  /\ Goto(w, "untimeout", "clear") \/ Goto(w, "sigUntimeout", "signalled")
  /\ callout[id[w]] \in {"armed", "done"}
  /\ callout' = [callout EXCEPT ![id[w]] = "done"]
  /\ UNCHANGED <<syncVars, waitVars, counters, history>>

(* EINTR: both flags are cleared without p_mutex.                          *)
Interrupted(w) ==
  /\ At(w, "signalled")
  /\ \/ Load(w) /\ UNCHANGED <<pc, history>>
     \/ Store(w, {"PWPOST", "PWTIME"}, {}) /\ Goto(w, "signalled", "idle") /\ NotPosted
  /\ UNCHANGED <<pwsv, mutex, waitVars, callout, counters>>

Resume(w) ==
  /\ w \notin pwsv
  /\ Goto(w, "asleep", IF time[w] = "timed" THEN "relock" ELSE "clear")
  /\ UNCHANGED <<syncVars, waitVars, callout, counters, history>>

Relock(w) ==
  /\ Acquire(w) /\ Goto(w, "relock", "check")
  /\ UNCHANGED <<pwflag, pwsv, reg, waitVars, callout, counters, history>>

(* PWTIME tells a timeout from a post; after a post p_mutex is dropped     *)
(* before the timeout is cancelled.                                        *)
CheckTime(w) ==
  /\ IF "PWTIME" \in pwflag
       THEN Goto(w, "check", "untimeout") /\ mutex' = None
       ELSE Goto(w, "check", "expired") /\ UNCHANGED mutex
  /\ UNCHANGED <<pwflag, pwsv, reg, waitVars, callout, counters, history>>

(* The timer has expired: 0 is returned.                                   *)
Expired(w) ==
  /\ At(w, "expired")
  /\ \/ Load(w) /\ UNCHANGED <<pc, mutex, history>>
     \/ /\ Store(w, {"PWPOST"}, {}) /\ mutex' = None
        /\ Goto(w, "expired", "idle") /\ NotPosted
  /\ UNCHANGED <<pwsv, waitVars, callout, counters>>

(* We have been posted: both flags are cleared without p_mutex, and with   *)
(* them a post that was recorded since the LWP was woken.                  *)
ClearPosted(w) ==
  /\ At(w, "clear")
  /\ \/ Load(w) /\ UNCHANGED <<pc, history>>
     \/ /\ Store(w, {"PWPOST", "PWTIME"}, {}) /\ Goto(w, "clear", "idle")
        /\ Posted /\ UNCHANGED recorded
  /\ UNCHANGED <<pwsv, mutex, waitVars, callout, counters>>

-----------------------------------------------------------------------------
(* pwtime, run by timeout n.                                               *)

Step(n, from, to) == callout[n] = from /\ callout' = [callout EXCEPT ![n] = to]

Fire(n) ==
  /\ Step(n, "armed", "lock")
  /\ UNCHANGED <<syncVars, pc, waitVars, counters, history>>

TimeLock(n) ==
  /\ Acquire(n) /\ Step(n, "lock", "clear")
  /\ UNCHANGED <<pwflag, pwsv, reg, pc, waitVars, counters, history>>

TimeClear(n) ==
  /\ callout[n] = "clear"
  /\ \/ Load(n) /\ UNCHANGED <<callout, mutex>>
     \/ Store(n, {"PWTIME"}, {}) /\ mutex' = None /\ Step(n, "clear", "cast")
  /\ UNCHANGED <<pwsv, pc, waitVars, counters, history>>

(* Mutant: the waiter is not woken.                                        *)
TimeBroadcast_None(n) ==
  /\ Step(n, "cast", "done")
  /\ UNCHANGED <<pwflag, pwsv, mutex, reg, pc, waitVars, counters, history>>

TimeBroadcast(n) ==
  /\ Step(n, "cast", "done") /\ pwsv' = {}
  /\ UNCHANGED <<pwflag, mutex, reg, pc, waitVars, counters, history>>

-----------------------------------------------------------------------------
(* pwpost.  prfind returns the process with p_mutex held.                  *)

PwPost(p) ==
  /\ nposted[p] < MaxPosts /\ nposted' = [nposted EXCEPT ![p] = @ + 1]
  /\ Acquire(p) /\ Goto(p, "idle", "blkd")
  /\ UNCHANGED <<pwflag, pwsv, reg, waitVars, callout, nwaits, ntimed, nsignals, history>>

(* A post is owed from here on: it will be recorded, or broadcast to who   *)
(* sleeps now, even if a signal or a timeout is faster.                    *)
TestBlocked(p) ==
  /\ Goto(p, "blkd", IF pwsv # {} THEN "cast" ELSE IF p \in Own THEN "unlock" ELSE "set")
  /\ owed' = (owed \/ pwsv # {}) /\ UNCHANGED <<posts, rets, recorded>>
  /\ UNCHANGED <<syncVars, waitVars, callout, counters>>

(* The post is counted where it takes effect.                              *)
PostBroadcast(p) ==
  /\ Goto(p, "cast", "idle") /\ mutex' = None
  /\ pwsv' = {} /\ posts' = posts + 1
  /\ UNCHANGED <<pwflag, reg, waitVars, callout, counters, rets, owed, recorded>>

(* The post is recorded, except that a process does not post itself.       *)
PostRecord(p) ==
  /\ At(p, "set")
  /\ \/ Load(p) /\ UNCHANGED <<pc, mutex, history>>
     \/ /\ Store(p, {}, {"PWPOST"}) /\ mutex' = None /\ Goto(p, "set", "idle")
        /\ posts' = posts + 1 /\ owed' = TRUE /\ recorded' = TRUE /\ UNCHANGED rets
  /\ UNCHANGED <<pwsv, waitVars, callout, counters>>

PostSelf(p) ==
  /\ Goto(p, "unlock", "idle") /\ mutex' = None
  /\ UNCHANGED <<pwflag, pwsv, reg, waitVars, callout, counters, history>>

-----------------------------------------------------------------------------
WaitStep(w) ==
  \/ PollTest(w) \/ PollClear(w) \/ LockMutex(w) \/ TestPost(w) \/ TakePost(w) \/ Refuse(w)
  \/ SetTime(w)
  \/ Itimeout(w) \/ NoTimeout(w) \/ Sleep(w) \/ Untimeout(w) \/ Interrupted(w) \/ Resume(w)
  \/ Relock(w) \/ CheckTime(w) \/ Expired(w) \/ ClearPosted(w)

TimeStep(n) == Fire(n) \/ TimeLock(n) \/ TimeClear(n) \/ TimeBroadcast(n)

PostStep(p) == TestBlocked(p) \/ PostBroadcast(p) \/ PostRecord(p) \/ PostSelf(p)

Next ==
  \/ \E w \in Waiter : PwWait(w) \/ WaitStep(w) \/ Signal(w)
  \/ \E n \in Callout : TimeStep(n)
  \/ \E p \in Poster : PwPost(p) \/ PostStep(p)

Spec == Init /\ [][Next]_vars

(* Runnable LWPs run, a timeout goes off in the end and its handler runs.  *)
(* Nobody has to post.                                                     *)
Fairness ==
  /\ \A w \in Waiter : WF_vars(WaitStep(w))
  /\ \A n \in Callout : WF_vars(TimeStep(n))
  /\ \A p \in Poster : WF_vars(PostStep(p))

FairSpec == Spec /\ Fairness

-----------------------------------------------------------------------------
(* Properties.                                                             *)

(* No LWP sleeps on a post that has been recorded: the test of PWPOST and  *)
(* the going to sleep, and the test for sleepers and the recording, are    *)
(* each one step under p_mutex, whatever is written without it.            *)
NoSleepOnPost == pwsv # {} => "PWPOST" \notin pwflag

(* One LWP that waits: a timeout that is still to clear PWTIME belongs to  *)
(* the call of pwwait in progress, never to one that has returned; or a    *)
(* later wait would end as expired at once.                                *)
TimeoutIsCurrent ==
  \A n \in Callout : callout[n] \in {"armed", "lock", "clear"} =>
    \E w \in Waiter : id[w] = n /\ time[w] = "timed" /\ pc[w] # "idle"

(* A wait with a timeout ends, posted or not.                              *)
TimedWaitEnds == \A w \in Waiter : pc[w] = "asleep" /\ time[w] = "timed" ~> pc[w] = "idle"

(* One LWP that waits: pwwait never returns 1 more often than the process  *)
(* has been posted, though a broadcast of pwtime that comes late looks     *)
(* like a post to the next wait.  (One post wakes all LWPs of a process.)  *)
(* And a post, recorded or not, is lost only to a wait that ends after it, *)
(* by a signal, by its timer or with a 1 that may be another post's: when  *)
(* no call is in progress and no wait has ended so since, it is recorded.  *)
DeliveredOnce ==
  /\ rets <= posts
  /\ owed /\ (\A w \in Waiter : pc[w] = "idle") => "PWPOST" \in pwflag

(* "If the process is not waiting, record the post so that the process     *)
(* will get the post the next time it does a pwwait" (header of pwpost): a *)
(* post that has been recorded stays so until a call finds it, unless a    *)
(* signal or the timer ends a wait.                                        *)
RecordedIsGot == recorded /\ (\A w \in Waiter : pc[w] = "idle") => "PWPOST" \in pwflag

=============================================================================
