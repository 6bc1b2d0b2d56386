# TLA+ models of the UnixWare 7 kernel's synchronization code

The repository holds 23187 files of UnixWare 7. Most of them are commands,
libraries, the window system and device drivers (`common/`, `i386/cmd`,
`X11R5`, `X11R6`, `i386at/uts/io`). Its own core logic, and the code whose
mistakes a test hardly shows, is the multiprocessor part of the machine
dependent kernel: the primitives by which LWPs and processors coordinate, in
`i386/uts/util`, `i386/uts/svc`, `i386at/uts/util` and `i386at/uts/svc`, and
code built directly on them: the post-wait driver, System V shared memory
(`i386/uts/proc/ipc`) and a page allocator (`i386/uts/mem`). This project
models that part. Paths below are relative to
`src/usr/src/`.

## Inventory

| Component | Source | State | Operations | What is hard | What makes it correct |
|---|---|---|---|---|---|
| Sleep locks | `i386/uts/util/sleep.c`, `ksynch.h`, `slpdeque` of `ksynch.c` | `sl_avail`, `sl_fspin`, `sl_pid`, `sl_pend`, `sl_fixpend`, `sl_list`; per LWP `l_mutex`, `l_stat`, `L_SIGWOKE`; `p_niblked` | lock, interruptible lock, trylock, unlock, lock privately, disown, unsleep | the lock is freed before waiters are looked for and taken back if there are any; signals race with wakeups; the count of wakeups is settled by somebody else | one holder, exact owner, no lost lock, no lost wakeup, exact count |
| Reader-writer sleep locks | `i386/uts/util/rwsleep.c` | `rw_avail`, `rw_mode`, `rw_read`, `rw_fspin`, `rw_pend`, `rw_list` | read and write lock, try variants, unlock | readers join and leave without a common lock; the mode is written after the lock is free | readers or one writer, exact reader count, no lost wakeup |
| Cross-processor calls | `i386at/uts/svc/xcall.c`, delivery in `i386/uts/svc/msintr.c` | `xcall_lock`, `xcall_params`, `xcall_handshake[]` | `xcall`, `xcall_all`, `xcall_intr` | timeout against late answer; parameters reused; processors calling each other | responders exact, no mixed parameters, no deadlock |
| Post-wait driver | `i386/uts/io/postwait/postwait.c` | `p_pwflag`, `p_pwsv`, the timeout | `pwwait`, `pwpost`, `pwtime` | flags changed with and without `p_mutex`; timeout and signal against post | a post before a wait is seen, delivered once, timed waits end |
| Reader-writer spin locks | `i386/uts/util/rwlocks.s` | `rws_lock`, `rws_state`, `rws_rdcount`, `rws_fspin` | read and write lock, try variants, unlock | the last reader sets the lock free and looks again, without `rws_fspin`, while others join | readers or one writer, exact reader count, the holder knows how it has the lock |
| Engine management | `i386at/uts/util/engine.c`, parts of `svc/sysinit.c` and `start.s` | `nonline`, `e_flags`, `eng_wait`, `online_engno`, `onoff_mutex` (a sleep lock) | online, offline, bind driver, timeout, start and stop of a processor | handshake with the engine that starts or stops; one event and one timeout argument for all engines | the last engine stays, so does one with a bound driver, a caller hears from the engine it asked, calls return |
| Interrupt delivery | `i386/uts/svc/msintr.c`, `spl.s`, `softint_hdlr` of `i386at/uts/svc/machdep.c` | `ipl`, `picipl`, `deferqueue`, `l.msevents`, `l.eventflags`, `softmbox` | handle, service, defer, undefer, the `spl` routines, send a soft interrupt | interrupts between the store of `ipl` and the look at `picipl`, within handlers, and within one another | nothing waits at a level it may run at, nothing is queued twice or lost |
| System V shared memory | `i386/uts/proc/ipc/shm.c` | directory of identifiers, descriptors, `SHM_BUSY`, `kshm_refcnt`, attachments of a process | get, attach, detach, remove, lock, fork, exec, exit | removal, reuse of a slot and attachment while somebody waits for `SHM_BUSY` | exact count, memory lives as long as its users, an identifier means the same segment throughout a call |
| Page allocator | `i386/uts/mem/vm_rzbm.c` | per chunk a bitmap, per cell a count and a cursor, two pools; the reservation | set up a chunk, reserve and give back, allocate and free 4K and 4M pages | long sequences that break 4M pages up and put them together; waiters for a reservation | no page lost or given twice, pools and cursors right, a reserved page is there |
| Spin locks | `i386/uts/util/locks.s`, `fspins.s` | a byte, ipl | lock, trylock, unlock | | atomic in the models |
| Lock debugging | `ksynch.c`, `locks_dbg.c`, `rwlocks_dbg.c`, `locktest.c` | | | checks of debug kernels | not modelled |
| Dynamic shared memory | `i386/uts/proc/ipc/dshm.c` | as `shm.c`, with a buffer pool and mappings | | | not modelled |
| HAT, context switch, traps | `i386/uts/mem/vm_hat*.c`, `proc/cswtch.s`, `svc/trap.c` | page tables, machine state | | tied to a VM system that is not in the repository | not modelled |
| File systems, STREAMS, drivers, platform modules | `i386/uts/fs`, `io`, `net`, `i386at/uts/io`, `psm` | | | hardware and frameworks that are not in the repository | not modelled |
| Commands, libraries, X11 | `common`, `i386/cmd`, `X11R5`, `X11R6` | | | sequential or vendored | not modelled |

How they interact: every caller of a sleep lock or a reader-writer sleep lock
is an LWP; it blocks by `swtch`, and is made runnable under its `l_mutex`
either by an unlock or, for a signal, by `setrun`, which calls
`sleep_unsleep`. `online` and `offline` run under the sleep lock
`onoff_mutex`, which `Engine` takes as `LockSpec` has it. `xcall` depends on
the engines that engine management brings up and on `msintr.c` to deliver its
event; `Intr` has that event among the others it delivers. The post-wait driver
uses `p_mutex`, a synchronization variable and the callout table. Shared
memory is attached and detached under the lock of an address space, a
reader-writer sleep lock.

`PROJECT.json` lists the hazards line by line, with the property that covers
each of them.

## Modules

| Module | Models | Used by |
|---|---|---|
| `LockSpec` | what a sleep lock promises: free, held by one LWP, or disowned | refined by `SleepLock` |
| `SleepLock` | `sleep.c` | |
| `MCSleepLock` | constants | runs `SleepLock_*` |
| `SleepLockProofs` | theorems about `SleepLock` | |
| `RWLockSpec` | readers or one writer | refined by `RWSleep` and `RWSpin` |
| `RWSleep` | `rwsleep.c` | |
| `MCRWSleep` | constants | run `RWSleep` |
| `RWSleepProofs` | theorems about `RWSleep` | |
| `RWSpin`, `MCRWSpin`, `RWSpinProofs` | `rwlocks.s` | run `RWSpin` |
| `XCall`, `MCXCall`, `XCallProofs` | `xcall.c` | run `XCall` |
| `PostWait`, `MCPostWait`, `PostWaitProofs` | `postwait.c` | runs `PostWait`, `PostWait_erased` |
| `Engine`, `MCEngine`, `EngineProofs` | `engine.c` and what a processor does when it starts and stops | run `Engine` |
| `Intr`, `MCIntr`, `IntrProofs` | `msintr.c`, `spl.s`, `softint_hdlr` on one engine | run `Intr` |
| `Shm`, `MCShm`, `ShmProofs` | `shm.c` | run `Shm` |
| `Rzbm`, `MCRzbm` | `vm_rzbm.c` | run `Rzbm` |

### How state and steps correspond to the code

A variable has the name of the field without its prefix. Each LWP or engine has
a `pc`; an action is the code from one access of shared memory to the next, and
is named for what it does (`UnlockRecheckSpin`, `JoinMode`). The guard is the
code's condition, and an action whose guard is false is the code spinning.
Several rules are the same everywhere:

- *Memory order.* Accesses happen in program order. The processors are x86; the
  one reordering they allow, a store that is delayed past a later load, is what
  the code's `WRITE_SYNC` and `xchg` rule out where it matters
  (`sleep.c:1097`, `rwsleep.c:1113` and `1162`).
- *Spin locks.* Taking a lock is a step of its own. A critical section is one
  step only where nobody but the holder of the spin lock looks at what it
  changes; `sl_fspin` itself is looked at by `sleep_unlock` without being
  taken, so it is a variable and its acquisition and release are visible.
- *Test and take.* `avail && take()` is one step: the exchange decides, the read
  before it only avoids the exchange.
- *The second look* after an optimistic release is split into its reads. The
  first look is one step, since what it decides is checked again or is
  harmless: from the first look the code either goes to the queue, which is
  right in any state, or frees the lock and looks a second time.
- *Configuration.* `KS_LOCKTEST` and lock statistics are off, the kernel is a
  multiprocessor one (`UNIPROC` not defined).
- *Code outside the repository* is modelled from how the code here uses it and
  marked external in the map: `setrun` and `sigtoproc` (`PostSignal`,
  `PostLock`, `Deliver`), `SV_WAIT_SIG` (`Signal`), the callout table
  (`Fire`; `untimeout` waits for a function that is running). `CL_INSQUE` may
  place an LWP anywhere in the queue.

`SleepLock`: `sl_pid` and `sl_lwpid` are one value, `owner`; `sleep_lock` is the
actions `Lock*` and `RecordOwner`, `sleep_lock_sig` is `Sig*`, `sleep_unlock` is
`Unlock*` and `Dequeue*`. The counts `sl_pend` and `sl_fixpend` are unbounded
integers. `disowned` stands for the obligation of some other context to
release the lock after `SLEEP_DISOWN` or `sleep_lock_private`.

`RWSleep`: the fast path of the lock calls is the first test of their loop. Read
and write calls share actions where the code is the same, and `Denied` is where a
blocking call goes to sleep and a try call returns. `l_mutex` is held at the
locations of `HoldsLmutex`; the only other context that wants it is the one that
wakes the LWP. `l_stype` has no variable: it is the mode of the call once the
LWP has set it, and `ST_NONE` from the last `LWP_WAKEUP` before that; `Dequeue`
chooses which of the two it reads, for each of its two reads.

`XCall`: the function and the argument of a call are both the call's number, so
that a mixture of two calls can be told. `frames` is the stack of
`xcall_intr` activations of an engine, and the code below stands still while
one runs.

`PostWait`: `p_pwflag` is a byte that is changed with and without `p_mutex`, so
every change is a load (`Load`) and a store (`Store`). `posts`, `rets`, `owed` and
`recorded` are history: they follow a post from `pwpost` to the call that returns
for it.

`RWSpin`: each access of the lock is a step, the lock bytes are booleans, and an
engine is at the lock's ipl, hence not preempted. The state is refined to
`RWLockSpec` with the engines that are done with taking the lock and not done
with releasing it.

`Engine`: a processor is told from the engine it takes itself for (`cpu`,
`self`), since it reads `online_engno` when it starts. `e_flags` is changed with
and without `eng_tbl_mutex`; the unlocked update of `online_failure` is a load
and a store, and so are those under the lock that it may meet (`disponline`,
`engine_disable_offline`). `eng_wait` remembers one signal. The timeout may fire
at any time until it is cancelled, whatever the processor has done by then. The
history variable `late` becomes true when a call of `online` is over, given up,
before the processor it has started has answered; `bound` holds the engines for
which `engine_disable_offline` returned `B_TRUE`. It is called once per engine:
drivers that call it for ever would keep `offline_engine` from `eng_tbl_mutex`,
with no harm to anything but progress. That `selfinit` panics when it fails
(`sysinit.c:2492`) is outside the model.

`Intr`: `stack` is what the engine runs: an LWP's code, and above it activations
of `intr_handle`, the handlers that they run, and the `spl` routine that was
interrupted. `intr_handle` and `intr_undefer` run with interrupts disabled,
handlers with interrupts enabled. Left out because they leave no trace in that
state: stray interrupts and profiling ticks.

`Shm`: what runs under `shmdir_lck`, `kshm_lck` or an address space locked for
writing is one step; `SHM_BUSY`, which is held over blocking calls, is a
variable, and so is everything an LWP has read before it blocked. `ipcget`, the
permission checks and the segment drivers are external. `ShmAssumption` restricts
the programs in two ways, because the code does not work for others: two LWPs
of a process that detach the same address free the record twice, and `shmat`
(with `SHM_BUSY`, waiting for the address space) and `shmfork` (the other way
round) block each other. TLC shows both as soon as the assumption is dropped.
What the assumption leaves is a process in which one LWP attaches, forks and
removes while another one detaches, as in the run: there an LWP does wait for
the address space of the fork.

`Rzbm`: everything that runs under `zbm_lock` is one step; `rzbm_unresv` looks
for waiters after it has released it. The word and the bit of a page are one
number, the pools are sequences. The clients keep the rule the allocator relies
on, to have no more pages than they have reserved. `rzbm_psealloc` that finds
nothing changes nothing and is no step.

## Runs

| Run | Module, bounds | Shows |
|---|---|---|
| `SleepLock_plain` | 3 LWPs, a 4th context that releases a disowned lock, one LWP that may be swapped out; 214 000 states | exclusion, no lost lock, exact owner and its hand-over, sleepers reachable, no lost wakeup; somebody gets the lock; no deadlock |
| `SleepLock_signals` | 2 LWPs, all signals, SIGWAITING; 787 000 states | `LockSpec` is implemented whatever ends a wait; while signals are only caught `sl_pend` less `sl_fixpend` stays exact through `sleep_unsleep` |
| `SleepLock_acquire` | 2 LWPs | the finding of `sleep.c:656` |
| `RWSleep` | 3 LWPs that read, 2 of which also write, one that may be swapped out; 303 000 states | `RWLockSpec`, exact `rw_read`, mode of the holder, no lost wakeup, exact `rw_pend`; somebody gets the lock; no deadlock |
| `RWSpin` | 3 engines in any call; 86 000 states | `RWLockSpec`, exact `rws_rdcount`, `rws_state` tells how the lock is held; somebody gets it; no deadlock |
| `XCall` | 3 engines, 2 initiators, one with a timeout, a call each; 76 000 states | responders exact, stale parameters only after a cancelled request, calls return |
| `PostWait` | 1 LWP, 3 waits of any kind, 2 posters with 2 posts, 2 timeouts, 1 signal; 106 000 states | no sleep on a recorded post, nothing delivered twice, no stale timeout, no post lost but to a wait that itself ends after it, timed waits end |
| `PostWait_erased` | as `PostWait` | the finding of `postwait.c:223` |
| `Engine` | 3 processors, 2 of which may fail, 1 of them bound by a driver, 2 LWPs with 3 calls together; 473 000 states | until a processor answers after its call was over, the last engine stays, a driver-bound one too, and a caller is woken by the engine it asked; calls return in any case |
| `Intr` | 2 devices, clock, soft interrupt, cross-processor call, 5 frames; 2.2 million states | `deferqueue`, `picipl` and masks agree; no interrupt is stranded; no soft interrupt lost; no deadlock |
| `Shm` | a process with 2 LWPs, one with 1, a child, 3 LWPs with 2, 1 and 3 calls, 2 addresses, 1 slot, 2 descriptors; 232 000 states | count and memory exact, identifiers hold, one `SHM_BUSY` holder and no lost wakeup, calls return |
| `Rzbm` | 10 pages in 3 chunks, 4M pages of 4, words of 2; a client with 4K pages, 2 with 4M pages; 1.4 million states | bitmap, counts, cursors and pools exact; a reserved page is there; no lost wakeup; no deadlock |

*Why the bounds are enough.* The races of the locks are between at most three
parties: one that releases, one that queues up or joins, and one that comes
fresh. `RWSpin` needs three engines for a reader that releases, one that fails
to join and one that joins behind it; its safety properties were checked with
four as well. `MaxSleeps` and `MaxBlocked` only keep an LWP from *starting*
an acquisition while somebody has slept that often, never one from going on,
so no behaviour is cut in the middle, and two sleeps reach the re-queueing at
the head and the sums of `nsleeps`. With one call each two initiators of
`XCall` already overlap in every way a late answer can see; a third call would
add repetitions of the stale window. `MaxWaits` of 3 lets a timeout of the
first wait reach the third. In `Engine` one call leaves a signal or a timeout
behind, a second one finds it and a third one relies on what it did; three
processors give a second target that can take the signal of the first. In `Intr` five frames are two interrupts inside one another and
the deferred ones that they uncover; six were checked once. In `Shm` one slot is
enough, as a removed segment gives its slot to the next one; two descriptors let
the old one live on behind it. Three calls make a segment, attach it in a second
process and detach by `exec` or `exit` there, while the first one attaches,
forks, detaches or removes. A fork copies one record in the run, any number in
the theorems. In `Rzbm` there is a range that begins before a 4M boundary and
ends behind one, so that both kinds of small chunk are cut off, and two 4M pages
in one chunk, which 4K pages break up in either order; the clients together ask
for 15 of 10 pages. CPU groups only choose among the chunks that can serve; the
instance has one; a larger instance with two ranges and two groups was checked once.

*Deadlock* is checked except where the program may stop: `XCall`, `PostWait`,
`Engine` and `Shm` make a bounded number of calls, and in the runs with signals a
leaked `p_niblked` (the finding below) or the bounds keep new acquisitions from starting.

*Fairness* is weak and per LWP, engine or timeout: a runnable LWP goes on (the
dispatcher runs it), a spinning one takes the lock when it stays free, a holder
releases, an engine that is open to interrupts takes one that is posted, a
processor that was started goes on, a timer fires. Nobody is required to ask for
a lock, to post or to make a system call. No strong fairness is used: who wins a
race for a spin lock or for `sl_avail` is not promised, so the liveness
properties of the locks say that *somebody* gets the lock. A single LWP may
starve: a newcomer may overtake one that has been woken, and readers may join
readers for ever while a writer waits. `Intr` and `Rzbm` have safety properties
only: whether an interrupt is taken in the end depends on handlers that lower
`ipl`, whether a reservation is granted on clients that give theirs back.

## Findings

`sleep_lock_sig` reaches `acquire` without `l_mutex` (`sleep.c:655`, against
the assertion at 551); the run `SleepLock_acquire` shows it.

`pwwait` erases a recorded post when it returns for another one. Its last step
clears `PWPOST` and `PWTIME` without `p_mutex` (`postwait.c:223`); a post that comes
between the wakeup and that step finds nobody blocked, is recorded and goes with
them, while the header of `pwpost` (237-240) promises it to the next `pwwait`. The
run `PostWait_erased` shows it in 15 states, without signal or timeout.

Seen with TLC on the same models under other constants, and left out of the runs,
which check what does hold:

- In the same way a post recorded after a signal or the timer has ended a wait is
  erased (`postwait.c:196` and `207`). `DeliveredOnce` states that this is all: a
  post is lost only to a wait that itself ends after the post, with `EINTR`, 0
  or 1.
- The flags and the synchronization variable of post-wait are those of the
  process: with two LWPs in `Waiter`, the timeout of one ends the unlimited
  wait of the other, which returns 1, "process was posted" (`postwait.c:97`).
- A processor that answers after its call has been given up signals `eng_wait`
  and clears `E_OFFLINE` when nobody expects it: it ends the wait for another
  engine (`engine.c:346`, against the comment at 345), which is counted although
  it is not there, so that the last one may be taken offline. Without the disjunct
  `late` TLC violates `WaitsForTarget` in 22 states, `KeepsOne` in 27 and
  `DriverBoundStays` in 34. Nothing in the source bounds the answer to the five
  seconds of the timeout.
- A sleep ended by a stop stays in `nsleeps`, and `sl_pend` falls below it
  (`sleep.c:539`, against the assertion at 637); SIGWAITING makes an LWP give up
  after a wakeup it has consumed, and `sl_pend` stays positive (`sleep.c:582`).
  `PendKept` therefore promises `PendExact` up to the first of them.
- Both that SIGWAITING and the way to `acquire` of `SleepLock_acquire` can lose a
  wakeup: an LWP that was woken sends the signal without a look at the lock, and
  an LWP without `l_mutex` can be woken before it sleeps. Somebody then sleeps
  for a free lock; the theorem `SleepersAreWoken` says that nothing else leads
  there.
- `rwsleep_dequeue` reads `l_stype` of a writer that has not set it yet
  (`rwsleep.c:1215`, against the assertion at 1236). Only the choice of whom
  to wake suffers; the model takes either value.
- The two restrictions of `ShmAssumption`.
- `intr_handle` runs a new interrupt between the store of `ipl` and the look at
  `picipl`, and soft interrupts before `intr_undefer`, so that a deferred
  interrupt of higher priority waits for them; `NothingStranded` says how long.

The comment of `xcall_intr` that it "won't be reentered until we clear the
`xcall_handshake[]`" does not hold after a call that timed out; `xcall` itself
admits to that window, and `StaleOnlyAfterCancel` states that it is the only
one.

## Proofs

Each `*Proofs` module proves its component's properties for every value of the
constants. The pattern is the same everywhere: `IInv` is the inductive
invariant, a conjunction of named parts; `InitInv` or `InitHolds` shows that it
holds at the start; each action has a lemma that it keeps `IInv`; `Invariance`
is `Spec => []IInv`; and the theorem that states the property follows from
`IInv`. Every `IInv` was checked by TLC on the instance of the component's run
before it was proved, that of `Shm` also with two LWPs in one process.

| Module | Theorems |
|---|---|
| `SleepLockProofs` | `TypeCorrect`, `CoreCorrect`, `MutualExclusionHolds`, `NeverLostHolds`, `OwnerRecordedHolds`, `OwnerHandoverHolds`, `Refinement` (`LockSpec`), `SleepersAreWoken` and `PlainSleepersAreWoken` (`SleepersWoken`), `PendIsExact` (`PendKept`) |
| `RWSpinProofs` | `Invariance`, `WordsAreExact` (`WordsExact`), `Refinement` (`RWLockSpec`) |
| `RWSleepProofs` | `Invariance`, `ReadIsExact` (`ReadExact`), `HoldersKnowTheMode` (`HolderMode`), `SleepersAreWoken` (`SleepersWoken`), `PendIsExact` (`PendExact`), `Refinement` (`RWLockSpec`) |
| `IntrProofs` | `Invariance`, `QueueIsExact` (`QueueExact`), `NoInterruptIsStranded` (`NothingStranded`), `SoftInterruptsAreKept` (`SoftKept`) |
| `XCallProofs` | `Invariance`, `RespondersAreExact` (`RespondersExact`), `OnlyTheLateAreStale` (`StaleOnlyAfterCancel`) |
| `PostWaitProofs` | `Invariance`, `NobodySleepsOnPost` (`NoSleepOnPost`), `TimeoutStaysCurrent` (`TimeoutIsCurrent`), `PostsAreDelivered` (`DeliveredOnce`) |
| `EngineProofs` | `Invariance`, `TheLastEngineStays` (`KeepsOne`), `ADriverKeepsItsEngine` (`DriverBoundStays`), `AWakeupIsOfTheTarget` (`WaitsForTarget`) |
| `ShmProofs` | `Invariance`, `SegmentsLiveAsLongAsUsed` (`SegmentExact`), `TheIdentifierHolds` (`IdHolds`), `BusyIsExact` (`BusyExact`) |

### Assumptions

The `ASSUME`s of the modules say no more than that the special values (`NOPID`,
`None`, `NULL`, ...) are none of the ordinary ones, that bounds are numbers,
and that LWPs, processes, engines, addresses and descriptors are finite sets
where a count ranges over them. The exceptions, each from what TLC finds
without it:

- `ShmAssumption` restricts the programs, as described under *How state and
  steps correspond to the code*.
- `TimeoutStaysCurrent` and `PostsAreDelivered` assume `OneWaiter`: one LWP of
  the process waits. `p_pwflag` belongs to the process, and with two the
  timeout of one ends the wait of the other (under Findings).
- `SleepersAreWoken` of `SleepLock` speaks of the behaviours in which `acquire` is
  reached with `l_mutex` held, as its assertion says, and SIGWAITING is not sent;
  signals are posted and end waits in any way otherwise. Where no LWP uses
  `sleep_lock_sig` neither can happen, and `PlainSleepersAreWoken` has no
  condition on the behaviour: it is the property of `SleepLock_plain`.
- `PendIsExact` of `SleepLock` is `PendKept`, which has its condition in it: `PendExact`
  holds as long as signals are caught (no job control stop, no signal that is
  ignored) and SIGWAITING is not sent.

The theorems of `EngineProofs` assume nothing of the kind. `KeepsOne`,
`DriverBoundStays` and `WaitsForTarget` themselves end where a processor answers
after its call was over (`late`), which is a fact of the behaviour and no
assumption: up to there the processor may be as slow as it likes and the timeout
may find it anywhere, and what happens from there on is under Findings.

`MaxCalls`, `MaxWaits`, `MaxDepth` and the like are any numbers, so the bounds of
the runs are no bounds of the theorems.

### Arguments

*`SleepLock`.* `MutualExclusion` is not inductive: the optimistic release frees
the lock while the releasing LWP may still take it back and will still store
`NOPID`. `ReleaseInv` says what keeps that harmless. While an LWP is between the
store of `SL_BUSY` and that of `NOPID`, `owner` is `SL_BUSY`, so no new holder is
recorded and none can begin a release; hence at most one LWP releases in this
way, and no LWP serves the queue beside it. `OwnerRecorded` and
`MutualExclusion` need each other through this: an LWP may only be recorded when
nobody releases, and the LWP that stores `NOPID` must not erase anybody. The
steps are grouped into kinds (a step that does not concern the holder, one that
takes the lock, one that settles counts, one that records the owner), each with a
lemma, and every action is shown to be of its kind. For the refinement the
holder of `LockSpec` is defined by where the LWPs are; `HolderExact` shows from
`CoreInv` that it is unique, and the same grouping applies.

`SleepersWoken` rests on two more halves. `BaseInv` holds in every behaviour,
signals and all: `SectionInv` (one LWP or the poster of a signal in a section of
`sl_fspin`), `PostInv` (who holds the `l_mutex` of the LWP that is signalled),
`ListInv` (what is on `sl_list` or a chain is there once). `WakeInv` needs the two
conditions: `LmutexInv`, an LWP holds its `l_mutex` from before `sl_fspin` until
`swtch` has put it off its stack, so that no wakeup comes in between;
`SleeperInv`, who sleeps is on a list; `LookoutInv`, the race with the release as
in `RWSleep`. An LWP may give up for a signal only where that costs nobody a
wakeup: one that `sleep_unsleep` took off `sl_list` has consumed none, and one that
`sleep_unlock` woke tries the lock before it looks for signals again.

`PendExact` of both sleep locks is a sum over the LWPs of what each still has to
subtract (`Owed`). The sum is stated as the cardinality of a set of pairs, an
LWP with each of the sleeps it owes, and the lemmas `Pairs*` say how it moves
when one LWP settles its debt, and when a dequeueing makes each of the distinct
LWPs it wakes owe one more. What they need is that no debt is negative: an LWP
on the list has counted the sleep it is in (`SleepsInv`, `CaughtInv`). In
`SleepLock`, `CaughtInv` also follows `L_SIGWOKE`: it is set only between the
dequeueing by a signal and the LWP's `issig`, which finds that signal because it
is caught, so that the LWP that gives up leaves in `sl_fixpend` exactly what it
owes.

*`RWSpin`.* The last reader gives the lock up without `rws_fspin`, while others
may join. `LookInv` is what makes that right: one engine at a time is in the
second look (`Looking`), because it has set `rws_state` to `RWS_UNLOCKED`, which
keeps new readers out; and when it has seen `rws_rdcount` zero again, another
reader can only be there if `rws_state` is `RWS_READ`, which is the last thing it
tests. `CountExact` ties the count to the readers through cardinalities of sets
of engines; `AloneInv` is exclusion, `StateInv` and `FoundInv` what an engine
knows of `rws_state` and `rws_rdcount` where it is.

*`RWSleep`.* The invariant has two halves. `HoldInv` is about the words of the
lock; its steps (`Steps`) leave the lists out, since `rwsleep_dequeue` and the
wakeups change nothing else there. `AloneInv` is exclusion, `LookInv` the second
look of the last reader as in `RWSpin`. New here is `RWS_BUSY`: `GiveInv` says
that it is stored exactly while one LWP is between the optimistic release and
its second look, and that no other LWP has got past the wait for it, so that the
releasing LWP never erases the mode of a new holder. `ModeInv` then gives
`HolderMode`, and with the cardinalities of the sets of LWPs that are counted
`ReadExact` is kept by each of the few kinds of step of `CountMoves`.

The other half is about sleeping. `ListInv` says that an LWP which is on its way
to sleep, or asleep, is on `rw_list` or on one wakeup chain, once. `LookoutInv`
is the race of an LWP that queues up (it has found `rw_avail` taken and holds
`rw_fspin`) with a release: when the lock is free and there is such an LWP or a
queue, somebody will look; and an LWP that has found `rw_fspin` free after its
release and goes on to look at `rw_list` cannot have missed one, because an LWP
takes `rw_fspin` before its last test of `rw_avail`. That `rwsleep_dequeue` always
takes at least one LWP from a queue that is not empty (`WokenIn`) is what makes
the release from the queue safe.

*`Intr`.* `QueueInv` says that `deferqueue` is sorted and without repetition and
that `picipl` and `mseventsdeferred` belong to it; to insert and to take the
head keep that. That a device is not deferred twice needs `MaskedInv`, which
follows a device through the places it may be in (queue, or one frame of the
stack), masked all the while; `StackInv` gives the frames their order. For
`NothingStranded` the lemmas look at the top frame only: it goes on, is
pushed on, or returns to one that was interrupted at a level which is known.

*`XCall`.* The two fetches of `xcall_handshake[]` decide between the answer and
the cancellation: `RequestOk` says that a request is out, answered or
cancelled, one of the three, and not out after the second pass. The engine
with `xcallLock` owns all requests that are out (`HandInv`) and the parameters
(`ParamInv`). An engine that was never late (`OnTime`) has at most one
activation of `xcall_intr` that has not answered, and only while its request is
out, so what it reads is of the current call. `FreshInv` keeps earlier and later
calls of an engine apart.

*`PostWait`.* `p_pwflag` is loaded and stored with and without `p_mutex`, so the
invariant speaks of registers: `PostInv` says that an LWP which sleeps, or will
under `p_mutex`, has not missed a post, and that nobody is about to store a
`p_pwflag` with `PWPOST` over it. `LiveInv` ties a timeout that is set to the
sleep it was set for. For `DeliveredOnce`, `CreditInv` counts what was posted
against what was returned, what is recorded, the LWP that was woken and the
timeouts that are late, and `OwedInv` says where a post that is owed is.

*`Engine`.* Under `onoff_mutex` one call is inside (`MutexInv`), and `CpuInv`,
`CallInv` and `TimerInv` tie the processor, the flags, `online_engno` and the
timeout to that call, `TblInv` the flags that somebody has loaded under
`eng_tbl_mutex` to those that are there. That the unlocked update of
`online_failure` may undo theirs, or theirs its own, is harmless to what is
claimed, because each outcome leaves the engine either bad, hence never counted
nor taken offline, or as if only one of the two had happened. All but `TypeInv` and
`MutexInv` is claimed until `late`. `nonline` is not the number of engines that dispatch:
`CountInv` bounds it by `Backed`, those that dispatch, less one that comes and
is not counted yet, and with one that goes and is still counted; at least two
are counted while one goes, hence one remains.

*`Shm`.* `HoldInv` (one holder of `SHM_BUSY`), `SlotInv` (a descriptor has one
slot at most) and `WakeInv` are simple; with them `IdHolds` is inductive. For
`SegmentExact`, `RefExact` counts the attachments, the entry in the directory,
and the calls that are between a count and the attachment it stands for. The
step that is hard is the one that brings `kshm_refcnt` to zero: it must be made
by the last user, though forks that have copied an attachment and not yet
counted it are users as well. `ForkersAreFewer` maps each of those to the
attachment of its own child; the attachment of a parent is not among them, so
there are always fewer of them than attachments. With `DeadInv` no call is left
that still has the descriptor when it is freed. `DetachInv`, `ForkInv` and
`ExitInv` say that what a call has found in the address space is still there,
which is where the restrictions of `ShmAssumption` are needed.

### Only model-checked

All of `Rzbm`: `MapExact`, `CellsExact` and `ReservedIsThere`, which are about sums
over chunks (`zbm_maxfree` is a fold) and filtered sequences, where a proof needs
inductions over data that the provers cannot do; `NoLostWakeup`, which alone
would not need them, is left to TLC with the others. All liveness properties,
which are beyond the proof system with fairness.

`SleepersWoken` and `PendExact` of `SleepLock` do not hold outside of the
conditions of their theorems (under Findings), so there is nothing to prove there.

## Not modelled, and the plan

Of the modelled components these parts are missing: the `*_rellock` entry
points, which take the same steps as the calls without it and release a spin
lock of their caller between them; attribute calls of `shmctl`, which only take
`SHM_BUSY`, and affinity segments; `rzbm_deinit_chunk`, which nobody calls
(`idf_deinit_chunk` is an empty macro), and memory that is added after boot;
information and binding calls of engine management. `XCall` has a fixed set
of engines: nothing in the source orders `xcall_all` and an engine that goes
offline, which a composition with `Engine` would only repeat.

Left out for good: allocation and deallocation of locks, lock statistics and the
debugging variants (they do not change who holds a lock), the peeks
(`sleep_lockavail` and the like, which only read), `dshm.c`, whose protocol is
that of `shm.c` with a buffer pool on top, and the components of the inventory
that are bound to hardware or to code outside the repository.
