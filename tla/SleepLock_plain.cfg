\* sleep_lock, sleep_trylock, sleep_unlock, disowning; a swapped-out waiter;
\* fair scheduling.
CONSTANTS
  l1 = l1  l2 = l2  l3 = l3  io = io
  LWP = {l1, l2, l3, io}
  Plain = {l1, l2, l3}
  Interruptible = {}
  Swappable = {l3}
  NOPID = NOPID  SL_BUSY = SL_BUSY  None = None  Setrun = Setrun
  Signals = {}
  SigWaiting = FALSE
  MaxSleeps = 2
  MaxSignals = 0
  MaxBlocked = 1
SPECIFICATION FairSpec
INVARIANTS TypeOK MutualExclusion NeverLost OwnerRecorded SleepersWoken
PROPERTIES OwnerHandover SomebodyGetsIt
