\* The assertion at acquire in sleep_lock_sig.
CONSTANTS
  l1 = l1  l2 = l2  l3 = l3  io = io
  LWP = {l1, l2}
  Plain = {l1}
  Interruptible = {l2}
  Swappable = {}
  NOPID = NOPID  SL_BUSY = SL_BUSY  None = None  Setrun = Setrun
  Signals = {}
  SigWaiting = FALSE
  MaxSleeps = 2
  MaxSignals = 0
  MaxBlocked = 3
SPECIFICATION Spec
INVARIANT AcquireHoldsLmutex
CHECK_DEADLOCK FALSE
