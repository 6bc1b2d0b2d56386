\* Every kind of signal, and SIGWAITING.
CONSTANTS
  l1 = l1  l2 = l2  l3 = l3  io = io
  LWP = {l1, l2}
  Plain = {l1, l2}
  Interruptible = {l1, l2}
  Swappable = {}
  NOPID = NOPID  SL_BUSY = SL_BUSY  None = None  Setrun = Setrun
  Signals = {"caught", "stop", "cancelled"}
  SigWaiting = TRUE
  MaxSleeps = 2
  MaxSignals = 2
  MaxBlocked = 3
SPECIFICATION Spec
PROPERTIES ImplementsLock PendKept
CHECK_DEADLOCK FALSE
