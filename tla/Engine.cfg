\* Two LWPs bring three processors online and offline; two of the processors
\* may fail, and a driver is bound to one of these.  The LWPs make MaxCalls
\* calls altogether and stop.
CONSTANTS
  l1 = l1  l2 = l2
  Cpu = {0, 1, 2}
  BOOTENG = 0
  Faulty = {1, 2}
  Driver = {1}
  Lwp = {l1, l2}
  None = None
  Licensed = 3
  MaxCalls = 3
SPECIFICATION FairSpec
INVARIANTS KeepsOne DriverBoundStays WaitsForTarget
PROPERTIES EveryCallReturns
CHECK_DEADLOCK FALSE
