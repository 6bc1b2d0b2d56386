\* Two LWPs in a process, one of which forks, and one in another process.
CONSTANTS
  a1 = a1  a2 = a2  b1 = b1  p1 = p1  p2 = p2  p3 = p3
  Slot = {0}
  Desc = {0, 1}
  Key = {1}
  SeqMax = 1
  Proc = {p1, p2, p3}
  Addr = {1, 2}
  First = {p1, p2}
  Shmseg = 2
  Lwp = {a1, a2, b1}
  ProcOf <- MCProcOf
  Ops <- MCOps
  NULL = NULL
  MaxCalls <- MCMaxCalls
  MaxLock = 1
SPECIFICATION FairSpec
INVARIANTS SegmentExact IdHolds BusyExact
PROPERTIES EveryCallReturns
CHECK_DEADLOCK FALSE
