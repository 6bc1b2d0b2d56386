\* e1 calls untimed, e2 timed; either may target e3 and the other.
\* Every initiator makes MaxCalls calls and stops.
CONSTANTS
  e1 = e1  e2 = e2  e3 = e3
  Engine = {e1, e2, e3}
  Initiators = {e1, e2}
  Timed = {e2}
  None = None
  MaxCalls = 1
SPECIFICATION FairSpec
INVARIANTS RespondersExact StaleOnlyAfterCancel
PROPERTIES EveryCallReturns
CHECK_DEADLOCK FALSE
