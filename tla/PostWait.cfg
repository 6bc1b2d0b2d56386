\* A process of one LWP: every kind of wait, two processes that post it.
\* The LWP makes MaxWaits calls and stops, or waits for a post for ever.
CONSTANTS
  w1 = w1  p1 = p1  p2 = p2
  Waiter = {w1}
  Poster = {p1, p2}
  Own = {p2}
  Times = {"poll", "timed", "forever", "invalid"}
  None = None
  MaxWaits = 3
  MaxPosts = 2
  MaxTimed = 2
  MaxSignals = 1
SPECIFICATION FairSpec
INVARIANTS NoSleepOnPost DeliveredOnce TimeoutIsCurrent
PROPERTIES TimedWaitEnds
CHECK_DEADLOCK FALSE
