\* A process of one LWP waits for a post for ever, without signals and
\* timeouts, and is posted twice: the second post finds nobody asleep and is
\* recorded, and is erased with the return for the first.
CONSTANTS
  w1 = w1  p1 = p1  p2 = p2
  Waiter = {w1}
  Poster = {p1, p2}
  Own = {}
  Times = {"forever"}
  None = None
  MaxWaits = 2
  MaxPosts = 1
  MaxTimed = 0
  MaxSignals = 0
SPECIFICATION Spec
INVARIANT RecordedIsGot
CHECK_DEADLOCK FALSE
