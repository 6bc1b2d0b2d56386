\* A reader and two LWPs that ask for either mode, one of which may be found
\* swapped out; fair scheduling.
CONSTANTS
  l1 = l1  l2 = l2  w1 = w1
  LWP = {l1, l2, w1}
  Readers = {l1, l2, w1}
  Writers = {l1, w1}
  Swappable = {w1}
  None = None
  MaxSleeps = 2
SPECIFICATION FairSpec
INVARIANTS ReadExact HolderMode SleepersWoken PendExact
PROPERTIES SomebodyGetsIt ImplementsRWLock
