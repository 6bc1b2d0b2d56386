\* Three engines, each with any of the calls.
CONSTANTS
  e1 = e1  e2 = e2  e3 = e3
  Engine = {e1, e2, e3}
SPECIFICATION FairSpec
INVARIANTS WordsExact
PROPERTIES ImplementsRWLock SomebodyGetsIt
