\* Two threads that nest up to three guards in any order.
CONSTANTS
  None = None
  Threads = {t1, t2}
  MaxDepth = 3
SPECIFICATION Spec
INVARIANTS Exclusive WordIsTrue WriteCountPrivate OnlyOwnReadsCrash
PROPERTIES OnlyOvertaken ImplementsRWLock
CHECK_DEADLOCK FALSE
