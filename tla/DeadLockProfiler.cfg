CONSTANTS
  None = None
  Threads = {t1, t2}
  a1 = a1
  a2 = a2
  b1 = b1
  c1 = c1
  Locks = {a1, a2, b1, c1}
  Class <- MCClass
  MaxDepth = 3
SPECIFICATION Spec
INVARIANTS OnlyOneClassDeadlocks CrashIffCycle ReportIsACycle
SYMMETRY Symmetric
CHECK_DEADLOCK FALSE
