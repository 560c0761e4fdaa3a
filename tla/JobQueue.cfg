CONSTANTS
  qa = qa
  qb = qb
  a1 = a1
  a2 = a2
  b1 = b1
  b2 = b2
  None = None
  Threads = {t1, t2}
  Queues = {qa, qb}
  Jobs = {a1, a2, b1, b2}
  Target <- CrossTarget
  Calls <- CrossCalls
  MaxCleared = 1
SPECIFICATION Spec
INVARIANTS TypeOK Serial OneCustodian CountExact FifoOnce
PROPERTIES EveryJobRuns DrainedQueueGoesIdle ImplementsSerialExecutor
