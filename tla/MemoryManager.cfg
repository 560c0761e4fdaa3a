CONSTANTS
  None = None
  Limits <- MCLimits
  Steps <- MCSteps
  MAX_ALLOC_SIZE = 4096
SPECIFICATION Spec
INVARIANT EverySizeHasAPool
CHECK_DEADLOCK FALSE
