\* A session of the server on which WSASend may fail at once.
CONSTANTS
  Workers = {w1}
  Senders = {s1, s2}
  Types = {"Server"}
  ConnectFails = FALSE
  CallFails = TRUE
  MaxSends = 2
  MaxRecvs = 0
  None = none
SPECIFICATION SafetySpec
INVARIANT QueueHasSender
CHECK_DEADLOCK FALSE
