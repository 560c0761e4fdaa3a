\* Any session: two workers; two jobs that send to it, or main that broadcasts.
CONSTANTS
  Workers = {w1, w2}
  Senders = {s1, s2}
  Types = {"Client", "Server"}
  ConnectFails = TRUE
  CallFails = TRUE
  MaxSends = 3
  MaxRecvs = 1
  None = none
SYMMETRY Symmetric
SPECIFICATION SafetySpec
INVARIANTS TypeOK OneSendAtATime OwnerOutlivesRequest WireKeepsOrder ReleasedOnce CallbacksInOrder
CHECK_DEADLOCK FALSE
