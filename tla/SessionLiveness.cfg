\* A session of the server, and no call fails on a healthy socket.
CONSTANTS
  Workers = {w1, w2}
  Senders = {s1, s2}
  Types = {"Server"}
  ConnectFails = FALSE
  CallFails = FALSE
  MaxSends = 2
  MaxRecvs = 1
  None = none
SPECIFICATION Spec
PROPERTIES QueueDrains CloseIsNoticed DisconnectedIsReleased
CHECK_DEADLOCK FALSE
