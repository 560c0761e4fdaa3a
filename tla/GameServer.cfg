\* Two sessions with two players each, or one with four; three requests to enter;
\* two chats.
CONSTANTS
  None = None
  Sessions = {s1, s2}
  Chats = {m1, m2}
  Enters = {x1, x2, x3}
  MaxClosed = 1
  MaxPlayers = 4
  GRoom = GRoom
SPECIFICATION Spec
INVARIANTS OneOrder ChatReachesAudience
SYMMETRY Symmetric
CHECK_DEADLOCK FALSE
