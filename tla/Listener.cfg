\* Two accept events, five sessions; getpeername fails up to twice for each event.
CONSTANTS
  None = None
  Sessions = {s1, s2, s3, s4, s5}
  Events = {e1, e2}
  MaxVanish = 2
SPECIFICATION Spec
INVARIANTS RegistrationsAddUp ConnectsItsOwn
SYMMETRY Symmetric
CHECK_DEADLOCK FALSE
