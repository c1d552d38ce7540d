CONSTANTS
  Rooms = {r1, r2}
  None = None
SPECIFICATION Spec
CHECK_DEADLOCK FALSE
PROPERTIES
  ShutdownEnds
