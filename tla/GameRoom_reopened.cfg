CONSTANTS
  Users = {u1, u2}
  Seats = {s1, s2}
  Transports = {t1, t2, t3}
  None = None
  Bot = Bot
SPECIFICATION Spec
CHECK_DEADLOCK FALSE
PROPERTIES
  ClosedForGood
