CONSTANTS
  Users = {u1, u2}
  Seats = {s1, s2}
  Transports = {t1, t2, t3}
  None = None
  Bot = Bot
  Rooms = {r1, r2}
SPECIFICATION ServerSpec
CHECK_DEADLOCK FALSE
INVARIANTS
  OwnersAttached
  StartedOnce
  FramesFindPlayer
  SharedServicesLast
PROPERTIES
  StaleEndsAlone
  AskersResume
  RoomsReclaimed
