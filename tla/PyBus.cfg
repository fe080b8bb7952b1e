SPECIFICATION LiveSpec
CONSTANTS
  t1 = t1
  t2 = t2
  c1 = c1
  c2 = c2
  p1 = p1
  p2 = p2
  Threads = {t1, t2}
  Callbacks = {c1, c2}
  Names = {p1, p2}
  Nobody = Nobody
  Accepts <- MCAccepts
  ChanRoom = 2
  MaxSent = 3
  MaxDrains = 3
INVARIANTS
  TypeOK
  NothingLost
  OnlyRaisersWait
PROPERTIES
  CallsReturn
CHECK_DEADLOCK FALSE
