SPECIFICATION LiveSpec
CONSTANTS
  c1 = c1
  c2 = c2
  b1 = b1
  b2 = b2
  Clients = {c1, c2}
  Broadcasters = {b1, b2}
  NoTask = NoTask
  Room = 1
  Wrap = 4
INVARIANTS
  TypeOK
  CounterAccounts
PROPERTIES
  LivingStay
  CallsReturn
CHECK_DEADLOCK FALSE
