SPECIFICATION LiveSpec
CONSTANTS
  r1 = r1
  r2 = r2
  a1 = a1
  Consumers = {r1, r2}
  NoConsumer = NoConsumer
  Addresses = {a1}
  Roles <- MCRoles
  BusRoom = 1
  CmdRoom = 1
  QueueRoom = 1
  OutRoom = 1
INVARIANTS
  TypeOK
  StreamKeepsPlace
  NothingLost
PROPERTIES
  LoopGoesOn
CHECK_DEADLOCK FALSE
