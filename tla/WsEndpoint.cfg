SPECIFICATION LiveSpec
CONSTANTS
  r1 = r1
  r2 = r2
  Consumers = {r1, r2}
  NoConsumer = NoConsumer
  Roles <- MCRoles
  BusRoom = 1
  CmdRoom = 1
  QueueRoom = 1
  BytesRoom = 1
INVARIANTS
  TypeOK
  NothingLost
PROPERTIES
  GoneIsDeregistered
CHECK_DEADLOCK FALSE
