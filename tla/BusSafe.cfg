SPECIFICATION Spec
CONSTANTS
  m1 = m1
  m2 = m2
  m3 = m3
  c1 = c1
  c2 = c2
  None = None
  Messages = {m1, m2, m3}
  Consumers = {c1, c2}
  Accepts <- Overlapping
  Willing = {c1}
  Relays = {c2}
  Capacity = 2
  CmdCapacity = 2
  MaxPending = 2
  MaxLeaves = 2
  Loops = {"drain", "dispatch"}
  MayCancel = TRUE
INVARIANTS
  TypeOK
  OneFate
  ArrivalOrder
  BacklogBound
  DrainLeavesNothing
  RegistrationView
PROPERTIES
  EvictsOldest
  DeliversAtMostOnce
CHECK_DEADLOCK FALSE
