SPECIFICATION Spec
CONSTANTS
  m1 = m1
  m2 = m2
  m3 = m3
  c1 = c1
  c2 = c2
  None = None
  Messages = {m1, m2}
  Consumers = {c1, c2}
  Accepts <- BothTake
  Willing = {c1}
  Relays = {}
  Capacity = 1
  CmdCapacity = 1
  MaxPending = 0
  MaxLeaves = 0
  Loops = {"drain"}
  MayCancel = FALSE
INVARIANTS
  CapHolds
CHECK_DEADLOCK FALSE
