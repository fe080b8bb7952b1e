SPECIFICATION DrainSpec
CONSTANTS
  m1 = m1
  m2 = m2
  m3 = m3
  c1 = c1
  c2 = c2
  None = None
  Messages = {m1, m2, m3}
  Consumers = {c1, c2}
  Accepts <- BothTake
  Willing = {c1}
  Relays = {c2}
  Capacity = 1
  CmdCapacity = 1
  MaxPending = 2
  MaxLeaves = 0
  Loops = {"drain"}
  MayCancel = FALSE
PROPERTIES
  DrainReturns
  SendReturns
  RegisterReturns
  HeldIsRetried
  WedgedForGood
CHECK_DEADLOCK FALSE
