SPECIFICATION Spec
CONSTANTS
  s1 = s1
  s2 = s2
  Senders = {s1, s2}
  Second = 3
  Rates = {0, 1, 2}
  Bursts = {0, 1, 2}
  MaxTime = 7
  MaxGrants = 5
INVARIANTS
  TypeOK
  RateHolds
  SendsHold
PROPERTIES
  NoneWithheld
  SleepsEnough
CHECK_DEADLOCK FALSE
