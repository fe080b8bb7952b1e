SPECIFICATION Spec
CONSTANTS
  None = None
  Envelopes <- SomeEnvelopes
  Offers <- SomeOffers
  Routers = {"affinity", "blind"}
  MaxIds = 3
  MaxRoutes = 2
INVARIANTS
  TypeOK
  WeightsInRange
  BestWins
  NobodyPassedOver
  Stable
  PreferenceSurvives
PROPERTIES
  LearnsFromOutcome
CHECK_DEADLOCK FALSE
