SPECIFICATION Spec
CONSTANTS
  MaxSteps = 4
  MaxModelRequests = 7
  Recover = TRUE
  Verifies = TRUE
  MaxResends = 1
  MaxTurns = 2
  MaxRequests = 2
  FirstChoice = "required"
  Envelope = TRUE
  None = None
INVARIANTS
  ReserveSuffices
  EveryDispatchIsOnRecord
  CompulsionSurvives
