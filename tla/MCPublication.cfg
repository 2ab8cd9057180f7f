SPECIFICATION Spec
CONSTANTS
  Arms <- AllArms
  Kinds = {"finding", "absence", "scoped", "aside", "guess", "leak"}
  Attempts = 2
  Cap = 1
  Sources = 2
  None = None
INVARIANTS
  DraftIsTheSurvivingText
  NothingPastAGate
  UnconfirmedTextNamesItsGap
  AbsenceStatesItsBound
  RecordAgreesWithAnswer
PROPERTIES
  EveryStepAdvances
